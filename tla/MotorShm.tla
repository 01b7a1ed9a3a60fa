------------------------------ MODULE MotorShm ------------------------------
(***************************************************************************)
(* The shared-memory region /motor_ctrl of motor_shm.h: one producer       *)
(* (motor_controller.c) that publishes every accepted frame first into the *)
(* snapshot and then into the next slot of the block ring, and consumers   *)
(* (shm_reader_c.c, motor_monitor.c, recorder.c) that read both without    *)
(* ever blocking the producer.                                             *)
(*                                                                         *)
(* The snapshot and each ring slot are one "cell": a seqlock counter and   *)
(* payload words.  The fences of motor_shm.h order the counter against the *)
(* payload, and leave the payload words unordered among themselves, so a   *)
(* cell is written and copied one word at a time in any order.             *)
(*                                                                         *)
(* A payload word holds the number of the frame it came from; a cell that  *)
(* was never written holds 0, as a freshly created shm object does.        *)
(***************************************************************************)
EXTENDS Naturals, FiniteSets

CONSTANTS Readers,     \* consumers, each with its own cursor
          Words,       \* payload words of a cell
          Depth,       \* MOTOR_RING_DEPTH (16 in the code)
          Tries,       \* attempts of one seqlock read (64 in the code)
          MaxBlocks,   \* max_blocks of one poll (16 in the code)
          U32, U64,    \* 2^32 and 2^64 in the code
          MaxFrames,   \* bound: frames published in a behaviour
          MaxCrashes   \* bound: producer crashes in a behaviour

ASSUME DepthAssumption  == Depth \in Nat \ {0}
ASSUME WordsAssumption  == Words # {}
ASSUME BlocksAssumption == Tries \in Nat \ {0} /\ MaxBlocks \in Nat \ {0}
ASSUME BoundAssumption  == MaxFrames \in Nat /\ MaxCrashes \in Nat
(* Neither counter wraps while the producer runs: slots are rewritten      *)
(* fewer than 2^31 times (years, at 100 frames a second).                  *)
ASSUME WidthAssumption  == /\ U32 \in Nat /\ 2 * MaxFrames + 1 < U32
                           /\ U64 \in Nat /\ MaxFrames + Depth < U64

Slots  == 0 .. Depth - 1
Snap   == Depth               \* the snapshot cell
Cells  == 0 .. Depth
WritePosReg == Depth + 1      \* write_pos, among the counters to reset
Frames == 0 .. MaxFrames
Copies == [Words -> Frames]

(***************************************************************************)
(* Unsigned arithmetic at the widths of the code.                          *)
(***************************************************************************)
Inc32(s)     == IF s + 1 = U32 THEN 0 ELSE s + 1
Sub64(a, b)  == IF a >= b THEN a - b ELSE (a + U64) - b
Add64(a, b)  == IF a + b >= U64 THEN (a + b) - U64 ELSE a + b
Odd(s)       == s % 2 = 1

VARIABLES
  seq,       \* seqlock counter of each cell
  data,      \* payload of each cell
  writePos,  \* ring.write_pos
  frame,     \* number of the frame being, or last, published
  ppc,       \* control state of the producer
  ptodo,     \* words of the open cell not yet written
  resets,    \* counters motor_shm_region_init has still to reset
  crashes,   \* producer crashes so far
  rpc,       \* control state of each reader
  readPos,   \* read_pos
  wp,        \* write_pos as sampled by the poll in progress
  cell,      \* cell being read
  s1,        \* counter value at the start of the copy
  todo,      \* words not yet copied
  copy,      \* the scratch block
  tries,     \* attempts already failed
  written,   \* blocks returned by this poll
  dropped,   \* *out_dropped_blocks, summed over the polls
  taken,     \* blocks returned, summed over the polls
  start,     \* read_pos when the reader attached
  got,       \* last ring block returned, and the position asked for
  gotSnap    \* last snapshot returned

memVars  == <<seq, data, writePos>>
prodVars == <<frame, ppc, ptodo, resets, crashes>>
copyVars == <<cell, s1, todo, copy, tries>>
pollVars == <<readPos, wp, written, dropped, taken, start>>
outVars  == <<got, gotSnap>>
vars     == <<memVars, prodVars, rpc, copyVars, pollVars, outVars>>

Nothing == [w \in Words |-> 0]

Init == /\ seq = [c \in Cells |-> 0]
        /\ data = [c \in Cells |-> Nothing]
        /\ writePos = 0 /\ frame = 0
        /\ ppc = "idle" /\ ptodo = {} /\ resets = {} /\ crashes = 0
        /\ rpc = [r \in Readers |-> "off"]
        /\ readPos = [r \in Readers |-> 0] /\ wp = [r \in Readers |-> 0]
        /\ cell = [r \in Readers |-> Snap] /\ s1 = [r \in Readers |-> 0]
        /\ todo = [r \in Readers |-> {}]
        /\ copy = [r \in Readers |-> Nothing]
        /\ tries = [r \in Readers |-> 0] /\ written = [r \in Readers |-> 0]
        /\ dropped = [r \in Readers |-> 0] /\ taken = [r \in Readers |-> 0]
        /\ start = [r \in Readers |-> 0]
        /\ got = [r \in Readers |-> [pos |-> 0, words |-> Nothing]]
        /\ gotSnap = [r \in Readers |-> Nothing]

-----------------------------------------------------------------------------
(***************************************************************************)
(* The producer.  "snap" and "slot": a cell is open (its counter is odd);  *)
(* "ring": the snapshot is done and the ring comes next; "pos": the slot   *)
(* is committed and write_pos is not yet advanced.                         *)
(***************************************************************************)
Slot(pos) == pos % Depth

OpenCell(c) == /\ seq' = [seq EXCEPT ![c] = Inc32(@)]
               /\ ptodo' = Words
               /\ UNCHANGED <<data, writePos, resets, crashes>>

FillWord(c) == \E w \in ptodo :
                 /\ data' = [data EXCEPT ![c][w] = frame]
                 /\ ptodo' = ptodo \ {w}
                 /\ UNCHANGED <<seq, writePos, frame, ppc, resets, crashes>>

CommitCellEarly(c) == /\ seq' = [seq EXCEPT ![c] = Inc32(@)]
                      /\ UNCHANGED <<data, writePos, frame, ptodo, resets, crashes>>

CommitCell(c) == /\ ptodo = {}
                 /\ seq' = [seq EXCEPT ![c] = Inc32(@)]
                 /\ UNCHANGED <<data, writePos, frame, ptodo, resets, crashes>>

readersUnchanged == UNCHANGED <<rpc, copyVars, pollVars, outVars>>

SnapOpen   == /\ ppc = "idle" /\ frame < MaxFrames
              /\ ppc' = "snap" /\ frame' = frame + 1
              /\ OpenCell(Snap) /\ readersUnchanged
SnapFill   == ppc = "snap" /\ FillWord(Snap) /\ readersUnchanged
SnapCommit == /\ ppc = "snap" /\ ppc' = "ring"
              /\ CommitCell(Snap) /\ readersUnchanged

SlotOpen   == /\ ppc = "ring" /\ ppc' = "slot" /\ UNCHANGED frame
              /\ OpenCell(Slot(writePos)) /\ readersUnchanged
SlotFill   == ppc = "slot" /\ FillWord(Slot(writePos)) /\ readersUnchanged
SlotCommit == /\ ppc = "slot" /\ ppc' = "pos"
              /\ CommitCell(Slot(writePos)) /\ readersUnchanged
PosPublish == /\ ppc = "pos" /\ ppc' = "idle"
              /\ writePos' = writePos + 1
              /\ UNCHANGED <<seq, data, frame, ptodo, resets, crashes>>
              /\ readersUnchanged

(* The producer dies without running its exit path; the region survives.   *)
Crash == /\ ppc # "dead" /\ crashes < MaxCrashes
         /\ ppc' = "dead" /\ crashes' = crashes + 1
         /\ ptodo' = {} /\ resets' = {}
         /\ UNCHANGED <<memVars, frame>> /\ readersUnchanged

(* shm_setup of the next producer opens the same object and runs           *)
(* motor_shm_region_init on it: every counter and write_pos back to 0, by  *)
(* relaxed stores a reader may see in any order.  The payload stays.       *)
ShmSetup == /\ ppc = "dead" /\ ppc' = "init"
            /\ resets' = Cells \cup {WritePosReg}
            /\ UNCHANGED <<memVars, frame, ptodo, crashes>>
            /\ readersUnchanged

RegionInit ==
  /\ ppc = "init"
  /\ \E x \in resets :
       /\ resets' = resets \ {x}
       /\ IF x = WritePosReg
          THEN writePos' = 0 /\ seq' = seq
          ELSE seq' = [seq EXCEPT ![x] = 0] /\ writePos' = writePos
  /\ ppc' = IF resets' = {} THEN "idle" ELSE "init"
  /\ UNCHANGED <<data, frame, ptodo, crashes>> /\ readersUnchanged

-----------------------------------------------------------------------------
(***************************************************************************)
(* The consumers.                                                          *)
(***************************************************************************)
memUnchanged == UNCHANGED <<memVars, prodVars>>

(* shm_reader_open: consume from "now".                                    *)
AttachAt(r, pos) == /\ rpc[r] = "off"
                    /\ rpc' = [rpc EXCEPT ![r] = "idle"]
                    /\ readPos' = [readPos EXCEPT ![r] = pos]
                    /\ start' = [start EXCEPT ![r] = pos]
                    /\ memUnchanged /\ UNCHANGED <<copyVars, outVars>>
                    /\ UNCHANGED <<wp, written, dropped, taken>>

Attach(r) == AttachAt(r, writePos)

(* The recorder starts with what the ring still holds.                     *)
AttachHistory(r) == AttachAt(r, IF writePos >= Depth THEN writePos - Depth ELSE 0)

(* Entry of motor_snapshot_read and motor_ring_read_slot.                  *)
BeginRead(r, c) == /\ rpc' = [rpc EXCEPT ![r] = "s1"]
                   /\ cell' = [cell EXCEPT ![r] = c]
                   /\ tries' = [tries EXCEPT ![r] = 0]
                   /\ UNCHANGED <<s1, todo, copy>>

SnapshotRead(r) == /\ rpc[r] = "idle"
                   /\ BeginRead(r, Snap)
                   /\ memUnchanged /\ UNCHANGED <<pollVars, outVars>>

PollCountsAll(r) ==
  /\ rpc[r] = "idle"
  /\ rpc' = [rpc EXCEPT ![r] = "loop"]
  /\ wp' = [wp EXCEPT ![r] = writePos]
  /\ written' = [written EXCEPT ![r] = 0]
  /\ LET behind == Sub64(writePos, readPos[r])
     IN IF behind > Depth
        THEN /\ dropped' = [dropped EXCEPT ![r] = Add64(@, behind)]
             /\ readPos' = [readPos EXCEPT ![r] = Sub64(writePos, Depth)]
        ELSE UNCHANGED <<dropped, readPos>>
  /\ memUnchanged /\ UNCHANGED <<copyVars, taken, start, outVars>>

(* shm_reader_poll_blocks up to its loop: sample write_pos, and skip what  *)
(* the ring no longer holds.                                               *)
Poll(r) ==
  /\ rpc[r] = "idle"
  /\ rpc' = [rpc EXCEPT ![r] = "loop"]
  /\ wp' = [wp EXCEPT ![r] = writePos]
  /\ written' = [written EXCEPT ![r] = 0]
  /\ LET behind == Sub64(writePos, readPos[r])
     IN IF behind > Depth
        THEN /\ dropped' = [dropped EXCEPT ![r] = Add64(@, behind - Depth)]
             /\ readPos' = [readPos EXCEPT ![r] = Sub64(writePos, Depth)]
        ELSE UNCHANGED <<dropped, readPos>>
  /\ memUnchanged /\ UNCHANGED <<copyVars, taken, start, outVars>>

MoreInclusive(r) == readPos[r] <= wp[r] /\ written[r] < MaxBlocks
MoreOverfull(r) == readPos[r] < wp[r] /\ written[r] <= MaxBlocks
More(r) == readPos[r] < wp[r] /\ written[r] < MaxBlocks

ReadSlot(r) == /\ rpc[r] = "loop" /\ More(r)
               /\ BeginRead(r, Slot(readPos[r]))
               /\ memUnchanged /\ UNCHANGED <<pollVars, outVars>>

PollReturn(r) == /\ rpc[r] = "loop" /\ ~More(r)
                 /\ rpc' = [rpc EXCEPT ![r] = "idle"]
                 /\ memUnchanged /\ UNCHANGED <<copyVars, pollVars, outVars>>

(* One attempt fails; the last one makes the read return false, and the    *)
(* poll then counts a drop and moves on.                                   *)
AdvanceToWp(r) == readPos' = [readPos EXCEPT ![r] = wp[r]]
Advance(r) == readPos' = [readPos EXCEPT ![r] = Add64(@, 1)]

FailedTryForever(r) ==
  /\ tries' = [tries EXCEPT ![r] = (@ + 1) % (Tries + 1)]
  /\ rpc' = [rpc EXCEPT ![r] = "s1"]
  /\ UNCHANGED <<pollVars, cell, s1, todo, copy, outVars>>

FailedTry(r) ==
  /\ tries' = [tries EXCEPT ![r] = @ + 1]
  /\ IF tries[r] + 1 < Tries
     THEN rpc' = [rpc EXCEPT ![r] = "s1"] /\ UNCHANGED pollVars
     ELSE IF cell[r] = Snap
     THEN rpc' = [rpc EXCEPT ![r] = "idle"] /\ UNCHANGED pollVars
     ELSE /\ rpc' = [rpc EXCEPT ![r] = "loop"]
          /\ dropped' = [dropped EXCEPT ![r] = Add64(@, 1)]
          /\ Advance(r)
          /\ UNCHANGED <<wp, written, taken, start>>
  /\ UNCHANGED <<cell, s1, todo, copy, outVars>>

LoadOdd(r) == /\ rpc[r] = "s1" /\ Odd(seq[cell[r]])
              /\ FailedTry(r) /\ memUnchanged

LoadEven(r) == /\ rpc[r] = "s1" /\ ~Odd(seq[cell[r]])
               /\ rpc' = [rpc EXCEPT ![r] = "copy"]
               /\ s1' = [s1 EXCEPT ![r] = seq[cell[r]]]
               /\ todo' = [todo EXCEPT ![r] = Words]
               /\ memUnchanged
               /\ UNCHANGED <<cell, copy, tries, pollVars, outVars>>

CopyWord(r) == /\ rpc[r] = "copy"
               /\ \E w \in todo[r] :
                    /\ copy' = [copy EXCEPT ![r][w] = data[cell[r]][w]]
                    /\ todo' = [todo EXCEPT ![r] = @ \ {w}]
               /\ memUnchanged
               /\ UNCHANGED <<rpc, cell, s1, tries, pollVars, outVars>>

UnchangedAssumed(r) == TRUE
Unchanged(r) == seq[cell[r]] = s1[r]

Retry(r) == /\ rpc[r] = "copy" /\ todo[r] = {} /\ ~Unchanged(r)
            /\ FailedTry(r) /\ memUnchanged

Accept(r) ==
  /\ rpc[r] = "copy" /\ todo[r] = {} /\ Unchanged(r)
  /\ IF cell[r] = Snap
     THEN /\ rpc' = [rpc EXCEPT ![r] = "idle"]
          /\ gotSnap' = [gotSnap EXCEPT ![r] = copy[r]]
          /\ UNCHANGED <<got, pollVars>>
     ELSE /\ rpc' = [rpc EXCEPT ![r] = "loop"]
          /\ got' = [got EXCEPT ![r] = [pos |-> readPos[r], words |-> copy[r]]]
          /\ written' = [written EXCEPT ![r] = @ + 1]
          /\ taken' = [taken EXCEPT ![r] = Add64(@, 1)]
          /\ Advance(r)
          /\ UNCHANGED <<wp, dropped, start, gotSnap>>
  /\ memUnchanged /\ UNCHANGED copyVars

-----------------------------------------------------------------------------
Producer == \/ SnapOpen \/ SnapFill \/ SnapCommit
            \/ SlotOpen \/ SlotFill \/ SlotCommit \/ PosPublish
Recovery == Crash \/ ShmSetup \/ RegionInit
ReadStep(r) == \/ ReadSlot(r) \/ PollReturn(r) \/ LoadOdd(r) \/ LoadEven(r)
               \/ CopyWord(r) \/ Retry(r) \/ Accept(r)
Reader(r) == Attach(r) \/ AttachHistory(r) \/ SnapshotRead(r) \/ Poll(r) \/ ReadStep(r)

Next == Producer \/ Recovery \/ \E r \in Readers : Reader(r)

Spec == Init /\ [][Next]_vars

(* A consumer that entered a read or a poll keeps running: it is a process *)
(* that never waits inside these functions.  Nothing is assumed of the     *)
(* producer, which may stop at any point.                                  *)
FairSpec == Spec /\ \A r \in Readers : WF_vars(ReadStep(r))

-----------------------------------------------------------------------------
(***************************************************************************)
(* Properties.                                                             *)
(***************************************************************************)
MemType  == /\ seq \in [Cells -> 0 .. U32 - 1] /\ data \in [Cells -> Copies]
            /\ writePos \in Frames
ProdType == /\ frame \in Frames /\ crashes \in 0 .. MaxCrashes
            /\ ppc \in {"idle", "snap", "ring", "slot", "pos", "dead", "init"}
            /\ ptodo \in SUBSET Words
            /\ resets \in SUBSET (Cells \cup {WritePosReg})
CopyType == /\ rpc \in [Readers -> {"off", "idle", "loop", "s1", "copy"}]
            /\ cell \in [Readers -> Cells] /\ s1 \in [Readers -> 0 .. U32 - 1]
            /\ todo \in [Readers -> SUBSET Words]
            /\ copy \in [Readers -> Copies] /\ tries \in [Readers -> 0 .. Tries]
PollType == /\ readPos \in [Readers -> 0 .. U64 - 1]
            /\ wp \in [Readers -> Frames] /\ start \in [Readers -> Frames]
            /\ written \in [Readers -> 0 .. MaxBlocks]
            /\ dropped \in [Readers -> 0 .. U64 - 1]
            /\ taken \in [Readers -> 0 .. U64 - 1]
OutType  == /\ got \in [Readers -> [pos : 0 .. U64 - 1, words : Copies]]
            /\ gotSnap \in [Readers -> Copies]

(* Every variable keeps its type: no counter leaves its width, no read     *)
(* exceeds its attempts and no poll the caller's buffer.                   *)
TypeOK == MemType /\ ProdType /\ CopyType /\ PollType /\ OutType

Whole(words) == \A v, w \in Words : words[v] = words[w]

(* A block or snapshot that motor_ring_read_slot / motor_snapshot_read     *)
(* returned with true comes from one frame: its words never mix two        *)
(* frames, whatever the producer wrote while it was being copied.  Here    *)
(* and in the next properties "crashes = 0" excludes the time after        *)
(* motor_shm_region_init has run on a region in use, which makes counters  *)
(* repeat; a producer that stops for ever at any point is still included.  *)
NoTornRead ==
  crashes = 0 => \A r \in Readers : Whole(got[r].words) /\ Whole(gotSnap[r])

(* What a consumer's poll moved past is what it returned plus what it      *)
(* reported as dropped: the cursor and the two totals never drift apart    *)
(* (modulo 2^64), over laps, failed reads and producer restarts.           *)
CursorAccounted ==
  \A r \in Readers : readPos[r] = Add64(Add64(start[r], taken[r]), dropped[r])

(* A block returned for position p was published for p or for a later lap  *)
(* of the same slot: never an older one, never a slot not yet written.     *)
BlockNotOlder ==
  crashes = 0 => \A r \in Readers : taken[r] > 0 =>
     \A w \in Words : /\ got[r].words[w] >= got[r].pos + 1
                      /\ (got[r].words[w] - 1) % Depth = Slot(got[r].pos)

(* The blocks a consumer was handed and the blocks it was told it missed   *)
(* are together no more than what was published since it attached: the     *)
(* cursor of shm_reader_poll_blocks never passes write_pos, although it    *)
(* moves by a sample of write_pos that may be stale.  (It is a bound on    *)
(* the sum and not on each block: a lapped slot hands out a later block    *)
(* for an old position, and that block may be counted as missed after.)    *)
DropsArePublished ==
  crashes = 0 => \A r \in Readers : start[r] + taken[r] + dropped[r] <= writePos

(* The producer updates the snapshot before the ring, so a snapshot that   *)
(* a consumer reads after a ring block is at least as new as that block.   *)
SnapshotNotBehindRing ==
  [][\A r \in Readers : crashes = 0 /\ Accept(r) /\ cell[r] = Snap =>
       \A w \in Words : gotSnap'[r][w] >= got[r].words[w]]_vars

(* Reads and polls are bounded: once entered they return, even if the      *)
(* producer died with the cell open.                                       *)
ReadsReturn ==
  \A r \in Readers : rpc[r] \in {"loop", "s1", "copy"} ~> rpc[r] = "idle"
=============================================================================
