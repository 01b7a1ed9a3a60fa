--------------------------- MODULE MotorShmProofs ---------------------------
(***************************************************************************)
(* Proofs about MotorShm, for every set of readers, ring depth, block size *)
(* and number of frames: cursors, whole snapshots and blocks, and the      *)
(* order in which a reader of a running producer sees them.                *)
(***************************************************************************)
EXTENDS MotorShm, TLAPS

(* The slot index of motor_ring_publish and motor_ring_read_slot is inside *)
(* the ring.                                                               *)
LEMMA SlotIndex == \A p \in Nat : Slot(p) \in Slots /\ Slot(p) \in Cells /\ Slot(p) # Snap
  BY DepthAssumption, SMT DEF Slot, Slots, Cells, Snap

(* The widths: results of the unsigned helpers stay below them.            *)
LEMMA Widths ==
  /\ \A s \in 0 .. U32 - 1 : Inc32(s) \in 0 .. U32 - 1
  /\ \A a, b \in 0 .. U64 - 1 : /\ Sub64(a, b) \in 0 .. U64 - 1
                                /\ Add64(a, b) \in 0 .. U64 - 1
  BY WidthAssumption, BoundAssumption, SMT DEF Inc32, Sub64, Add64

(* What a wrapped subtraction takes away, a wrapped addition restores: the *)
(* cursor jump of shm_reader_poll_blocks and the drop count agree.         *)
LEMMA LapArithmetic ==
  \A w, p, b \in 0 .. U64 - 1 : \A d \in 0 .. U64 - 1 :
     /\ Depth < U64 /\ Sub64(w, p) > Depth
     /\ p = Add64(b, d)
     => Sub64(w, Depth) = Add64(b, Add64(d, Sub64(w, p) - Depth))
  BY WidthAssumption, DepthAssumption, SMT DEF Sub64, Add64

LEMMA StepArithmetic ==
  \A b, t, d \in 0 .. U64 - 1 :
     /\ Add64(Add64(Add64(b, t), d), 1) = Add64(Add64(b, Add64(t, 1)), d)
     /\ Add64(Add64(Add64(b, t), d), 1) = Add64(Add64(b, t), Add64(d, 1))
  BY WidthAssumption, SMT DEF Add64

-----------------------------------------------------------------------------
(***************************************************************************)
(* Types and cursor accounting, over any number of producer crashes.       *)
(***************************************************************************)

(* write_pos never overtakes the frames, and lags while one is in flight.  *)
PosBehindFrame ==
  /\ writePos <= frame
  /\ ppc \in {"snap", "ring", "slot", "pos"} => writePos < frame

(* A read in progress has an attempt left, and a poll has room for the     *)
(* block it is reading.                                                    *)
ReadInProgress ==
  \A r \in Readers : rpc[r] \in {"s1", "copy"} =>
     tries[r] < Tries /\ (cell[r] # Snap => written[r] < MaxBlocks)

TypeInv == TypeOK /\ PosBehindFrame /\ ReadInProgress

LEMMA FrameFacts ==
  /\ Frames \subseteq Nat /\ Frames \subseteq 0 .. U64 - 1 /\ 0 \in Frames
  /\ Snap \in Cells /\ Slots \subseteq Cells /\ WritePosReg \notin Cells
  BY DepthAssumption, WidthAssumption, BoundAssumption, SMT
  DEF Frames, Cells, Slots, Snap, WritePosReg

LEMMA Zeroes ==
  /\ 0 \in 0 .. U32 - 1 /\ 0 \in 0 .. U64 - 1 /\ 0 \in 0 .. Tries
  /\ 0 \in 0 .. MaxBlocks /\ 0 \in 0 .. MaxCrashes
  BY BlocksAssumption, BoundAssumption, WidthAssumption, DepthAssumption, SMT

LEMMA TypeInit == Init => TypeInv
  <1> SUFFICES ASSUME Init PROVE TypeInv
    OBVIOUS
  <1>1. Nothing \in Copies
    BY FrameFacts DEF Nothing, Copies
  <1>2. MemType /\ ProdType
    BY <1>1, FrameFacts, Zeroes, SMT DEF Init, MemType, ProdType
  <1>3. CopyType
    BY <1>1, FrameFacts, Zeroes, SMT DEF Init, CopyType
  <1>4. PollType
    BY <1>1, FrameFacts, Zeroes, SMT DEF Init, PollType
  <1>5. OutType
    BY <1>1, FrameFacts, SMT DEF Init, OutType
  <1>6. PosBehindFrame /\ ReadInProgress
    BY BlocksAssumption, SMT DEF Init, PosBehindFrame, ReadInProgress
  <1> QED
    BY <1>2, <1>3, <1>4, <1>5, <1>6 DEF TypeInv, TypeOK

(* A step that leaves the consumers alone keeps their part of the types.   *)
LEMMA ReadersKept ==
  TypeInv /\ readersUnchanged => (CopyType /\ PollType /\ OutType /\ ReadInProgress)'
  BY DEF TypeInv, TypeOK, readersUnchanged, copyVars, pollVars, outVars,
     CopyType, PollType, OutType, ReadInProgress

LEMMA BumpType ==
  ASSUME NEW c \in Cells, MemType, seq' = [seq EXCEPT ![c] = Inc32(@)],
         UNCHANGED <<data, writePos>>
  PROVE  MemType'
  BY Widths DEF MemType

LEMMA FillType ==
  ASSUME NEW c \in Cells, MemType, ProdType, FillWord(c)
  PROVE  data' \in [Cells -> Copies] /\ ptodo' \in SUBSET Words
  <1>1. PICK w \in ptodo : /\ data' = [data EXCEPT ![c][w] = frame]
                           /\ ptodo' = ptodo \ {w}
    BY DEF FillWord
  <1>2. data[c] \in [Words -> Frames] /\ w \in Words /\ frame \in Frames
    BY <1>1 DEF MemType, ProdType, Copies
  <1>3. [data[c] EXCEPT ![w] = frame] \in Copies
    BY <1>2 DEF Copies
  <1> QED
    BY <1>1, <1>3 DEF MemType, ProdType

LEMMA TypeProducer == TypeInv /\ Producer => TypeInv'
  <1> SUFFICES ASSUME TypeInv, Producer PROVE TypeInv'
    OBVIOUS
  <1>0. /\ Slot(writePos) \in Cells
        /\ MemType /\ ProdType /\ PosBehindFrame
    BY SlotIndex, FrameFacts DEF TypeInv, TypeOK, MemType
  <1>1. (MemType /\ ProdType /\ PosBehindFrame)'
    <2>1. CASE SnapOpen
      <3>1. frame + 1 \in Frames /\ writePos < frame + 1
        BY <1>0, <2>1, BoundAssumption, SMT
        DEF SnapOpen, Frames, MemType, ProdType, PosBehindFrame
      <3>2. MemType'
        BY <1>0, <2>1, BumpType, FrameFacts DEF SnapOpen, OpenCell
      <3>3. ProdType'
        BY <1>0, <2>1, <3>1 DEF SnapOpen, OpenCell, ProdType
      <3>4. PosBehindFrame'
        BY <1>0, <2>1, <3>1, FrameFacts, SMT
        DEF SnapOpen, OpenCell, MemType, ProdType, PosBehindFrame
      <3> QED
        BY <3>2, <3>3, <3>4
    <2>2. CASE SlotOpen
      <3>1. MemType'
        BY <1>0, <2>2, BumpType, FrameFacts DEF SlotOpen, OpenCell
      <3>2. ProdType'
        BY <1>0, <2>2 DEF SlotOpen, OpenCell, ProdType
      <3>3. PosBehindFrame'
        BY <1>0, <2>2 DEF SlotOpen, OpenCell, PosBehindFrame
      <3> QED
        BY <3>1, <3>2, <3>3
    <2>3. CASE SnapFill
      <3>1. data' \in [Cells -> Copies] /\ ptodo' \in SUBSET Words
        BY <1>0, <2>3, FrameFacts, FillType DEF SnapFill
      <3>2. MemType' /\ ProdType'
        BY <1>0, <2>3, <3>1 DEF SnapFill, FillWord, MemType, ProdType
      <3>3. PosBehindFrame'
        BY <1>0, <2>3 DEF SnapFill, FillWord, PosBehindFrame
      <3> QED
        BY <3>2, <3>3
    <2>4. CASE SlotFill
      <3>1. data' \in [Cells -> Copies] /\ ptodo' \in SUBSET Words
        BY <1>0, <2>4, FrameFacts, FillType DEF SlotFill
      <3>2. MemType' /\ ProdType'
        BY <1>0, <2>4, <3>1 DEF SlotFill, FillWord, MemType, ProdType
      <3>3. PosBehindFrame'
        BY <1>0, <2>4 DEF SlotFill, FillWord, PosBehindFrame
      <3> QED
        BY <3>2, <3>3
    <2>5. CASE SnapCommit
      <3>1. MemType'
        BY <1>0, <2>5, BumpType, FrameFacts DEF SnapCommit, CommitCell
      <3>2. ProdType'
        BY <1>0, <2>5 DEF SnapCommit, CommitCell, ProdType
      <3>3. PosBehindFrame'
        BY <1>0, <2>5 DEF SnapCommit, CommitCell, PosBehindFrame
      <3> QED
        BY <3>1, <3>2, <3>3
    <2>6. CASE SlotCommit
      <3>1. MemType'
        BY <1>0, <2>6, BumpType, FrameFacts DEF SlotCommit, CommitCell
      <3>2. ProdType'
        BY <1>0, <2>6 DEF SlotCommit, CommitCell, ProdType
      <3>3. PosBehindFrame'
        BY <1>0, <2>6 DEF SlotCommit, CommitCell, PosBehindFrame
      <3> QED
        BY <3>1, <3>2, <3>3
    <2>7. CASE PosPublish
      BY <1>0, <2>7, BoundAssumption, SMT
      DEF PosPublish, Frames, MemType, ProdType, PosBehindFrame
    <2> QED
      BY <2>1, <2>2, <2>3, <2>4, <2>5, <2>6, <2>7 DEF Producer
  <1>2. readersUnchanged
    BY DEF Producer, SnapOpen, SnapFill, SnapCommit, SlotOpen, SlotFill,
       SlotCommit, PosPublish
  <1> QED
    BY <1>1, <1>2, ReadersKept DEF TypeInv, TypeOK

LEMMA TypeRecovery == TypeInv /\ Recovery => TypeInv'
  <1> SUFFICES ASSUME TypeInv, Recovery PROVE TypeInv'
    OBVIOUS
  <1>0. MemType /\ ProdType /\ PosBehindFrame
    BY DEF TypeInv, TypeOK
  <1>1. (MemType /\ ProdType /\ PosBehindFrame)'
    <2> USE DEF MemType, ProdType, PosBehindFrame
    <2>1. CASE Crash
      BY <1>0, <2>1, BoundAssumption, SMT DEF Crash, memVars
    <2>2. CASE ShmSetup
      BY <1>0, <2>2, SMT DEF ShmSetup, memVars
    <2>3. CASE RegionInit
      <3>1. PICK x \in resets :
              /\ resets' = resets \ {x}
              /\ IF x = WritePosReg
                 THEN writePos' = 0 /\ seq' = seq
                 ELSE seq' = [seq EXCEPT ![x] = 0] /\ writePos' = writePos
        BY <2>3 DEF RegionInit
      <3>2. ppc' \in {"idle", "init"} /\ UNCHANGED <<data, frame, ptodo, crashes>>
        BY <2>3 DEF RegionInit
      <3>3. CASE x = WritePosReg
        BY <1>0, <3>1, <3>2, <3>3, FrameFacts, SMT
      <3>4. CASE x # WritePosReg
        <4>1. x \in Cells
          BY <1>0, <3>4
        <4>2. seq' \in [Cells -> 0 .. U32 - 1]
          BY <1>0, <3>1, <3>4, <4>1, Zeroes
        <4> QED
          BY <1>0, <3>1, <3>2, <3>4, <4>2
      <3> QED
        BY <3>3, <3>4
    <2> QED
      BY <2>1, <2>2, <2>3 DEF Recovery
  <1>2. readersUnchanged
    BY DEF Recovery, Crash, ShmSetup, RegionInit
  <1> QED
    BY <1>1, <1>2, ReadersKept DEF TypeInv, TypeOK

(* A step of a consumer leaves the region and the producer alone.          *)
LEMMA RegionKept ==
  TypeInv /\ memUnchanged => (MemType /\ ProdType /\ PosBehindFrame)'
  BY DEF TypeInv, TypeOK, memUnchanged, memVars, prodVars, MemType, ProdType,
     PosBehindFrame

LEMMA TypeReader ==
  ASSUME NEW r \in Readers, TypeInv, Reader(r)
  PROVE  TypeInv'
  <1>0. /\ MemType /\ CopyType /\ PollType /\ OutType /\ ReadInProgress
        /\ \A p \in 0 .. U64 - 1 : Slot(p) \in Cells
    BY SlotIndex, FrameFacts DEF TypeInv, TypeOK
  <1>1. memUnchanged
    BY DEF Reader, ReadStep, Attach, AttachHistory, AttachAt, SnapshotRead,
       Poll, ReadSlot, PollReturn, LoadOdd, LoadEven, CopyWord, Retry, Accept
  <1>2. (CopyType /\ PollType /\ OutType /\ ReadInProgress)'
    <2> USE DEF CopyType, PollType, OutType, ReadInProgress, copyVars,
            pollVars, outVars
    <2>1. CASE Attach(r)
      BY <1>0, <2>1, FrameFacts, SMT DEF Attach, AttachAt, MemType
    <2>2. CASE AttachHistory(r)
      BY <1>0, <2>2, FrameFacts, DepthAssumption, BoundAssumption, SMT
      DEF AttachHistory, AttachAt, MemType, Frames
    <2>3. CASE SnapshotRead(r)
      BY <1>0, <2>3, FrameFacts, BlocksAssumption, SMT DEF SnapshotRead, BeginRead
    <2>4. CASE Poll(r)
      <3> DEFINE behind == Sub64(writePos, readPos[r])
      <3>1. /\ writePos \in 0 .. U64 - 1 /\ behind \in 0 .. U64 - 1
            /\ Sub64(writePos, Depth) \in 0 .. U64 - 1
            /\ behind > Depth => Add64(dropped[r], behind - Depth) \in 0 .. U64 - 1
        <4>1. writePos \in 0 .. U64 - 1 /\ Depth \in 0 .. U64 - 1
          BY <1>0, FrameFacts, DepthAssumption, WidthAssumption, BoundAssumption, SMT DEF MemType
        <4>2. behind \in 0 .. U64 - 1 /\ Sub64(writePos, Depth) \in 0 .. U64 - 1
          BY <1>0, <4>1, Widths
        <4>3. behind > Depth => behind - Depth \in 0 .. U64 - 1
          BY <4>1, <4>2, DepthAssumption, WidthAssumption, SMT
        <4> QED
          BY <1>0, <4>1, <4>2, <4>3, Widths
      <3>2. dropped' \in [Readers -> 0 .. U64 - 1] /\ readPos' \in [Readers -> 0 .. U64 - 1]
        <4>1. CASE behind > Depth
          <5>1. /\ dropped' = [dropped EXCEPT ![r] = Add64(dropped[r], behind - Depth)]
                /\ readPos' = [readPos EXCEPT ![r] = Sub64(writePos, Depth)]
            BY <2>4, <4>1 DEF Poll
          <5> HIDE DEF behind
          <5> QED
            BY <1>0, <3>1, <4>1, <5>1
        <4>2. CASE ~(behind > Depth)
          BY <1>0, <2>4, <4>2 DEF Poll
        <4> QED
          BY <4>1, <4>2
      <3>3. PollType'
        BY <1>0, <2>4, <3>2, Zeroes DEF Poll, MemType
      <3>4. CopyType' /\ OutType'
        BY <1>0, <2>4 DEF Poll
      <3>5. ReadInProgress'
        BY <1>0, <2>4, BlocksAssumption, SMT DEF Poll
      <3> QED
        BY <3>3, <3>4, <3>5
    <2>5. CASE ReadSlot(r)
      BY <1>0, <2>5, BlocksAssumption, SMT DEF ReadSlot, More, BeginRead
    <2>6. CASE PollReturn(r)
      BY <1>0, <2>6, SMT DEF PollReturn
    <2>7. CASE LoadOdd(r) \/ Retry(r)
      <3>1. FailedTry(r) /\ tries[r] < Tries
        BY <1>0, <2>7 DEF LoadOdd, Retry
      <3>2. tries[r] + 1 \in 0 .. Tries /\ 1 \in 0 .. U64 - 1
        BY <1>0, <3>1, BlocksAssumption, WidthAssumption, DepthAssumption, BoundAssumption, SMT
      <3>3. CopyType' /\ OutType'
        BY <1>0, <3>1, <3>2 DEF FailedTry
      <3>4. CASE tries[r] + 1 < Tries
        <4>1. /\ tries' = [tries EXCEPT ![r] = tries[r] + 1]
              /\ rpc' = [rpc EXCEPT ![r] = "s1"]
              /\ UNCHANGED <<readPos, wp, written, dropped, taken, start, cell>>
          BY <3>1, <3>4 DEF FailedTry
        <4>2. PollType'
          BY <1>0, <4>1
        <4>3. rpc[r] \in {"s1", "copy"}
          BY <2>7 DEF LoadOdd, Retry
        <4>4. ReadInProgress'
          BY <1>0, <3>4, <4>1, <4>3
        <4> QED
          BY <3>3, <4>2, <4>4
      <3>5. CASE ~(tries[r] + 1 < Tries)
        <4>1. /\ rpc' = [rpc EXCEPT ![r] = "idle"] \/ rpc' = [rpc EXCEPT ![r] = "loop"]
              /\ \A q \in Readers : q # r => tries'[q] = tries[q]
              /\ UNCHANGED <<wp, written, taken, start, cell>>
          BY <1>0, <3>1, <3>5 DEF FailedTry
        <4>2. ReadInProgress'
          BY <1>0, <4>1
        <4>3. Add64(readPos[r], 1) \in 0 .. U64 - 1 /\ Add64(dropped[r], 1) \in 0 .. U64 - 1
          BY <1>0, <3>2, Widths
        <4>4. \/ UNCHANGED <<readPos, dropped>>
              \/ /\ readPos' = [readPos EXCEPT ![r] = Add64(readPos[r], 1)]
                 /\ dropped' = [dropped EXCEPT ![r] = Add64(dropped[r], 1)]
          BY <3>1, <3>5 DEF FailedTry, Advance
        <4>5. PollType'
          <5>1. readPos' \in [Readers -> 0 .. U64 - 1] /\ dropped' \in [Readers -> 0 .. U64 - 1]
            <6>1. CASE UNCHANGED <<readPos, dropped>>
              BY <1>0, <6>1
            <6>2. CASE /\ readPos' = [readPos EXCEPT ![r] = Add64(readPos[r], 1)]
                       /\ dropped' = [dropped EXCEPT ![r] = Add64(dropped[r], 1)]
              BY <1>0, <4>3, <6>2
            <6> QED
              BY <4>4, <6>1, <6>2
          <5> QED
            BY <1>0, <4>1, <5>1
        <4> QED
          BY <3>3, <4>2, <4>5
      <3> QED
        BY <3>4, <3>5
    <2>8. CASE LoadEven(r)
      BY <1>0, <2>8, SMT DEF LoadEven, MemType
    <2>9. CASE CopyWord(r)
      BY <1>0, <2>9, SMT DEF CopyWord, Copies, MemType
    <2>10. CASE Accept(r)
      <3>1. 1 \in 0 .. U64 - 1
        BY WidthAssumption, DepthAssumption, BoundAssumption, SMT
      <3>2. CopyType'
        BY <1>0, <2>10 DEF Accept
      <3>3. CASE cell[r] = Snap
        <4>1. OutType'
          BY <1>0, <2>10, <3>3 DEF Accept
        <4> QED
          BY <1>0, <2>10, <3>2, <3>3, <4>1 DEF Accept
      <3>4. CASE cell[r] # Snap
        <4>1. written[r] + 1 \in 0 .. MaxBlocks
          BY <1>0, <2>10, <3>4, BlocksAssumption, SMT DEF Accept
        <4>2. /\ readPos' = [readPos EXCEPT ![r] = Add64(readPos[r], 1)]
              /\ taken' = [taken EXCEPT ![r] = Add64(taken[r], 1)]
              /\ written' = [written EXCEPT ![r] = written[r] + 1]
              /\ UNCHANGED <<wp, dropped, start>>
          BY <2>10, <3>4 DEF Accept, Advance
        <4>3. Add64(readPos[r], 1) \in 0 .. U64 - 1 /\ Add64(taken[r], 1) \in 0 .. U64 - 1
          BY <1>0, <3>1, Widths
        <4>4. PollType'
          BY <1>0, <4>1, <4>2, <4>3
        <4>5. ReadInProgress'
          BY <1>0, <2>10, <3>4, SMT DEF Accept
        <4>6. OutType'
          <5>1. [pos |-> readPos[r], words |-> copy[r]] \in [pos : 0 .. U64 - 1, words : Copies]
            BY <1>0
          <5>2. got' = [got EXCEPT ![r] = [pos |-> readPos[r], words |-> copy[r]]]
                /\ gotSnap' = gotSnap
            BY <2>10, <3>4 DEF Accept
          <5> QED
            BY <1>0, <5>1, <5>2
        <4> QED
          BY <3>2, <4>4, <4>5, <4>6
      <3> QED
        BY <3>3, <3>4
    <2> QED
      BY <2>1, <2>2, <2>3, <2>4, <2>5, <2>6, <2>7, <2>8, <2>9, <2>10
      DEF Reader, ReadStep
  <1> QED
    BY <1>1, <1>2, RegionKept DEF TypeInv, TypeOK

LEMMA TypeStep == TypeInv /\ [Next]_vars => TypeInv'
  <1> SUFFICES ASSUME TypeInv, [Next]_vars PROVE TypeInv'
    OBVIOUS
  <1>1. CASE UNCHANGED vars
    <2>1. memUnchanged /\ readersUnchanged
      BY <1>1 DEF vars, memUnchanged, readersUnchanged
    <2> QED
      BY <2>1, RegionKept, ReadersKept DEF TypeInv, TypeOK
  <1> QED
    BY <1>1, TypeProducer, TypeRecovery, TypeReader DEF Next

(* Every variable of the region, the producer and the consumers keeps its  *)
(* type; in particular no counter leaves its width and no read exceeds its *)
(* 64 attempts or the caller's buffer.                                     *)
THEOREM TypeCorrect == Spec => []TypeOK
  <1>1. TypeInv => TypeOK
    BY DEF TypeInv
  <1> QED
    BY <1>1, TypeInit, TypeStep, PTL DEF Spec

-----------------------------------------------------------------------------
(* A consumer that has not attached has counted nothing.                   *)
FreshReader == \A r \in Readers : rpc[r] = "off" => taken[r] = 0 /\ dropped[r] = 0

CursorInv == FreshReader /\ CursorAccounted

LEMMA CursorReader ==
  ASSUME NEW r \in Readers, TypeInv, CursorInv, Reader(r)
  PROVE  CursorInv'
  <1>0. /\ CopyType /\ PollType /\ writePos \in 0 .. U64 - 1
        /\ start[r] \in 0 .. U64 - 1 /\ readPos[r] \in 0 .. U64 - 1
        /\ taken[r] \in 0 .. U64 - 1 /\ dropped[r] \in 0 .. U64 - 1
    BY FrameFacts DEF TypeInv, TypeOK, MemType, PollType
  <1>1. readPos[r] = Add64(Add64(start[r], taken[r]), dropped[r])
    BY DEF CursorInv, CursorAccounted
  <1>2. SUFFICES /\ \A q \in Readers : q # r =>
                       /\ rpc'[q] = rpc[q] /\ readPos'[q] = readPos[q]
                       /\ start'[q] = start[q] /\ taken'[q] = taken[q]
                       /\ dropped'[q] = dropped[q]
                 /\ rpc'[r] # "off"
                 /\ readPos'[r] = Add64(Add64(start'[r], taken'[r]), dropped'[r])
    BY DEF CursorInv, FreshReader, CursorAccounted
  <1> USE DEF CopyType, PollType, copyVars, pollVars
  <1>3. CASE \E pos \in Frames : AttachAt(r, pos)
    <2>1. PICK pos \in Frames : AttachAt(r, pos)
      BY <1>3
    <2>2. taken[r] = 0 /\ dropped[r] = 0 /\ pos \in 0 .. U64 - 1
      BY <2>1, FrameFacts DEF AttachAt, CursorInv, FreshReader
    <2>3. Add64(Add64(pos, 0), 0) = pos
      BY <2>2, WidthAssumption, SMT DEF Add64
    <2> QED
      BY <1>0, <2>1, <2>2, <2>3 DEF AttachAt
  <1>4. CASE Poll(r)
    <2> DEFINE behind == Sub64(writePos, readPos[r])
    <2>1. CASE behind > Depth
      <3>1. /\ dropped' = [dropped EXCEPT ![r] = Add64(dropped[r], behind - Depth)]
            /\ readPos' = [readPos EXCEPT ![r] = Sub64(writePos, Depth)]
            /\ rpc' = [rpc EXCEPT ![r] = "loop"] /\ UNCHANGED <<taken, start>>
        BY <1>4, <2>1 DEF Poll
      <3>2. Add64(start[r], taken[r]) \in 0 .. U64 - 1 /\ Depth < U64
        BY <1>0, Widths, WidthAssumption, DepthAssumption, BoundAssumption, SMT
      <3>3. Sub64(writePos, Depth)
              = Add64(Add64(start[r], taken[r]), Add64(dropped[r], behind - Depth))
        BY <1>0, <1>1, <2>1, <3>2, LapArithmetic
      <3> HIDE DEF behind
      <3> QED
        BY <1>0, <3>1, <3>3
    <2>2. CASE ~(behind > Depth)
      BY <1>0, <1>1, <1>4, <2>2 DEF Poll
    <2> QED
      BY <2>1, <2>2
  <1>5. CASE UNCHANGED pollVars /\ \E x \in {"idle", "loop", "s1", "copy"} : rpc' = [rpc EXCEPT ![r] = x]
    BY <1>0, <1>1, <1>5
  <1>6. CASE CopyWord(r)
    BY <1>0, <1>1, <1>6 DEF CopyWord
  <1>7. CASE FailedTry(r) /\ ~UNCHANGED pollVars
    <2>1. /\ readPos' = [readPos EXCEPT ![r] = Add64(readPos[r], 1)]
          /\ dropped' = [dropped EXCEPT ![r] = Add64(dropped[r], 1)]
          /\ rpc' = [rpc EXCEPT ![r] = "loop"] /\ UNCHANGED <<taken, start>>
      BY <1>7 DEF FailedTry, Advance
    <2>2. Add64(readPos[r], 1) = Add64(Add64(start[r], taken[r]), Add64(dropped[r], 1))
      BY <1>0, <1>1, StepArithmetic
    <2> QED
      BY <1>0, <2>1, <2>2
  <1>8. CASE Accept(r) /\ cell[r] # Snap
    <2>1. /\ readPos' = [readPos EXCEPT ![r] = Add64(readPos[r], 1)]
          /\ taken' = [taken EXCEPT ![r] = Add64(taken[r], 1)]
          /\ rpc' = [rpc EXCEPT ![r] = "loop"] /\ UNCHANGED <<dropped, start>>
      BY <1>8 DEF Accept, Advance
    <2>2. Add64(readPos[r], 1) = Add64(Add64(start[r], Add64(taken[r], 1)), dropped[r])
      BY <1>0, <1>1, StepArithmetic
    <2> QED
      BY <1>0, <2>1, <2>2
  <1>9. CASE Attach(r) \/ AttachHistory(r)
    <2>1. \E pos \in Frames : AttachAt(r, pos)
      <3>1. writePos \in Frames
        BY DEF TypeInv, TypeOK, MemType
      <3>2. (IF writePos >= Depth THEN writePos - Depth ELSE 0) \in Frames
        BY <3>1, DepthAssumption, BoundAssumption, SMT DEF Frames
      <3> QED
        BY <1>9, <3>1, <3>2 DEF Attach, AttachHistory
    <2> QED
      BY <1>3, <2>1
  <1>10. CASE LoadOdd(r) \/ Retry(r)
    <2>1. FailedTry(r)
      BY <1>10 DEF LoadOdd, Retry
    <2>2. CASE UNCHANGED pollVars
      BY <1>5, <2>1, <2>2 DEF FailedTry
    <2> QED
      BY <1>7, <2>1, <2>2
  <1>11. CASE \/ SnapshotRead(r) \/ ReadSlot(r) \/ PollReturn(r) \/ LoadEven(r)
              \/ Accept(r) /\ cell[r] = Snap
    BY <1>5, <1>11 DEF SnapshotRead, ReadSlot, BeginRead, PollReturn, LoadEven, Accept
  <1> QED
    BY <1>4, <1>6, <1>8, <1>9, <1>10, <1>11 DEF Reader, ReadStep

(* The cursor of every consumer is where the blocks it returned and the    *)
(* blocks it reported as dropped put it (modulo 2^64): nothing is skipped  *)
(* without being counted, over laps, failed reads and producer restarts.   *)
THEOREM CursorCorrect == Spec => []CursorAccounted
  <1>1. Init => CursorInv
    <2>1. Add64(Add64(0, 0), 0) = 0
      BY WidthAssumption, BoundAssumption, DepthAssumption, SMT DEF Add64
    <2> QED
      BY <2>1 DEF Init, CursorInv, FreshReader, CursorAccounted
  <1>2. TypeInv /\ CursorInv /\ [Next]_vars => CursorInv'
    <2> SUFFICES ASSUME TypeInv, CursorInv, [Next]_vars PROVE CursorInv'
      OBVIOUS
    <2>1. CASE readersUnchanged
      BY <2>1 DEF readersUnchanged, pollVars, CursorInv, FreshReader, CursorAccounted
    <2>2. CASE Producer \/ Recovery
      BY <2>1, <2>2 DEF Producer, SnapOpen, SnapFill, SnapCommit, SlotOpen,
         SlotFill, SlotCommit, PosPublish, Recovery, Crash, ShmSetup, RegionInit
    <2>3. CASE UNCHANGED vars
      BY <2>1, <2>3 DEF vars, readersUnchanged
    <2> QED
      BY <2>2, <2>3, CursorReader DEF Next
  <1>3. CursorInv => CursorAccounted
    BY DEF CursorInv
  <1> QED
    BY <1>1, <1>2, <1>3, TypeInit, TypeStep, PTL DEF Spec

-----------------------------------------------------------------------------
(***************************************************************************)
(* No torn read, as long as no producer has died and been restarted on a   *)
(* region in use.  The argument is the one of a seqlock: a cell is odd     *)
(* exactly while it is open, a closed cell holds one frame, and a copy     *)
(* whose counter has not moved agrees with the cell on every word copied   *)
(* so far.                                                                 *)
(***************************************************************************)
Open(c) == (ppc = "snap" /\ c = Snap) \/ (ppc = "slot" /\ c = Slot(writePos))

Running == ppc \notin {"dead", "init"} /\ crashes = 0

Parity == \A c \in Cells : Odd(seq[c]) <=> Open(c)

(* Increments a cell still has to get before the frame in flight is done;  *)
(* with it the counters stay within twice the frames and do not wrap.      *)
Pending(c) == IF c = Snap THEN (IF ppc = "snap" THEN 1 ELSE 0)
              ELSE IF ppc \in {"snap", "ring"} THEN 2
              ELSE IF ppc = "slot" THEN 1 ELSE 0

SeqBound == \A c \in Cells : seq[c] + Pending(c) <= 2 * frame

ClosedCellWhole ==
  \A c \in Cells : IF Open(c) THEN \A w \in Words \ ptodo : data[c][w] = frame
                             ELSE Whole(data[c])

CopyAgrees ==
  \A r \in Readers : rpc[r] = "copy" =>
     /\ s1[r] <= seq[cell[r]] /\ ~Odd(s1[r])
     /\ s1[r] = seq[cell[r]] =>
          \A w \in Words \ todo[r] : copy[r][w] = data[cell[r]][w]

Untorn == \A r \in Readers : Whole(got[r].words) /\ Whole(gotSnap[r])

SeqlockInv == /\ Running /\ Parity /\ SeqBound /\ ClosedCellWhole
              /\ CopyAgrees /\ Untorn

LEMMA OddStep == \A s \in Nat : Odd(s + 1) <=> ~Odd(s)
  BY SMT DEF Odd

LEMMA NoWrap == \A s \in Nat : s < 2 * MaxFrames => Inc32(s) = s + 1
  BY WidthAssumption, BoundAssumption, SMT DEF Inc32

LEMMA SeqlockInit == Init => SeqlockInv
  <1> SUFFICES ASSUME Init PROVE SeqlockInv
    OBVIOUS
  <1>1. Running /\ Untorn
    BY DEF Init, Running, Untorn, Whole, Nothing
  <1>2. Parity
    <2>1. ~Odd(0)
      BY SMT DEF Odd
    <2> QED
      BY <2>1 DEF Init, Parity, Open
  <1>3. SeqBound
    BY SMT DEF Init, SeqBound, Pending
  <1>4. ClosedCellWhole
    BY DEF Init, ClosedCellWhole, Open, Whole, Nothing
  <1>5. CopyAgrees
    BY DEF Init, CopyAgrees
  <1> QED
    BY <1>1, <1>2, <1>3, <1>4, <1>5 DEF SeqlockInv

(* Opening or committing a cell: its counter goes up by exactly one, so    *)
(* every copy of it in progress is now stale, and no other copy notices.   *)
LEMMA BumpCopies ==
  ASSUME NEW c \in Cells, TypeInv, SeqlockInv, seq[c] < 2 * MaxFrames,
         seq' = [seq EXCEPT ![c] = Inc32(@)], data' = data, readersUnchanged
  PROVE  /\ seq[c] \in Nat /\ seq'[c] = seq[c] + 1
         /\ \A d \in Cells : d # c => seq'[d] = seq[d]
         /\ CopyAgrees' /\ Untorn'
  <1>1. /\ seq \in [Cells -> 0 .. U32 - 1] /\ CopyType
        /\ \A d \in Cells : seq[d] \in Nat
    BY DEF TypeInv, TypeOK, MemType
  <1>2. seq'[c] = seq[c] + 1 /\ \A d \in Cells : d # c => seq'[d] = seq[d]
    BY <1>1, NoWrap
  <1>3. UNCHANGED <<rpc, cell, s1, todo, copy, got, gotSnap>>
    BY DEF readersUnchanged, copyVars, outVars
  <1>4. Untorn'
    BY <1>3 DEF SeqlockInv, Untorn
  <1>5. CopyAgrees'
    <2> SUFFICES ASSUME NEW r \in Readers, rpc[r] = "copy"
                 PROVE  /\ s1[r] <= seq'[cell[r]] /\ ~Odd(s1[r])
                        /\ s1[r] = seq'[cell[r]] =>
                             \A w \in Words \ todo[r] : copy[r][w] = data[cell[r]][w]
      BY <1>3 DEF CopyAgrees
    <2>1. /\ s1[r] <= seq[cell[r]] /\ ~Odd(s1[r])
          /\ s1[r] = seq[cell[r]] =>
               \A w \in Words \ todo[r] : copy[r][w] = data[cell[r]][w]
      BY DEF SeqlockInv, CopyAgrees
    <2>2. cell[r] \in Cells /\ s1[r] \in Nat
      BY <1>1 DEF CopyType
    <2>3. CASE cell[r] = c
      <3>1. s1[r] <= seq'[c] /\ s1[r] # seq'[c]
        BY <1>1, <1>2, <2>1, <2>2, <2>3, SMT
      <3> QED
        BY <2>1, <2>3, <3>1
    <2>4. CASE cell[r] # c
      BY <1>2, <2>1, <2>2, <2>4
    <2> QED
      BY <2>3, <2>4
  <1> QED
    BY <1>1, <1>2, <1>4, <1>5

(* Writing a word of the open cell: a copy of it in progress started from  *)
(* an even counter, so it is already stale.                                *)
LEMMA FillCopies ==
  ASSUME NEW c \in Cells, TypeInv, SeqlockInv, Open(c), FillWord(c),
         readersUnchanged
  PROVE  /\ CopyAgrees' /\ Untorn'
         /\ \A d \in Cells : d # c => data'[d] = data[d]
         /\ \A w \in Words \ ptodo' : data'[c][w] = frame
  <1>1. PICK v \in ptodo : /\ data' = [data EXCEPT ![c][v] = frame]
                           /\ ptodo' = ptodo \ {v} /\ seq' = seq
    BY DEF FillWord
  <1>2. data \in [Cells -> [Words -> Frames]] /\ ptodo \in SUBSET Words
    BY DEF TypeInv, TypeOK, MemType, ProdType, Copies
  <1>3. /\ \A d \in Cells : d # c => data'[d] = data[d]
        /\ data'[c] = [data[c] EXCEPT ![v] = frame]
    BY <1>1, <1>2
  <1>4. \A w \in Words \ ptodo' : data'[c][w] = frame
    <2>1. \A w \in Words \ ptodo : data[c][w] = frame
      BY DEF SeqlockInv, ClosedCellWhole
    <2> QED
      BY <1>1, <1>2, <1>3, <2>1
  <1>5. UNCHANGED <<rpc, cell, s1, todo, copy, got, gotSnap>>
    BY DEF readersUnchanged, copyVars, outVars
  <1>6. Untorn'
    BY <1>5 DEF SeqlockInv, Untorn
  <1>7. CopyAgrees'
    <2> SUFFICES ASSUME NEW r \in Readers, rpc[r] = "copy", s1[r] = seq[cell[r]]
                 PROVE  \A w \in Words \ todo[r] : copy[r][w] = data'[cell[r]][w]
      BY <1>1, <1>5 DEF CopyAgrees, SeqlockInv
    <2>1. cell[r] \in Cells
      BY DEF TypeInv, TypeOK, CopyType
    <2>2. cell[r] # c
      BY DEF SeqlockInv, CopyAgrees, Parity
    <2> QED
      BY <1>3, <2>1, <2>2 DEF SeqlockInv, CopyAgrees
  <1> QED
    BY <1>3, <1>4, <1>6, <1>7

LEMMA SeqlockProducer ==
  ASSUME TypeInv, SeqlockInv, Producer
  PROVE  SeqlockInv'
  <1>0. /\ Snap \in Cells /\ Slot(writePos) \in Cells /\ Slot(writePos) # Snap
        /\ \A c \in Cells : seq[c] \in Nat
        /\ frame \in Nat /\ frame <= MaxFrames /\ MaxFrames \in Nat
    BY SlotIndex, FrameFacts, BoundAssumption
    DEF TypeInv, TypeOK, MemType, ProdType, Frames
  <1>1. Running /\ Parity /\ SeqBound /\ ClosedCellWhole
    BY DEF SeqlockInv
  <1>2. CASE SnapOpen
    <2>1. /\ ppc = "idle" /\ ppc' = "snap" /\ frame' = frame + 1 /\ frame < MaxFrames
          /\ UNCHANGED <<data, writePos, crashes>> /\ ptodo' = Words
          /\ seq' = [seq EXCEPT ![Snap] = Inc32(@)] /\ readersUnchanged
      BY <1>2 DEF SnapOpen, OpenCell
    <2>2. seq[Snap] <= 2 * frame /\ seq[Snap] < 2 * MaxFrames
      BY <1>0, <1>1, <2>1, SMT DEF SeqBound, Pending
    <2>3. /\ seq'[Snap] = seq[Snap] + 1 /\ CopyAgrees' /\ Untorn'
          /\ \A d \in Cells : d # Snap => seq'[d] = seq[d]
      BY <1>0, <2>1, <2>2, BumpCopies
    <2>4. Running'
      BY <1>1, <2>1 DEF Running
    <2>5. Parity'
      BY <1>0, <1>1, <2>1, <2>3, OddStep DEF Parity, Open
    <2>6. SeqBound'
      BY <1>0, <1>1, <2>1, <2>3, SMT DEF SeqBound, Pending
    <2>7. ClosedCellWhole'
      BY <1>0, <1>1, <2>1 DEF ClosedCellWhole, Open
    <2> QED
      BY <2>3, <2>4, <2>5, <2>6, <2>7 DEF SeqlockInv
  <1>3. CASE SnapFill
    <2>1. /\ ppc = "snap" /\ FillWord(Snap) /\ readersUnchanged
          /\ UNCHANGED <<seq, writePos, frame, ppc, crashes>>
      BY <1>3 DEF SnapFill, FillWord
    <2>2. /\ CopyAgrees' /\ Untorn'
          /\ \A d \in Cells : d # Snap => data'[d] = data[d]
          /\ \A w \in Words \ ptodo' : data'[Snap][w] = frame
      BY <1>0, <2>1, FillCopies DEF Open
    <2>3. Running' /\ Parity' /\ SeqBound'
      BY <1>1, <2>1 DEF Running, Parity, SeqBound, Open, Pending
    <2>4. ClosedCellWhole'
      BY <1>0, <1>1, <2>1, <2>2 DEF ClosedCellWhole, Open
    <2> QED
      BY <2>2, <2>3, <2>4 DEF SeqlockInv
  <1>4. CASE SnapCommit
    <2>1. /\ ppc = "snap" /\ ppc' = "ring" /\ ptodo = {}
          /\ UNCHANGED <<data, writePos, frame, ptodo, crashes>>
          /\ seq' = [seq EXCEPT ![Snap] = Inc32(@)] /\ readersUnchanged
      BY <1>4 DEF SnapCommit, CommitCell
    <2>2. seq[Snap] + 1 <= 2 * frame /\ seq[Snap] < 2 * MaxFrames
      BY <1>0, <1>1, <2>1, SMT DEF SeqBound, Pending
    <2>3. /\ seq'[Snap] = seq[Snap] + 1 /\ CopyAgrees' /\ Untorn'
          /\ \A d \in Cells : d # Snap => seq'[d] = seq[d]
      BY <1>0, <2>1, <2>2, BumpCopies
    <2>4. Running'
      BY <1>1, <2>1 DEF Running
    <2>5. Parity'
      BY <1>0, <1>1, <2>1, <2>3, OddStep DEF Parity, Open
    <2>6. SeqBound'
      BY <1>0, <1>1, <2>1, <2>2, <2>3, SMT DEF SeqBound, Pending
    <2>7. ClosedCellWhole'
      BY <1>0, <1>1, <2>1 DEF ClosedCellWhole, Open, Whole
    <2> QED
      BY <2>3, <2>4, <2>5, <2>6, <2>7 DEF SeqlockInv
  <1> DEFINE k == Slot(writePos)
  <1>5. CASE SlotOpen
    <2>1. /\ ppc = "ring" /\ ppc' = "slot" /\ frame' = frame
          /\ UNCHANGED <<data, writePos, crashes>> /\ ptodo' = Words
          /\ seq' = [seq EXCEPT ![k] = Inc32(@)] /\ readersUnchanged
      BY <1>5 DEF SlotOpen, OpenCell
    <2>2. seq[k] + 2 <= 2 * frame /\ seq[k] < 2 * MaxFrames
      BY <1>0, <1>1, <2>1, SMT DEF SeqBound, Pending
    <2>3. /\ seq'[k] = seq[k] + 1 /\ CopyAgrees' /\ Untorn'
          /\ \A d \in Cells : d # k => seq'[d] = seq[d]
      BY <1>0, <2>1, <2>2, BumpCopies
    <2>0. k' = k
      BY <2>1 DEF Slot
    <2>4. Running'
      BY <1>1, <2>1 DEF Running
    <2>5. Parity'
      BY <1>0, <1>1, <2>0, <2>1, <2>3, OddStep DEF Parity, Open
    <2>6. SeqBound'
      BY <1>0, <1>1, <2>1, <2>2, <2>3, SMT DEF SeqBound, Pending
    <2>7. ClosedCellWhole'
      BY <1>0, <1>1, <2>0, <2>1 DEF ClosedCellWhole, Open
    <2> QED
      BY <2>3, <2>4, <2>5, <2>6, <2>7 DEF SeqlockInv
  <1>6. CASE SlotFill
    <2>1. /\ ppc = "slot" /\ FillWord(k) /\ readersUnchanged
          /\ UNCHANGED <<seq, writePos, frame, ppc, crashes>>
      BY <1>6 DEF SlotFill, FillWord
    <2>0. k' = k
      BY <2>1 DEF Slot
    <2>2. /\ CopyAgrees' /\ Untorn'
          /\ \A d \in Cells : d # k => data'[d] = data[d]
          /\ \A w \in Words \ ptodo' : data'[k][w] = frame
      BY <1>0, <2>1, FillCopies DEF Open
    <2>3. Running' /\ Parity' /\ SeqBound'
      BY <1>1, <2>0, <2>1 DEF Running, Parity, SeqBound, Open, Pending
    <2>4. ClosedCellWhole'
      BY <1>0, <1>1, <2>0, <2>1, <2>2 DEF ClosedCellWhole, Open
    <2> QED
      BY <2>2, <2>3, <2>4 DEF SeqlockInv
  <1>7. CASE SlotCommit
    <2>1. /\ ppc = "slot" /\ ppc' = "pos" /\ ptodo = {}
          /\ UNCHANGED <<data, writePos, frame, ptodo, crashes>>
          /\ seq' = [seq EXCEPT ![k] = Inc32(@)] /\ readersUnchanged
      BY <1>7 DEF SlotCommit, CommitCell
    <2>2. seq[k] + 1 <= 2 * frame /\ seq[k] < 2 * MaxFrames
      BY <1>0, <1>1, <2>1, SMT DEF SeqBound, Pending
    <2>3. /\ seq'[k] = seq[k] + 1 /\ CopyAgrees' /\ Untorn'
          /\ \A d \in Cells : d # k => seq'[d] = seq[d]
      BY <1>0, <2>1, <2>2, BumpCopies
    <2>4. Running'
      BY <1>1, <2>1 DEF Running
    <2>5. Parity'
      BY <1>0, <1>1, <2>1, <2>3, OddStep DEF Parity, Open
    <2>6. SeqBound'
      BY <1>0, <1>1, <2>1, <2>2, <2>3, SMT DEF SeqBound, Pending
    <2>7. ClosedCellWhole'
      BY <1>0, <1>1, <2>1 DEF ClosedCellWhole, Open, Whole
    <2> QED
      BY <2>3, <2>4, <2>5, <2>6, <2>7 DEF SeqlockInv
  <1>8. CASE PosPublish
    <2>1. /\ ppc = "pos" /\ ppc' = "idle"
          /\ UNCHANGED <<seq, data, frame, ptodo, crashes>> /\ readersUnchanged
      BY <1>8 DEF PosPublish
    <2>2. Running' /\ Parity' /\ SeqBound' /\ ClosedCellWhole'
      BY <1>1, <2>1 DEF Running, Parity, SeqBound, ClosedCellWhole, Open, Pending
    <2>3. CopyAgrees' /\ Untorn'
      BY <2>1 DEF SeqlockInv, CopyAgrees, Untorn, readersUnchanged, copyVars, outVars
    <2> QED
      BY <2>2, <2>3 DEF SeqlockInv
  <1> QED
    BY <1>2, <1>3, <1>4, <1>5, <1>6, <1>7, <1>8 DEF Producer

LEMMA SeqlockReader ==
  ASSUME NEW r \in Readers, TypeInv, SeqlockInv, Reader(r)
  PROVE  SeqlockInv'
  <1>0. /\ MemType /\ CopyType /\ OutType /\ cell[r] \in Cells
        /\ \A c \in Cells : seq[c] \in Nat
    BY DEF TypeInv, TypeOK, CopyType, MemType
  <1>1. UNCHANGED <<seq, data, writePos, frame, ppc, ptodo, crashes>>
    BY DEF Reader, ReadStep, Attach, AttachHistory, AttachAt, SnapshotRead,
       Poll, ReadSlot, PollReturn, LoadOdd, LoadEven, CopyWord, Retry, Accept,
       memUnchanged, memVars, prodVars
  <1>2. Running' /\ Parity' /\ SeqBound' /\ ClosedCellWhole'
    BY <1>1 DEF SeqlockInv, Running, Parity, SeqBound, ClosedCellWhole, Open, Pending
  <1>3. CASE LoadEven(r)
    <2>1. /\ rpc' = [rpc EXCEPT ![r] = "copy"] /\ ~Odd(seq[cell[r]])
          /\ s1' = [s1 EXCEPT ![r] = seq[cell[r]]]
          /\ todo' = [todo EXCEPT ![r] = Words]
          /\ UNCHANGED <<cell, copy, got, gotSnap>>
      BY <1>3 DEF LoadEven, outVars
    <2>2. Untorn'
      BY <2>1 DEF SeqlockInv, Untorn
    <2>3. CopyAgrees'
      BY <1>0, <1>1, <2>1, SMT DEF SeqlockInv, CopyAgrees, CopyType
    <2> QED
      BY <1>2, <2>2, <2>3 DEF SeqlockInv
  <1>4. CASE CopyWord(r)
    <2>1. PICK w \in todo[r] :
            /\ copy' = [copy EXCEPT ![r][w] = data[cell[r]][w]]
            /\ todo' = [todo EXCEPT ![r] = @ \ {w}]
      BY <1>4 DEF CopyWord
    <2>2. UNCHANGED <<rpc, cell, s1, got, gotSnap>>
      BY <1>4 DEF CopyWord, outVars
    <2>3. Untorn'
      BY <2>2 DEF SeqlockInv, Untorn
    <2>4. CopyAgrees'
      <3>1. /\ copy \in [Readers -> [Words -> Frames]] /\ todo[r] \in SUBSET Words
            /\ todo \in [Readers -> SUBSET Words]
        BY <1>0 DEF CopyType, Copies
      <3>2. /\ copy'[r] = [copy[r] EXCEPT ![w] = data[cell[r]][w]]
            /\ todo'[r] = todo[r] \ {w}
            /\ \A q \in Readers : q # r => copy'[q] = copy[q] /\ todo'[q] = todo[q]
        BY <2>1, <3>1
      <3>3. (\A x \in Words \ todo[r] : copy[r][x] = data[cell[r]][x])
              => \A x \in Words \ todo'[r] : copy'[r][x] = data[cell[r]][x]
        BY <3>1, <3>2
      <3> SUFFICES ASSUME NEW q \in Readers, rpc[q] = "copy"
                   PROVE  /\ s1[q] <= seq[cell[q]] /\ ~Odd(s1[q])
                          /\ s1[q] = seq[cell[q]] =>
                               \A x \in Words \ todo'[q] : copy'[q][x] = data[cell[q]][x]
        BY <1>1, <2>2 DEF CopyAgrees
      <3>4. /\ s1[q] <= seq[cell[q]] /\ ~Odd(s1[q])
            /\ s1[q] = seq[cell[q]] =>
                 \A x \in Words \ todo[q] : copy[q][x] = data[cell[q]][x]
        BY DEF SeqlockInv, CopyAgrees
      <3>5. CASE q = r
        BY <3>3, <3>4, <3>5
      <3>6. CASE q # r
        BY <3>2, <3>4, <3>6
      <3> QED
        BY <3>5, <3>6
    <2> QED
      BY <1>2, <2>3, <2>4 DEF SeqlockInv
  <1>5. CASE Accept(r)
    <2>1. Whole(copy[r])
      <3>1. rpc[r] = "copy" /\ todo[r] = {} /\ seq[cell[r]] = s1[r]
        BY <1>5 DEF Accept, Unchanged
      <3>2. \A w \in Words : copy[r][w] = data[cell[r]][w]
        BY <3>1 DEF SeqlockInv, CopyAgrees
      <3>3. ~Open(cell[r])
        BY <1>0, <3>1 DEF SeqlockInv, CopyAgrees, Parity
      <3>4. Whole(data[cell[r]])
        BY <1>0, <3>3 DEF SeqlockInv, ClosedCellWhole
      <3> QED
        BY <3>2, <3>4 DEF Whole
    <2>2. /\ \/ gotSnap' = gotSnap
             \/ gotSnap' = [gotSnap EXCEPT ![r] = copy[r]]
          /\ \/ got' = got
             \/ got' = [got EXCEPT ![r] = [pos |-> readPos[r], words |-> copy[r]]]
          /\ \/ rpc' = [rpc EXCEPT ![r] = "idle"] \/ rpc' = [rpc EXCEPT ![r] = "loop"]
          /\ UNCHANGED <<cell, s1, todo, copy>>
      BY <1>5 DEF Accept, copyVars
    <2>3. \A q \in Readers : Whole(got'[q].words)
      BY <1>0, <2>1, <2>2 DEF OutType, SeqlockInv, Untorn
    <2>4. \A q \in Readers : Whole(gotSnap'[q])
      BY <1>0, <2>1, <2>2 DEF OutType, SeqlockInv, Untorn
    <2>5. CopyAgrees'
      BY <1>0, <1>1, <2>2 DEF SeqlockInv, CopyAgrees, CopyType
    <2> QED
      BY <1>2, <2>3, <2>4, <2>5 DEF SeqlockInv, Untorn
  <1>6. CASE /\ \E x \in {"idle", "loop", "s1"} : rpc' = [rpc EXCEPT ![r] = x]
             /\ \A q \in Readers : q # r => cell'[q] = cell[q]
             /\ UNCHANGED <<s1, todo, copy, got, gotSnap>>
    <2>1. Untorn'
      BY <1>6 DEF SeqlockInv, Untorn
    <2>2. CopyAgrees'
      BY <1>0, <1>1, <1>6 DEF SeqlockInv, CopyAgrees, CopyType
    <2> QED
      BY <1>2, <2>1, <2>2 DEF SeqlockInv
  <1>7. CASE LoadOdd(r) \/ Retry(r)
    <2>1. FailedTry(r)
      BY <1>7 DEF LoadOdd, Retry
    <2> QED
      BY <1>6, <2>1 DEF FailedTry, outVars
  <1>8. CASE SnapshotRead(r) \/ ReadSlot(r)
    BY <1>0, <1>6, <1>8 DEF SnapshotRead, ReadSlot, BeginRead, outVars, CopyType
  <1>9. CASE Attach(r) \/ AttachHistory(r) \/ Poll(r) \/ PollReturn(r)
    BY <1>6, <1>9 DEF Attach, AttachHistory, AttachAt, Poll, PollReturn,
       copyVars, outVars
  <1> QED
    BY <1>3, <1>4, <1>5, <1>7, <1>8, <1>9 DEF Reader, ReadStep

(* Only a crash counts as one, and the count never goes back: a step into  *)
(* a state without crashes is an ordinary step from such a state.          *)
LEMMA NoCrashYet ==
  ASSUME TypeInv, [Next]_vars, crashes' = 0
  PROVE  crashes = 0 /\ ~Crash
  <1>0. crashes \in Nat
    BY BoundAssumption DEF TypeInv, TypeOK, ProdType
  <1>1. ~Crash
    BY <1>0 DEF Crash
  <1>2. CASE Producer
    BY <1>1, <1>2 DEF Producer, SnapOpen, SnapFill, SnapCommit, SlotOpen, SlotFill,
       SlotCommit, PosPublish, OpenCell, FillWord, CommitCell
  <1>3. CASE Recovery
    BY <1>1, <1>3 DEF Recovery, ShmSetup, RegionInit
  <1>4. CASE \E r \in Readers : Reader(r)
    BY <1>1, <1>4 DEF Reader, ReadStep, Attach, AttachHistory, AttachAt, SnapshotRead,
       Poll, ReadSlot, PollReturn, LoadOdd, LoadEven, CopyWord, Retry, Accept,
       memUnchanged, prodVars
  <1>5. CASE UNCHANGED vars
    BY <1>1, <1>5 DEF vars, prodVars
  <1> QED
    BY <1>2, <1>3, <1>4, <1>5 DEF Next

(* Until the region is initialised again under its readers, no block and   *)
(* no snapshot a consumer was handed mixes two frames, for any number of   *)
(* consumers, any ring depth and any block size.                           *)
THEOREM NoTornReadCorrect == Spec => []NoTornRead
  <1> DEFINE Inv == crashes = 0 => SeqlockInv
  <1>1. TypeInv /\ Inv /\ [Next]_vars => Inv'
    <2> SUFFICES ASSUME TypeInv, Inv, [Next]_vars, crashes' = 0 PROVE SeqlockInv'
      OBVIOUS
    <2>0. SeqlockInv /\ ~Crash
      BY NoCrashYet
    <2>1. ~Recovery
      BY <2>0 DEF Recovery, ShmSetup, RegionInit, SeqlockInv, Running
    <2>2. CASE UNCHANGED vars
      BY <2>0, <2>2 DEF vars, memVars, prodVars, copyVars, outVars, SeqlockInv,
         Running, Parity, SeqBound, ClosedCellWhole, CopyAgrees, Untorn,
         Open, Pending
    <2> QED
      BY <2>0, <2>1, <2>2, SeqlockProducer, SeqlockReader DEF Next
  <1>2. Inv => NoTornRead
    BY DEF SeqlockInv, Untorn, NoTornRead
  <1>3. Init => Inv
    BY SeqlockInit
  <1> HIDE DEF Inv
  <1> QED
    BY <1>1, <1>2, <1>3, TypeInit, TypeStep, PTL DEF Spec

-----------------------------------------------------------------------------
(***************************************************************************)
(* Which frame a consumer gets, again without a restart.  These do not     *)
(* rest on the seqlock: each word of a cell only ever moves to a later     *)
(* frame of the same slot, and the snapshot's words move first.            *)
(***************************************************************************)
FrameOrder == frame = IF ppc = "idle" THEN writePos ELSE writePos + 1

OpenFilled ==
  /\ ppc = "snap" => \A w \in Words \ ptodo : data[Snap][w] = frame
  /\ ppc = "slot" => \A w \in Words \ ptodo : data[Slot(writePos)][w] = frame

SnapAhead == \A v \in Words : /\ data[Snap][v] >= writePos /\ data[Snap][v] <= frame
                              /\ ppc \in {"ring", "slot", "pos"} => data[Snap][v] = frame

SlotBehind == \A k \in Slots : \A w \in Words :
                 data[k][w] <= writePos \/ (ppc \in {"slot", "pos"} /\ data[k][w] = frame)

(* v is a frame of the slot of position p, and not an older one.           *)
Fits(v, p) == v >= p + 1 /\ (v - 1) % Depth = Slot(p)

Committed(p) == p < writePos \/ (p = writePos /\ ppc = "pos")

RingHolds == \A p \in Nat : Committed(p) => \A w \in Words : Fits(data[Slot(p)][w], p)

RingInv == Running /\ FrameOrder /\ OpenFilled /\ SnapAhead /\ SlotBehind /\ RingHolds

(* The cursor stays behind write_pos, so no counter wraps, and a slot is   *)
(* only read for a position that was published.                            *)
CursorOrder(r) ==
  /\ readPos[r] = start[r] + taken[r] + dropped[r]
  /\ readPos[r] <= writePos /\ wp[r] <= writePos
  /\ rpc[r] \in {"s1", "copy"} /\ cell[r] # Snap =>
       readPos[r] < wp[r] /\ cell[r] = Slot(readPos[r])

CopyOrder(r) ==
  rpc[r] = "copy" => \A w \in Words \ todo[r] :
    IF cell[r] = Snap THEN copy[r][w] >= got[r].words[w]
    ELSE /\ Fits(copy[r][w], readPos[r])
         /\ \A v \in Words : copy[r][w] <= data[Snap][v]

GotOrder(r) ==
  /\ \A v, w \in Words : got[r].words[w] <= data[Snap][v]
  /\ taken[r] > 0 => \A w \in Words : Fits(got[r].words[w], got[r].pos)

OrderInv == FreshReader /\ \A r \in Readers : CursorOrder(r) /\ CopyOrder(r) /\ GotOrder(r)

LEMMA NewestFits == \A p, q \in Nat : p <= q /\ Slot(p) = Slot(q) => Fits(q + 1, p)
  <1> SUFFICES ASSUME NEW p \in Nat, NEW q \in Nat, p <= q, Slot(p) = Slot(q)
               PROVE  q + 1 >= p + 1 /\ (q + 1) - 1 = q
    BY DEF Fits, Slot
  <1> QED
    OBVIOUS

LEMMA RingTypes ==
  ASSUME TypeInv
  PROVE  /\ writePos \in Nat /\ frame \in Nat /\ ptodo \in SUBSET Words
         /\ data \in [Cells -> [Words -> Nat]] /\ Snap \in Cells /\ Slots \subseteq Cells
         /\ Snap \notin Slots /\ \A p \in Nat : Slot(p) \in Slots
  <1>1. Snap \notin Slots
    BY DepthAssumption, SMT DEF Slots, Snap
  <1>2. Copies \subseteq [Words -> Nat]
    BY FrameFacts DEF Copies
  <1> QED
    BY <1>1, <1>2, FrameFacts, SlotIndex DEF TypeInv, TypeOK, MemType, ProdType

(* The frame in flight goes into one word of the open cell.                *)
LEMMA FillWordFacts ==
  ASSUME TypeInv, NEW c \in Cells, FillWord(c)
  PROVE  \E v \in Words :
           /\ ptodo' = ptodo \ {v} /\ data'[c][v] = frame
           /\ \A w \in Words : w # v => data'[c][w] = data[c][w]
           /\ \A d \in Cells : d # c => data'[d] = data[d]
           /\ UNCHANGED <<writePos, frame, ppc, crashes>>
  <1>1. PICK v \in ptodo : /\ data' = [data EXCEPT ![c][v] = frame]
                           /\ ptodo' = ptodo \ {v}
                           /\ UNCHANGED <<writePos, frame, ppc, crashes>>
    BY DEF FillWord
  <1> QED
    BY <1>1, RingTypes

LEMMA RingProducer ==
  ASSUME TypeInv, RingInv, Producer
  PROVE  RingInv' /\ \A v \in Words : data'[Snap][v] >= data[Snap][v]
  <1>0. /\ writePos \in Nat /\ frame \in Nat /\ data \in [Cells -> [Words -> Nat]]
        /\ Snap \in Cells /\ Slots \subseteq Cells /\ Snap \notin Slots
        /\ ptodo \in SUBSET Words /\ \A p \in Nat : Slot(p) \in Slots
    BY RingTypes
  <1>1. Running /\ FrameOrder /\ OpenFilled /\ SnapAhead /\ SlotBehind /\ RingHolds
    BY DEF RingInv
  <1> USE <1>0, <1>1
  <1>2. CASE SnapOpen
    <2>1. /\ ppc = "idle" /\ ppc' = "snap" /\ frame' = frame + 1 /\ ptodo' = Words
          /\ UNCHANGED <<data, writePos, crashes>>
      BY <1>2 DEF SnapOpen, OpenCell
    <2>2. (Running /\ FrameOrder /\ OpenFilled /\ SnapAhead /\ SlotBehind)'
      BY <2>1 DEF Running, FrameOrder, OpenFilled, SnapAhead, SlotBehind
    <2>3. RingHolds'
      BY <2>1 DEF RingHolds, Committed
    <2> QED
      BY <2>1, <2>2, <2>3 DEF RingInv
  <1>3. CASE SnapFill
    <2>0. ppc = "snap" /\ FillWord(Snap)
      BY <1>3 DEF SnapFill
    <2>1. PICK v \in Words :
            /\ ptodo' = ptodo \ {v} /\ data'[Snap][v] = frame
            /\ \A w \in Words : w # v => data'[Snap][w] = data[Snap][w]
            /\ \A d \in Cells : d # Snap => data'[d] = data[d]
            /\ UNCHANGED <<writePos, frame, ppc, crashes>>
      BY <2>0, FillWordFacts
    <2>2. (Running /\ FrameOrder)'
      BY <2>0, <2>1 DEF Running, FrameOrder
    <2>3. OpenFilled'
      BY <2>0, <2>1 DEF OpenFilled
    <2>4. SnapAhead' /\ SlotBehind'
      <3>1. frame >= writePos
        BY DEF FrameOrder
      <3>2. SnapAhead'
        BY <2>0, <2>1, <3>1 DEF SnapAhead
      <3>3. \A k \in Slots : data'[k] = data[k]
        BY <2>1
      <3>4. SlotBehind'
        BY <2>0, <2>1, <3>3 DEF SlotBehind
      <3> QED
        BY <3>2, <3>4
    <2>5. RingHolds'
      BY <2>0, <2>1 DEF RingHolds, Committed
    <2>6. \A w \in Words : frame >= data[Snap][w]
      BY DEF SnapAhead
    <2>7. \A w \in Words : data'[Snap][w] >= data[Snap][w]
      BY <2>1, <2>6
    <2> QED
      BY <2>2, <2>3, <2>4, <2>5, <2>7 DEF RingInv
  <1>4. CASE SnapCommit
    <2>1. /\ ppc = "snap" /\ ppc' = "ring" /\ ptodo = {}
          /\ UNCHANGED <<data, writePos, frame, ptodo, crashes>>
      BY <1>4 DEF SnapCommit, CommitCell
    <2>2. (Running /\ FrameOrder /\ OpenFilled /\ SnapAhead /\ SlotBehind)'
      BY <2>1 DEF Running, FrameOrder, OpenFilled, SnapAhead, SlotBehind
    <2>3. RingHolds'
      BY <2>1 DEF RingHolds, Committed
    <2> QED
      BY <2>1, <2>2, <2>3 DEF RingInv
  <1>5. CASE SlotOpen
    <2>1. /\ ppc = "ring" /\ ppc' = "slot" /\ ptodo' = Words
          /\ UNCHANGED <<data, writePos, frame, crashes>>
      BY <1>5 DEF SlotOpen, OpenCell
    <2>2. (Running /\ FrameOrder /\ OpenFilled /\ SnapAhead /\ SlotBehind)'
      BY <2>1 DEF Running, FrameOrder, OpenFilled, SnapAhead, SlotBehind
    <2>3. RingHolds'
      BY <2>1 DEF RingHolds, Committed
    <2> QED
      BY <2>1, <2>2, <2>3 DEF RingInv
  <1>6. CASE SlotFill
    <2> DEFINE k == Slot(writePos)
    <2>0. ppc = "slot" /\ FillWord(k) /\ k \in Slots /\ k \in Cells /\ k # Snap
      BY <1>6 DEF SlotFill
    <2>1. PICK v \in Words :
            /\ ptodo' = ptodo \ {v} /\ data'[k][v] = frame
            /\ \A w \in Words : w # v => data'[k][w] = data[k][w]
            /\ \A d \in Cells : d # k => data'[d] = data[d]
            /\ UNCHANGED <<writePos, frame, ppc, crashes>>
      BY <2>0, FillWordFacts
    <2>2. (Running /\ FrameOrder /\ SnapAhead)'
      BY <2>0, <2>1 DEF Running, FrameOrder, SnapAhead
    <2>3. k' = k
      BY <2>1 DEF Slot
    <2> HIDE DEF k
    <2>4. OpenFilled'
      BY <2>0, <2>1, <2>3 DEF OpenFilled, k
    <2>5. SlotBehind'
      <3>1. ASSUME NEW j \in Slots, NEW w \in Words
            PROVE  data'[j][w] = data[j][w] \/ data'[j][w] = frame
        BY <2>0, <2>1
      <3> QED
        BY <2>0, <2>1, <3>1 DEF SlotBehind
    <2>6. RingHolds'
      <3> SUFFICES ASSUME NEW p \in Nat, p < writePos, NEW w \in Words
                   PROVE  Fits(data'[Slot(p)][w], p)
        BY <2>0, <2>1 DEF RingHolds, Committed
      <3>1. Fits(data[Slot(p)][w], p)
        BY DEF RingHolds, Committed
      <3>2. CASE Slot(p) = k /\ w = v
        <4>1. Fits(writePos + 1, p)
          BY <3>2, NewestFits DEF k
        <4> QED
          BY <2>0, <2>1, <3>2, <4>1 DEF FrameOrder
      <3>3. CASE ~(Slot(p) = k /\ w = v)
        BY <2>1, <3>1, <3>3
      <3> QED
        BY <3>2, <3>3
    <2>7. data'[Snap] = data[Snap]
      BY <2>0, <2>1
    <2> QED
      BY <2>2, <2>4, <2>5, <2>6, <2>7 DEF RingInv
  <1>7. CASE SlotCommit
    <2>1. /\ ppc = "slot" /\ ppc' = "pos" /\ ptodo = {}
          /\ UNCHANGED <<data, writePos, frame, ptodo, crashes>>
      BY <1>7 DEF SlotCommit, CommitCell
    <2>2. (Running /\ FrameOrder /\ OpenFilled /\ SnapAhead /\ SlotBehind)'
      BY <2>1 DEF Running, FrameOrder, OpenFilled, SnapAhead, SlotBehind
    <2>3. \A w \in Words : Fits(data[Slot(writePos)][w], writePos)
      <3>1. Fits(writePos + 1, writePos)
        BY NewestFits
      <3> QED
        BY <2>1, <3>1 DEF OpenFilled, FrameOrder
    <2>4. RingHolds'
      BY <2>1, <2>3 DEF RingHolds, Committed
    <2> QED
      BY <2>1, <2>2, <2>4 DEF RingInv
  <1>8. CASE PosPublish
    <2>1. /\ ppc = "pos" /\ ppc' = "idle" /\ writePos' = writePos + 1
          /\ UNCHANGED <<data, frame, ptodo, crashes>>
      BY <1>8 DEF PosPublish
    <2>2. (Running /\ FrameOrder /\ OpenFilled)'
      BY <2>1 DEF Running, FrameOrder, OpenFilled
    <2>3. (SnapAhead /\ SlotBehind)'
      <3>1. frame = writePos'
        BY <2>1 DEF FrameOrder
      <3>2. SnapAhead'
        BY <2>1, <3>1 DEF SnapAhead
      <3>3. ASSUME NEW k \in Slots, NEW w \in Words PROVE data[k][w] <= frame
        BY <2>1, <3>1 DEF SlotBehind
      <3> QED
        BY <2>1, <3>1, <3>2, <3>3 DEF SlotBehind
    <2>4. RingHolds'
      BY <2>1 DEF RingHolds, Committed
    <2> QED
      BY <2>1, <2>2, <2>3, <2>4 DEF RingInv
  <1> QED
    BY <1>2, <1>3, <1>4, <1>5, <1>6, <1>7, <1>8 DEF Producer

(* Every frame of the ring is in the snapshot already.                     *)
LEMMA SnapNewest ==
  ASSUME TypeInv, RingInv, NEW k \in Slots, NEW v \in Words, NEW w \in Words
  PROVE  data[k][w] <= data[Snap][v]
  <1>1. data[k][w] \in Nat /\ data[Snap][v] \in Nat /\ writePos \in Nat /\ frame \in Nat
    BY RingTypes
  <1>2. data[Snap][v] >= writePos /\ (ppc \in {"ring", "slot", "pos"} => data[Snap][v] = frame)
    BY DEF RingInv, SnapAhead
  <1>3. data[k][w] <= writePos \/ (ppc \in {"slot", "pos"} /\ data[k][w] = frame)
    BY DEF RingInv, SlotBehind
  <1> QED
    BY <1>1, <1>2, <1>3

LEMMA ReaderTypes ==
  ASSUME TypeInv, NEW r \in Readers
  PROVE  /\ readPos[r] \in Nat /\ start[r] \in Nat /\ taken[r] \in Nat /\ dropped[r] \in Nat
         /\ wp[r] \in Nat /\ cell[r] \in Cells /\ todo[r] \in SUBSET Words
         /\ copy[r] \in [Words -> Nat] /\ got[r].pos \in Nat /\ got[r].words \in [Words -> Nat]
  <1>1. Copies \subseteq [Words -> Nat] /\ Frames \subseteq Nat
    BY FrameFacts DEF Copies
  <1>2. CopyType /\ PollType /\ OutType
    BY DEF TypeInv, TypeOK
  <1>3. /\ readPos[r] \in Nat /\ start[r] \in Nat /\ taken[r] \in Nat /\ dropped[r] \in Nat
        /\ wp[r] \in Nat
    <2>1. 0 .. U64 - 1 \subseteq Nat
      BY WidthAssumption
    <2>2. readPos[r] \in 0 .. U64 - 1 /\ taken[r] \in 0 .. U64 - 1 /\ dropped[r] \in 0 .. U64 - 1
      BY <1>2 DEF PollType
    <2>3. start[r] \in Frames /\ wp[r] \in Frames
      BY <1>2 DEF PollType
    <2> QED
      BY <1>1, <2>1, <2>2, <2>3
  <1>4. cell[r] \in Cells /\ todo[r] \in SUBSET Words /\ copy[r] \in [Words -> Nat]
    BY <1>1, <1>2 DEF CopyType
  <1>5. got[r] \in [pos : 0 .. U64 - 1, words : Copies]
    BY <1>2 DEF OutType
  <1>6. got[r].pos \in Nat /\ got[r].words \in [Words -> Nat]
    BY <1>1, <1>5
  <1> QED
    BY <1>3, <1>4, <1>6

LEMMA SmallSums ==
  \A a, b \in Nat : /\ a + b <= MaxFrames => Add64(a, b) = a + b
                    /\ b <= a => Sub64(a, b) = a - b
  BY WidthAssumption, DepthAssumption, BoundAssumption, SMT DEF Add64, Sub64

LEMMA OrderProducer ==
  ASSUME TypeInv, RingInv, OrderInv, Producer
  PROVE  OrderInv'
  <1>1. /\ \A v \in Words : data'[Snap][v] >= data[Snap][v]
        /\ TypeInv'
    BY RingProducer, TypeProducer
  <1>2. writePos' >= writePos /\ writePos \in Nat /\ writePos' \in Nat
    <2>1. writePos' = writePos \/ writePos' = writePos + 1
      BY DEF Producer, SnapOpen, SnapFill, SnapCommit, SlotOpen, SlotFill, SlotCommit,
         PosPublish, OpenCell, FillWord, CommitCell
    <2> QED
      BY <2>1, RingTypes
  <1>3. UNCHANGED <<rpc, copyVars, pollVars, outVars>>
    BY DEF Producer, SnapOpen, SnapFill, SnapCommit, SlotOpen, SlotFill, SlotCommit,
       PosPublish, readersUnchanged
  <1>4. FreshReader'
    BY <1>3 DEF OrderInv, FreshReader, pollVars
  <1>5. ASSUME NEW r \in Readers PROVE CursorOrder(r)' /\ CopyOrder(r)' /\ GotOrder(r)'
    <2>1. CursorOrder(r) /\ CopyOrder(r) /\ GotOrder(r)
      BY DEF OrderInv
    <2>2. CursorOrder(r)'
      BY <1>2, <1>3, <2>1, ReaderTypes DEF CursorOrder, copyVars, pollVars, Slot
    <2>3. /\ \A v \in Words : data[Snap][v] \in Nat /\ data'[Snap][v] \in Nat
          /\ copy[r] \in [Words -> Nat] /\ got[r].words \in [Words -> Nat]
      <3>1. data' \in [Cells -> Copies] /\ Copies \subseteq [Words -> Nat]
        BY <1>1, FrameFacts DEF TypeInv, TypeOK, MemType, Copies
      <3> QED
        BY <3>1, ReaderTypes, RingTypes
    <2>4. CopyOrder(r)'
      BY <1>1, <1>3, <2>1, <2>3 DEF CopyOrder, copyVars, pollVars, outVars, Fits, Slot
    <2>5. GotOrder(r)'
      BY <1>1, <1>3, <2>1, <2>3 DEF GotOrder, pollVars, outVars, Fits, Slot
    <2> QED
      BY <2>2, <2>4, <2>5
  <1> QED
    BY <1>4, <1>5 DEF OrderInv

LEMMA OrderReader ==
  ASSUME NEW r \in Readers, TypeInv, RingInv, OrderInv, Reader(r)
  PROVE  OrderInv'
  <1>0. /\ CopyType /\ PollType /\ OutType
        /\ writePos \in Nat /\ writePos <= MaxFrames /\ MaxFrames \in Nat
        /\ Depth \in Nat /\ Depth # 0
    BY BoundAssumption, DepthAssumption DEF TypeInv, TypeOK, MemType, Frames
  <1>1. UNCHANGED <<data, writePos>>
    BY DEF Reader, ReadStep, Attach, AttachHistory, AttachAt, SnapshotRead, Poll, ReadSlot,
       PollReturn, LoadOdd, LoadEven, CopyWord, Retry, Accept, memUnchanged, memVars
  <1>2. FreshReader /\ CursorOrder(r) /\ CopyOrder(r) /\ GotOrder(r)
    BY DEF OrderInv
  <1>3. /\ readPos[r] \in Nat /\ start[r] \in Nat /\ taken[r] \in Nat /\ dropped[r] \in Nat
        /\ wp[r] \in Nat /\ cell[r] \in Cells /\ todo[r] \in SUBSET Words
        /\ copy[r] \in [Words -> Nat] /\ got[r].pos \in Nat /\ got[r].words \in [Words -> Nat]
    BY ReaderTypes
  <1> DEFINE Kept(q) == /\ rpc'[q] = rpc[q] /\ cell'[q] = cell[q] /\ todo'[q] = todo[q]
                        /\ copy'[q] = copy[q] /\ readPos'[q] = readPos[q] /\ wp'[q] = wp[q]
                        /\ start'[q] = start[q] /\ taken'[q] = taken[q]
                        /\ dropped'[q] = dropped[q] /\ got'[q] = got[q]
  <1>4. SUFFICES /\ \A q \in Readers : q # r => Kept(q)
                 /\ rpc'[r] # "off"
                 /\ CursorOrder(r)' /\ CopyOrder(r)' /\ GotOrder(r)'
    <2>1. ASSUME NEW q \in Readers, q # r, Kept(q), CursorOrder(q), CopyOrder(q), GotOrder(q)
          PROVE  CursorOrder(q)' /\ CopyOrder(q)' /\ GotOrder(q)'
      BY <1>1, <2>1 DEF CursorOrder, CopyOrder, GotOrder, Fits, Slot
    <2>2. ASSUME rpc'[r] # "off", \A q \in Readers : q # r => Kept(q)
          PROVE  FreshReader'
      BY <1>2, <2>2 DEF FreshReader
    <2> QED
      BY <2>1, <2>2 DEF OrderInv
  <1>5. CASE \E pos \in Nat : pos <= writePos /\ AttachAt(r, pos)
    <2>1. PICK pos \in Nat : pos <= writePos /\ AttachAt(r, pos)
      BY <1>5
    <2>2. /\ rpc' = [rpc EXCEPT ![r] = "idle"] /\ rpc[r] = "off"
          /\ readPos' = [readPos EXCEPT ![r] = pos] /\ start' = [start EXCEPT ![r] = pos]
          /\ UNCHANGED <<wp, taken, dropped, cell, todo, copy, got>>
      BY <2>1 DEF AttachAt, copyVars, outVars
    <2>3. taken[r] = 0 /\ dropped[r] = 0
      BY <1>2, <2>2 DEF FreshReader
    <2>4. /\ rpc'[r] = "idle" /\ readPos'[r] = pos /\ start'[r] = pos
          /\ \A q \in Readers : q # r => Kept(q)
      BY <1>0, <2>2 DEF CopyType, PollType
    <2>5. CursorOrder(r)'
      BY <1>0, <1>1, <1>2, <2>1, <2>2, <2>3, <2>4 DEF CursorOrder
    <2>6. CopyOrder(r)' /\ GotOrder(r)'
      BY <1>1, <1>2, <2>2, <2>4 DEF CopyOrder, GotOrder, Fits, Slot
    <2> QED
      BY <2>4, <2>5, <2>6
  <1>6. CASE Attach(r) \/ AttachHistory(r)
    <2>1. (IF writePos >= Depth THEN writePos - Depth ELSE 0) \in Nat
          /\ (IF writePos >= Depth THEN writePos - Depth ELSE 0) <= writePos
      BY <1>0
    <2> QED
      BY <1>0, <1>5, <1>6, <2>1 DEF Attach, AttachHistory
  <1>7. CASE Poll(r)
    <2>1. Sub64(writePos, readPos[r]) = writePos - readPos[r]
      BY <1>0, <1>2, <1>3, SmallSums DEF CursorOrder
    <2>2. /\ rpc' = [rpc EXCEPT ![r] = "loop"] /\ wp' = [wp EXCEPT ![r] = writePos]
          /\ UNCHANGED <<taken, start, cell, todo, copy, got>>
      BY <1>7 DEF Poll, copyVars, outVars
    <2>3. /\ rpc'[r] = "loop" /\ wp'[r] = writePos
          /\ \A q \in Readers : q # r => rpc'[q] = rpc[q] /\ wp'[q] = wp[q]
      BY <1>0, <2>2 DEF CopyType, PollType
    <2>4. \/ /\ dropped'[r] = dropped[r] + ((writePos - readPos[r]) - Depth)
             /\ readPos'[r] = writePos - Depth /\ writePos - Depth \in Nat
             /\ \A q \in Readers : q # r => dropped'[q] = dropped[q] /\ readPos'[q] = readPos[q]
          \/ UNCHANGED <<dropped, readPos>>
      <3>1. CASE writePos - readPos[r] > Depth
        <4>1. /\ dropped' = [dropped EXCEPT ![r] = Add64(dropped[r], (writePos - readPos[r]) - Depth)]
              /\ readPos' = [readPos EXCEPT ![r] = Sub64(writePos, Depth)]
          BY <1>7, <2>1, <3>1 DEF Poll
        <4>2. /\ (writePos - readPos[r]) - Depth \in Nat /\ Depth <= writePos
              /\ dropped[r] + ((writePos - readPos[r]) - Depth) <= MaxFrames
          BY <1>0, <1>2, <1>3, <3>1 DEF CursorOrder
        <4>3. /\ Add64(dropped[r], (writePos - readPos[r]) - Depth)
                   = dropped[r] + ((writePos - readPos[r]) - Depth)
              /\ Sub64(writePos, Depth) = writePos - Depth
          BY <1>0, <1>3, <4>2, SmallSums
        <4>4. writePos - Depth \in Nat
          BY <1>0, <4>2
        <4> QED
          BY <1>0, <4>1, <4>3, <4>4 DEF PollType
      <3>2. CASE ~(writePos - readPos[r] > Depth)
        BY <1>7, <2>1, <3>2 DEF Poll
      <3> QED
        BY <3>1, <3>2
    <2>5. CursorOrder(r)'
      <3>1. readPos[r] = start[r] + taken[r] + dropped[r] /\ readPos[r] <= writePos
        BY <1>2 DEF CursorOrder
      <3>2. readPos'[r] = start[r] + taken[r] + dropped'[r] /\ readPos'[r] <= writePos
        BY <1>0, <1>3, <2>4, <3>1
      <3> QED
        BY <1>0, <1>1, <2>2, <2>3, <3>2 DEF CursorOrder
    <2>6. CopyOrder(r)' /\ GotOrder(r)'
      BY <1>1, <1>2, <2>2, <2>3 DEF CopyOrder, GotOrder, Fits, Slot
    <2> QED
      BY <2>2, <2>3, <2>4, <2>5, <2>6
  <1>8. CASE SnapshotRead(r) \/ ReadSlot(r)
    <2>1. PICK c : /\ BeginRead(r, c) /\ UNCHANGED <<pollVars, outVars>>
                   /\ rpc[r] \in {"idle", "loop"}
                   /\ c = Snap \/ (c = Slot(readPos[r]) /\ readPos[r] < wp[r])
      BY <1>8 DEF SnapshotRead, ReadSlot, More
    <2>2. /\ rpc'[r] = "s1" /\ cell'[r] = c /\ UNCHANGED <<todo, copy>>
          /\ UNCHANGED <<readPos, wp, start, taken, dropped, got>>
          /\ \A q \in Readers : q # r => Kept(q)
      BY <1>0, <2>1 DEF BeginRead, CopyType, pollVars, outVars
    <2>3. CursorOrder(r)'
      BY <1>1, <1>2, <2>1, <2>2 DEF CursorOrder, Slot
    <2>4. CopyOrder(r)' /\ GotOrder(r)'
      BY <1>1, <1>2, <2>2 DEF CopyOrder, GotOrder, Fits, Slot
    <2> QED
      BY <2>2, <2>3, <2>4
  <1>9. CASE PollReturn(r)
    <2>1. /\ rpc'[r] = "idle" /\ UNCHANGED <<cell, todo, copy>>
          /\ UNCHANGED <<readPos, wp, start, taken, dropped, got>>
          /\ \A q \in Readers : q # r => Kept(q)
      BY <1>0, <1>9 DEF PollReturn, CopyType, copyVars, pollVars, outVars
    <2> QED
      BY <1>1, <1>2, <2>1 DEF CursorOrder, CopyOrder, GotOrder, Fits, Slot
  <1>10. CASE LoadEven(r)
    <2>1. /\ rpc'[r] = "copy" /\ rpc[r] = "s1" /\ todo'[r] = Words /\ UNCHANGED <<cell, copy>>
          /\ UNCHANGED <<readPos, wp, start, taken, dropped, got>>
          /\ \A q \in Readers : q # r => Kept(q)
      BY <1>0, <1>10 DEF LoadEven, CopyType, pollVars, outVars
    <2>2. CursorOrder(r)'
      BY <1>1, <1>2, <2>1 DEF CursorOrder, Slot
    <2>3. CopyOrder(r)' /\ GotOrder(r)'
      BY <1>1, <1>2, <2>1 DEF CopyOrder, GotOrder, Fits, Slot
    <2> QED
      BY <2>1, <2>2, <2>3
  <1>11. CASE CopyWord(r)
    <2>1. PICK v \in todo[r] : /\ copy' = [copy EXCEPT ![r][v] = data[cell[r]][v]]
                               /\ todo' = [todo EXCEPT ![r] = @ \ {v}]
      BY <1>11 DEF CopyWord
    <2>2. /\ rpc[r] = "copy" /\ v \in Words
          /\ UNCHANGED <<rpc, cell, readPos, wp, start, taken, dropped, got>>
      BY <1>3, <1>11, <2>1 DEF CopyWord, pollVars, outVars
    <2>3. /\ copy'[r][v] = data[cell[r]][v] /\ todo'[r] = todo[r] \ {v}
          /\ \A w \in Words : w # v => copy'[r][w] = copy[r][w]
          /\ \A q \in Readers : q # r => Kept(q)
      BY <1>0, <1>3, <2>1, <2>2 DEF CopyType
    <2>4. CursorOrder(r)' /\ GotOrder(r)'
      BY <1>1, <1>2, <2>2 DEF CursorOrder, GotOrder, Fits, Slot
    <2>5. CASE cell[r] = Snap
      <3>1. copy'[r][v] >= got[r].words[v]
        <4>1. got[r].words[v] <= data[Snap][v]
          BY <1>2, <2>2 DEF GotOrder
        <4> QED
          BY <1>3, <2>2, <2>3, <2>5, <4>1, RingTypes
      <3>2. CopyOrder(r)'
        BY <1>2, <2>2, <2>3, <2>5, <3>1 DEF CopyOrder
      <3> QED
        BY <2>2, <2>3, <2>4, <3>2, <1>0 DEF CopyType
    <2>6. CASE cell[r] # Snap
      <3>1. readPos[r] < writePos /\ cell[r] = Slot(readPos[r]) /\ cell[r] \in Slots
        BY <1>0, <1>2, <1>3, <2>2, <2>6, RingTypes DEF CursorOrder
      <3>2. Fits(data[cell[r]][v], readPos[r])
        BY <1>3, <2>2, <3>1 DEF RingInv, RingHolds, Committed
      <3>3. \A u \in Words : data[cell[r]][v] <= data[Snap][u]
        BY <2>2, <3>1, SnapNewest
      <3>4. ASSUME NEW w \in Words \ todo'[r]
            PROVE  Fits(copy'[r][w], readPos[r]) /\ \A u \in Words : copy'[r][w] <= data[Snap][u]
        <4>1. CASE w = v
          BY <2>3, <3>2, <3>3, <4>1
        <4>2. CASE w # v
          BY <1>2, <2>2, <2>3, <2>6, <4>2 DEF CopyOrder
        <4> QED
          BY <4>1, <4>2
      <3>5. CopyOrder(r)'
        BY <1>1, <2>2, <2>6, <3>4 DEF CopyOrder, Fits, Slot
      <3> QED
        BY <2>2, <2>3, <2>4, <3>5, <1>0 DEF CopyType
    <2> QED
      BY <2>5, <2>6
  <1>12. CASE LoadOdd(r) \/ Retry(r)
    <2>1. FailedTry(r) /\ rpc[r] \in {"s1", "copy"}
      BY <1>12 DEF LoadOdd, Retry
    <2>2. /\ UNCHANGED <<cell, todo, copy, wp, start, taken, got>>
          /\ \E x \in {"s1", "idle", "loop"} : rpc' = [rpc EXCEPT ![r] = x]
      BY <2>1 DEF FailedTry, pollVars, outVars
    <2>3. CASE UNCHANGED pollVars
      <3>1. /\ rpc'[r] \in {"s1", "idle", "loop"}
            /\ UNCHANGED <<readPos, dropped>>
            /\ \A q \in Readers : q # r => Kept(q)
        BY <1>0, <2>2, <2>3 DEF CopyType, pollVars
      <3> QED
        BY <1>1, <1>2, <2>1, <2>2, <3>1 DEF CursorOrder, CopyOrder, GotOrder, Fits, Slot
    <2>4. CASE ~UNCHANGED pollVars
      <3>1. /\ dropped' = [dropped EXCEPT ![r] = Add64(dropped[r], 1)]
            /\ readPos' = [readPos EXCEPT ![r] = Add64(readPos[r], 1)]
            /\ rpc' = [rpc EXCEPT ![r] = "loop"] /\ cell[r] # Snap
        BY <2>1, <2>4 DEF FailedTry, Advance
      <3>2. readPos[r] < wp[r] /\ wp[r] <= writePos
            /\ readPos[r] = start[r] + taken[r] + dropped[r]
        BY <1>2, <2>1, <3>1 DEF CursorOrder
      <3>3. Add64(dropped[r], 1) = dropped[r] + 1 /\ Add64(readPos[r], 1) = readPos[r] + 1
        <4>1. dropped[r] + 1 <= MaxFrames /\ readPos[r] + 1 <= MaxFrames
          BY <1>0, <1>3, <3>2
        <4> QED
          BY <1>3, <4>1, SmallSums
      <3>4. /\ rpc'[r] = "loop" /\ dropped'[r] = dropped[r] + 1 /\ readPos'[r] = readPos[r] + 1
            /\ \A q \in Readers : q # r => Kept(q)
        BY <1>0, <2>2, <3>1, <3>3 DEF CopyType, PollType
      <3>5. CursorOrder(r)'
        BY <1>0, <1>1, <1>3, <2>2, <3>2, <3>4 DEF CursorOrder
      <3>6. CopyOrder(r)' /\ GotOrder(r)'
        BY <1>1, <1>2, <2>2, <3>4 DEF CopyOrder, GotOrder, Fits, Slot
      <3> QED
        BY <3>4, <3>5, <3>6
    <2> QED
      BY <2>3, <2>4
  <1>13. CASE Accept(r)
    <2>1. rpc[r] = "copy" /\ todo[r] = {} /\ UNCHANGED <<cell, todo, copy>>
      BY <1>13 DEF Accept, copyVars
    <2>2. CASE cell[r] = Snap
      <3>1. /\ rpc'[r] = "idle" /\ UNCHANGED <<readPos, wp, start, taken, dropped, got>>
            /\ \A q \in Readers : q # r => Kept(q)
        BY <1>0, <1>13, <2>1, <2>2 DEF Accept, CopyType, pollVars
      <3> QED
        BY <1>1, <1>2, <2>1, <3>1 DEF CursorOrder, CopyOrder, GotOrder, Fits, Slot
    <2>3. CASE cell[r] # Snap
      <3>1. /\ rpc' = [rpc EXCEPT ![r] = "loop"] /\ UNCHANGED <<wp, start, dropped>>
            /\ got' = [got EXCEPT ![r] = [pos |-> readPos[r], words |-> copy[r]]]
            /\ taken' = [taken EXCEPT ![r] = Add64(taken[r], 1)]
            /\ readPos' = [readPos EXCEPT ![r] = Add64(readPos[r], 1)]
        BY <1>13, <2>3 DEF Accept, Advance
      <3>2. readPos[r] < wp[r] /\ wp[r] <= writePos
            /\ readPos[r] = start[r] + taken[r] + dropped[r]
        BY <1>2, <2>1, <2>3 DEF CursorOrder
      <3>3. Add64(taken[r], 1) = taken[r] + 1 /\ Add64(readPos[r], 1) = readPos[r] + 1
        BY <1>0, <1>3, <3>2, SmallSums
      <3>4. /\ rpc'[r] = "loop" /\ taken'[r] = taken[r] + 1 /\ readPos'[r] = readPos[r] + 1
            /\ got'[r].pos = readPos[r] /\ got'[r].words = copy[r]
            /\ \A q \in Readers : q # r => Kept(q)
        BY <1>0, <2>1, <3>1, <3>3 DEF CopyType, PollType, OutType
      <3>5. CursorOrder(r)'
        BY <1>0, <1>1, <1>3, <3>1, <3>2, <3>4 DEF CursorOrder
      <3>6. \A w \in Words : /\ Fits(copy[r][w], readPos[r])
                             /\ \A v \in Words : copy[r][w] <= data[Snap][v]
        BY <1>2, <2>1, <2>3 DEF CopyOrder
      <3>7. CopyOrder(r)' /\ GotOrder(r)'
        BY <1>1, <3>4, <3>6 DEF CopyOrder, GotOrder, Fits, Slot
      <3> QED
        BY <3>4, <3>5, <3>7
    <2> QED
      BY <2>2, <2>3
  <1> QED
    BY <1>6, <1>7, <1>8, <1>9, <1>10, <1>11, <1>12, <1>13 DEF Reader, ReadStep

LEMMA OrderInductive ==
  Spec => [](TypeInv /\ (crashes = 0 => RingInv /\ OrderInv))
  <1>1. Init => RingInv
    <2>1. ASSUME Init PROVE Running /\ FrameOrder /\ OpenFilled /\ SnapAhead
      BY <2>1, FrameFacts DEF Init, Running, FrameOrder, OpenFilled, SnapAhead, Nothing
    <2>2. ASSUME Init PROVE SlotBehind /\ RingHolds
      BY <2>2, FrameFacts DEF Init, SlotBehind, RingHolds, Committed, Nothing
    <2> QED
      BY <2>1, <2>2 DEF RingInv
  <1>2. Init => OrderInv
    <2>1. ASSUME Init, NEW r \in Readers PROVE CursorOrder(r) /\ CopyOrder(r) /\ GotOrder(r)
      BY <2>1, FrameFacts DEF Init, CursorOrder, CopyOrder, GotOrder, Nothing
    <2>2. ASSUME Init PROVE FreshReader
      BY <2>2 DEF Init, FreshReader
    <2> QED
      BY <2>1, <2>2 DEF OrderInv
  <1> DEFINE Inv == crashes = 0 => RingInv /\ OrderInv
  <1>3. ASSUME TypeInv, Inv, [Next]_vars, crashes' = 0 PROVE RingInv' /\ OrderInv'
    <2>0. RingInv /\ OrderInv /\ ~Crash
      BY <1>3, NoCrashYet
    <2>1. ~Recovery
      BY <2>0 DEF Recovery, ShmSetup, RegionInit, RingInv, Running
    <2>2. CASE Producer
      BY <1>3, <2>0, <2>2, RingProducer, OrderProducer
    <2>3. ASSUME UNCHANGED <<data, writePos, frame, ppc, ptodo, crashes>> PROVE RingInv'
      BY <2>0, <2>3 DEF RingInv, Running, FrameOrder, OpenFilled, SnapAhead, SlotBehind,
         RingHolds, Committed, Fits, Slot
    <2>4. ASSUME NEW r \in Readers, Reader(r) PROVE RingInv' /\ OrderInv'
      <3>1. memUnchanged
        BY <2>4 DEF Reader, ReadStep, Attach, AttachHistory, AttachAt, SnapshotRead, Poll,
           ReadSlot, PollReturn, LoadOdd, LoadEven, CopyWord, Retry, Accept
      <3> QED
        BY <1>3, <2>0, <2>3, <2>4, <3>1, OrderReader DEF memUnchanged, memVars, prodVars
    <2>5. CASE UNCHANGED vars
      <3>1. RingInv'
        BY <2>3, <2>5 DEF vars, memVars, prodVars
      <3>2. OrderInv'
        BY <2>0, <2>5 DEF vars, memVars, copyVars, pollVars, outVars, OrderInv, FreshReader,
           CursorOrder, CopyOrder, GotOrder, Fits, Slot
      <3> QED
        BY <3>1, <3>2
    <2> QED
      BY <1>3, <2>1, <2>2, <2>4, <2>5 DEF Next
  <1>4. Init => Inv
    BY <1>1, <1>2
  <1>5. TypeInv /\ Inv /\ [Next]_vars => Inv'
    BY <1>3
  <1> HIDE DEF Inv
  <1>6. Spec => [](TypeInv /\ Inv)
    BY <1>4, <1>5, TypeInit, TypeStep, PTL DEF Spec
  <1> QED
    BY <1>6 DEF Inv

(* A block that motor_ring_read_slot returned for a position was published *)
(* for that position or for a later lap of the same slot, never before.    *)
THEOREM BlockNotOlderCorrect == Spec => []BlockNotOlder
  <1>1. (crashes = 0 => RingInv /\ OrderInv) => BlockNotOlder
    BY DEF OrderInv, GotOrder, Fits, BlockNotOlder
  <1> QED
    BY <1>1, OrderInductive, PTL

(* What shm_reader_poll_blocks returned and what it reported as dropped    *)
(* fit into what was published since the consumer attached.                *)
THEOREM DropsArePublishedCorrect == Spec => []DropsArePublished
  <1>1. TypeInv /\ (crashes = 0 => RingInv /\ OrderInv) => DropsArePublished
    <2> SUFFICES ASSUME TypeInv, OrderInv, NEW r \in Readers
                 PROVE  start[r] + taken[r] + dropped[r] <= writePos
      BY DEF DropsArePublished
    <2> QED
      BY DEF OrderInv, CursorOrder
  <1> QED
    BY <1>1, OrderInductive, PTL

(* A snapshot that a consumer reads after a ring block is at least as new  *)
(* as the block, word by word: the producer writes the snapshot first.     *)
THEOREM SnapshotNotBehindRingCorrect == Spec => SnapshotNotBehindRing
  <1>1. ASSUME TypeInv, OrderInv, NEW r \in Readers, Accept(r), cell[r] = Snap,
               NEW w \in Words
        PROVE  gotSnap'[r][w] >= got[r].words[w]
    <2>1. rpc[r] = "copy" /\ todo[r] = {} /\ gotSnap' = [gotSnap EXCEPT ![r] = copy[r]]
      BY <1>1 DEF Accept
    <2>2. gotSnap'[r] = copy[r]
      BY <1>1, <2>1 DEF TypeInv, TypeOK, OutType
    <2> QED
      BY <1>1, <2>1, <2>2 DEF OrderInv, CopyOrder
  <1>2. TypeInv /\ (crashes = 0 => RingInv /\ OrderInv) =>
          [\A r \in Readers : crashes = 0 /\ Accept(r) /\ cell[r] = Snap =>
             \A w \in Words : gotSnap'[r][w] >= got[r].words[w]]_vars
    BY <1>1
  <1> QED
    BY <1>2, OrderInductive, PTL DEF SnapshotNotBehindRing
=============================================================================
