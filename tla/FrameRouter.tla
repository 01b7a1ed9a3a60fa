---------------------------- MODULE FrameRouter ----------------------------
(***************************************************************************)
(* The frame router: fb_guest.c captures the guest's display into one of   *)
(* FB_MAX_BUFFERS buffers of a region shared with the host, and fb_host.c  *)
(* copies the current one into its own window.  Neither side waits for the *)
(* other: the header (shm_proto.h) holds a frame number, the index of the  *)
(* front buffer and the index the host says it is copying.                 *)
(*                                                                         *)
(* The region outlives both programs, and either may die and be started    *)
(* again.  Pixels are abstracted to the number of the capture that a row   *)
(* shows; rows are written and copied in any order.  The header's fields   *)
(* are volatile: their accesses are separate steps, in program order.      *)
(***************************************************************************)
EXTENDS Naturals, FiniteSets, Sequences

CONSTANTS Rows,       \* rows of a frame
          Buffers,    \* FB_MAX_BUFFERS: 0 .. 2 in the code
          SeqMod,     \* 2^32 in the code: the width of the header's fields
          MaxFrames,  \* bound: captures in a behaviour
          MaxCrashes  \* bound: deaths of each program in a behaviour

Invalid == SeqMod - 1  \* FB_INVALID_INDEX, and the host's initial last_seq

ASSUME BuffersAssumption == 0 \in Buffers /\ Buffers \subseteq Nat /\ Invalid \notin Buffers
ASSUME RowsAssumption    == Rows # {}
(* frame_seq stays clear of the host's initial last_seq (2^32 - 1): 4.5    *)
(* years at 30 frames a second.                                            *)
ASSUME SeqAssumption     == /\ SeqMod \in Nat /\ MaxFrames \in Nat /\ MaxCrashes \in Nat
                            /\ MaxFrames + 1 < SeqMod

VARIABLES
  hdr,      \* fb_shm_header: magic, frame_seq, front_index, host_reading_index
  buf,      \* the capture that each row of each buffer shows
  gpc,      \* control state of the guest program
  gfront,   \* front_index as the guest read it
  back,     \* back_index
  gtodo,    \* rows of the back buffer not yet written
  captures, \* captures begun (a failed or abandoned one counts)
  hpc,      \* control state of the host program
  lastSeq,  \* last_seq
  idx,      \* front_index as the host read it
  htodo,    \* rows not yet copied to the window
  win,      \* the window's render buffer
  posted,   \* what screen_post_window last put on the display
  crashes,  \* deaths of the guest's and the host's program so far
  inTime,   \* history: idx was still the front buffer when the host claimed it
  late,     \* history: some claim of the host was not in time
  pubs      \* history: the captures published as front buffer, oldest first

guestVars == <<gpc, gfront, back, gtodo, captures>>
hostVars  == <<hpc, lastSeq, idx, htodo, win, posted, inTime, late>>
vars == <<hdr, buf, guestVars, hostVars, crashes, pubs>>

Blank   == [r \in Rows |-> 0]
Whole(frame) == \A r, s \in Rows : frame[r] = frame[s]

(* A fresh region is zeroed; neither program runs yet. *)
Init == /\ hdr = [magic |-> FALSE, seq |-> 0, front |-> 0, reading |-> 0]
        /\ buf = [b \in Buffers |-> Blank]
        /\ gpc = "off" /\ gfront = 0 /\ back = 0 /\ gtodo = {} /\ captures = 0
        /\ hpc = "off" /\ lastSeq = Invalid /\ idx = 0 /\ htodo = {}
        /\ win = Blank /\ posted = Blank
        /\ crashes = [guest |-> 0, host |-> 0]
        /\ inTime = TRUE /\ late = FALSE /\ pubs = <<0>>

-----------------------------------------------------------------------------
(***************************************************************************)
(* The guest.  It initialises the header only when the magic is missing,   *)
(* so a restarted guest goes on with the indices it finds.                 *)
(***************************************************************************)
GuestInit == /\ gpc = "off" /\ ~hdr.magic
             /\ hdr' = [hdr EXCEPT !.seq = 0, !.front = 0, !.reading = Invalid]
             /\ gpc' = "magic"
             /\ UNCHANGED <<buf, gfront, back, gtodo, captures, hostVars, crashes, pubs>>

GuestMagic == /\ gpc = "magic"
              /\ hdr' = [hdr EXCEPT !.magic = TRUE]
              /\ gpc' = "front"
              /\ UNCHANGED <<buf, gfront, back, gtodo, captures, hostVars, crashes, pubs>>

GuestAttach == /\ gpc = "off" /\ hdr.magic
               /\ gpc' = "front"
               /\ UNCHANGED <<hdr, buf, gfront, back, gtodo, captures, hostVars, crashes, pubs>>

GuestReadFront == /\ gpc = "front"
                  /\ gfront' = hdr.front
                  /\ gpc' = "pick"
                  /\ UNCHANGED <<hdr, buf, back, gtodo, captures, hostVars, crashes, pubs>>

CandidatesIgnoringReader == Buffers \ {gfront}

Candidates == Buffers \ {gfront, hdr.reading}

(* The lowest buffer that is neither front nor being read; none: sleep and *)
(* start over.  A capture that fails has written nothing.                  *)
GuestPick == /\ gpc = "pick"
             /\ IF Candidates = {}
                THEN gpc' = "front" /\ UNCHANGED <<back, gtodo, captures>>
                ELSE /\ captures < MaxFrames
                     /\ gpc' = "fill"
                     /\ \E b \in Candidates : /\ \A c \in Candidates : b <= c
                                              /\ back' = b
                     /\ gtodo' = Rows
                     /\ captures' = captures + 1
             /\ UNCHANGED <<hdr, buf, gfront, hostVars, crashes, pubs>>

CaptureFails == /\ gpc = "fill" /\ gtodo = Rows
                /\ gpc' = "front" /\ gtodo' = {}
                /\ UNCHANGED <<hdr, buf, gfront, back, captures, hostVars, crashes, pubs>>

GuestRow == /\ gpc = "fill"
            /\ \E r \in gtodo : /\ buf' = [buf EXCEPT ![back][r] = captures]
                                /\ gtodo' = gtodo \ {r}
            /\ UNCHANGED <<hdr, gpc, gfront, back, captures, hostVars, crashes, pubs>>

GuestSeqEarly == /\ gpc = "fill" /\ Cardinality(gtodo) <= 1
                 /\ hdr' = [hdr EXCEPT !.seq = (@ + 1) % SeqMod]
                 /\ gpc' = "flip"
                 /\ UNCHANGED <<buf, gfront, back, gtodo, captures, hostVars, crashes, pubs>>

GuestSeq == /\ gpc = "fill" /\ gtodo = {}
            /\ hdr' = [hdr EXCEPT !.seq = (@ + 1) % SeqMod]
            /\ gpc' = "flip"
            /\ UNCHANGED <<buf, gfront, back, gtodo, captures, hostVars, crashes, pubs>>

(* The notification that follows reaches nobody: the host polls. *)
GuestFlip == /\ gpc = "flip"
             /\ hdr' = [hdr EXCEPT !.front = back]
             /\ pubs' = Append(pubs, captures)
             /\ gpc' = "front"
             /\ UNCHANGED <<buf, gfront, back, gtodo, captures, hostVars, crashes>>

(* SIGINT or SIGTERM, noticed at the top of the loop. *)
GuestStop == /\ gpc = "front" /\ crashes.guest < MaxCrashes
             /\ gpc' = "off" /\ crashes' = [crashes EXCEPT !.guest = @ + 1]
             /\ UNCHANGED <<hdr, buf, gfront, back, gtodo, captures, hostVars, pubs>>

GuestCrash == /\ gpc # "off" /\ crashes.guest < MaxCrashes
              /\ gpc' = "off" /\ gtodo' = {}
              /\ crashes' = [crashes EXCEPT !.guest = @ + 1]
              /\ UNCHANGED <<hdr, buf, gfront, back, captures, hostVars, pubs>>

-----------------------------------------------------------------------------
(***************************************************************************)
(* The host.                                                               *)
(***************************************************************************)
HostStart == /\ hpc = "off" /\ hdr.magic
             /\ lastSeq' = Invalid
             /\ hpc' = "poll" /\ win' = Blank
             /\ UNCHANGED <<hdr, buf, guestVars, idx, htodo, posted, inTime, late, crashes, pubs>>

HostPoll == /\ hpc = "poll" /\ hdr.seq # lastSeq
            /\ hpc' = "seq"
            /\ UNCHANGED <<hdr, buf, guestVars, lastSeq, idx, htodo, win, posted, inTime, late, crashes, pubs>>

HostReadSeq == /\ hpc = "seq"
               /\ lastSeq' = hdr.seq
               /\ hpc' = "front"
               /\ UNCHANGED <<hdr, buf, guestVars, idx, htodo, win, posted, inTime, late, crashes, pubs>>

HostReadFront == /\ hpc = "front"
                 /\ idx' = hdr.front
                 /\ hpc' = "claim"
                 /\ UNCHANGED <<hdr, buf, guestVars, lastSeq, htodo, win, posted, inTime, late, crashes, pubs>>

HostClaim == /\ hpc = "claim"
             /\ hdr' = [hdr EXCEPT !.reading = idx]
             /\ inTime' = (hdr.front = idx)
             /\ late' = (late \/ ~inTime')
             /\ htodo' = Rows
             /\ hpc' = "copy"
             /\ UNCHANGED <<buf, guestVars, lastSeq, idx, win, posted, crashes, pubs>>

HostRow == /\ hpc = "copy"
           /\ \E r \in htodo : /\ win' = [win EXCEPT ![r] = buf[idx][r]]
                               /\ htodo' = htodo \ {r}
           /\ UNCHANGED <<hdr, buf, guestVars, hpc, lastSeq, idx, posted, inTime, late, crashes, pubs>>

HostPost == /\ hpc = "copy" /\ htodo = {}
            /\ posted' = win
            /\ hpc' = "release"
            /\ UNCHANGED <<hdr, buf, guestVars, lastSeq, idx, htodo, win, inTime, late, crashes, pubs>>

HostReleaseResync == /\ hpc = "release"
                     /\ hdr' = [hdr EXCEPT !.reading = Invalid]
                     /\ lastSeq' = hdr.seq
                     /\ hpc' = "poll"
                     /\ UNCHANGED <<buf, guestVars, idx, htodo, win, posted, inTime, late, crashes, pubs>>

HostRelease == /\ hpc = "release"
               /\ hdr' = [hdr EXCEPT !.reading = Invalid]
               /\ hpc' = "poll"
               /\ UNCHANGED <<buf, guestVars, lastSeq, idx, htodo, win, posted, inTime, late, crashes, pubs>>

(* A host that dies keeps its claim in the header and its last frame on    *)
(* the display.                                                            *)
HostCrash == /\ hpc # "off" /\ crashes.host < MaxCrashes
             /\ hpc' = "off" /\ htodo' = {}
             /\ crashes' = [crashes EXCEPT !.host = @ + 1]
             /\ UNCHANGED <<hdr, buf, guestVars, lastSeq, idx, win, posted, inTime, late, pubs>>

GuestNext == \/ GuestInit \/ GuestMagic \/ GuestAttach \/ GuestReadFront
             \/ GuestPick \/ CaptureFails \/ GuestRow \/ GuestSeq \/ GuestFlip
             \/ GuestStop \/ GuestCrash
HostSteps == \/ HostPoll \/ HostReadSeq \/ HostReadFront \/ HostClaim
             \/ HostRow \/ HostPost \/ HostRelease
HostNext  == HostStart \/ HostSteps \/ HostCrash

Next == GuestNext \/ HostNext

(* The host's loop never waits for anybody; nothing is assumed of the      *)
(* guest, and nobody promises to restart a program that died.              *)
Spec == Init /\ [][Next]_vars /\ WF_vars(HostSteps)
-----------------------------------------------------------------------------
(***************************************************************************)
(* Properties.                                                             *)
(***************************************************************************)
AtLeast(frame, n) == \A r \in Rows : frame[r] >= n

(* front_index names a complete frame at every moment, namely the capture  *)
(* last published, although the guest writes buffers in place, captures    *)
(* fail, and either program dies anywhere and is started again on the same *)
(* region (fb_guest.c picks its back buffer among the others).             *)
FrontComplete == \A r \in Rows : buf[hdr.front][r] = pubs[Len(pubs)]

(* A frame whose buffer was still the front buffer when the host claimed   *)
(* it is posted whole, however many frames the guest publishes during the  *)
(* copy: host_reading_index keeps the guest off the buffer.                *)
ClaimedFrameWhole == hpc = "release" /\ inTime => Whole(posted)

(* As long as every claim is in time the display never goes back to an     *)
(* older capture in any row, also across restarts of either program.       *)
NeverBackwards == [][~late => \A r \in Rows : posted'[r] >= posted[r]]_posted

(* The host lags by at most one frame for good: once a frame has been      *)
(* published, a running host comes to display the one before it or a newer *)
(* one, even if the guest never publishes again.  (It may pair the new     *)
(* frame_seq with the old front_index, so the newest is not promised.)     *)
LagsByOneAtMost ==
  \A n \in 1 .. MaxFrames :
    (Len(pubs) > n) ~> \/ hpc = "off"
                       \/ Len(pubs) > n /\ AtLeast(posted, pubs[n])
=============================================================================
