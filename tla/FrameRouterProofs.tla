------------------------- MODULE FrameRouterProofs -------------------------
(***************************************************************************)
(* Proofs about the frame router, for every number of rows, buffers,       *)
(* frames and restarts of either program: front_index always names a       *)
(* complete frame, a frame claimed in time is displayed whole, and as      *)
(* long as every claim is in time the display never goes back.             *)
(***************************************************************************)
EXTENDS FrameRouter, TLAPS

Header == [magic : BOOLEAN, seq : Nat, front : Buffers, reading : Nat]
Frame  == [Rows -> Nat]

Types == /\ hdr \in Header
         /\ buf \in [Buffers -> Frame]
         /\ gfront \in Buffers /\ back \in Buffers /\ idx \in Buffers
         /\ gtodo \subseteq Rows /\ htodo \subseteq Rows
         /\ captures \in Nat
         /\ win \in Frame /\ posted \in Frame
         /\ inTime \in BOOLEAN
         /\ pubs \in Seq(Nat) /\ pubs # <<>>

(* Only a guest on an initialised region publishes, and only the guest     *)
(* moves front_index: until the magic is there it is 0.                    *)
Initialised == /\ gpc \in {"front", "pick", "fill", "flip"} => hdr.magic
               /\ hpc # "off" => hdr.magic
               /\ ~hdr.magic => hdr.front = 0

(* The guest's copy of front_index is current while it picks a buffer, and *)
(* the buffer it fills is not the front buffer.                            *)
OffFront == /\ gpc = "pick" => gfront = hdr.front
            /\ gpc \in {"fill", "flip"} => back # hdr.front

(* The rows of the back buffer that are done show the current capture. *)
Filled == /\ gpc = "fill" => \A r \in Rows \ gtodo : buf[back][r] = captures
          /\ gpc = "flip" => \A r \in Rows : buf[back][r] = captures

FrontInv == Types /\ Initialised /\ OffFront /\ Filled /\ FrontComplete

(* While the host copies a buffer that it claimed in time, its claim is in *)
(* the header, the guest is off that buffer, and the buffer is whole.      *)
Claimed == hpc \in {"copy", "release"} /\ inTime =>
             /\ hdr.reading = idx
             /\ gpc \in {"fill", "flip"} => back # idx
             /\ Whole(buf[idx])

(* What has been copied is what the buffer still holds. *)
Copied == /\ hpc = "copy" /\ inTime => \A r \in Rows \ htodo : win[r] = buf[idx][r]
          /\ hpc = "release" /\ inTime => Whole(posted)

ClaimInv == Claimed /\ Copied
-----------------------------------------------------------------------------
USE DEF Header, Frame

(* The initial state. *)
LEMMA InitFront == Init => FrontInv
  <1>1. Invalid \in Nat
    BY SeqAssumption DEF Invalid
  <1> QED
    BY <1>1, BuffersAssumption, RowsAssumption
    DEF Init, FrontInv, Types, Initialised, OffFront, Filled, FrontComplete, Blank

(* The frame counter stays a number. *)
LEMMA ModNat == ASSUME NEW n \in Nat PROVE (n + 1) % SeqMod \in Nat
  BY SeqAssumption

LEMMA InvalidNat == Invalid \in Nat
  BY SeqAssumption DEF Invalid

(* Every step of the guest keeps front_index on a complete frame. *)
LEMMA GuestFront == ASSUME FrontInv, GuestNext PROVE FrontInv'
  <1> USE DEF FrontInv, Types
  <1>1. CASE GuestInit
    BY <1>1, InvalidNat, BuffersAssumption
    DEF GuestInit, hostVars, Initialised, OffFront, Filled, FrontComplete
  <1>2. CASE GuestMagic
    BY <1>2 DEF GuestMagic, hostVars, Initialised, OffFront, Filled, FrontComplete
  <1>3. CASE GuestAttach
    BY <1>3 DEF GuestAttach, hostVars, Initialised, OffFront, Filled, FrontComplete
  <1>4. CASE GuestReadFront
    BY <1>4 DEF GuestReadFront, hostVars, Initialised, OffFront, Filled, FrontComplete
  <1>5. CASE GuestPick
    BY <1>5 DEF GuestPick, Candidates, hostVars, Initialised, OffFront, Filled, FrontComplete
  <1>6. CASE CaptureFails
    BY <1>6 DEF CaptureFails, hostVars, Initialised, OffFront, Filled, FrontComplete
  <1>7. CASE GuestRow
    BY <1>7 DEF GuestRow, hostVars, Initialised, OffFront, Filled, FrontComplete
  <1>8. CASE GuestSeq
    BY <1>8, ModNat DEF GuestSeq, hostVars, Initialised, OffFront, Filled, FrontComplete
  <1>9. CASE GuestFlip
    <2>1. pubs' \in Seq(Nat) /\ pubs' # <<>> /\ pubs'[Len(pubs')] = captures
      BY <1>9 DEF GuestFlip
    <2> QED
      BY <1>9, <2>1 DEF GuestFlip, hostVars, Initialised, OffFront, Filled, FrontComplete
  <1>10. CASE GuestStop
    BY <1>10 DEF GuestStop, hostVars, Initialised, OffFront, Filled, FrontComplete
  <1>11. CASE GuestCrash
    BY <1>11 DEF GuestCrash, hostVars, Initialised, OffFront, Filled, FrontComplete
  <1> QED
    BY <1>1, <1>2, <1>3, <1>4, <1>5, <1>6, <1>7, <1>8, <1>9, <1>10, <1>11 DEF GuestNext

(* The host changes nothing that the guest relies on, except its claim. *)
LEMMA HostFront == ASSUME FrontInv, HostNext PROVE FrontInv'
  <1> USE DEF FrontInv, Types
  <1>1. CASE HostStart
    BY <1>1 DEF HostStart, guestVars, Initialised, OffFront, Filled, FrontComplete, Blank
  <1>2. CASE HostPoll
    BY <1>2 DEF HostPoll, guestVars, Initialised, OffFront, Filled, FrontComplete
  <1>3. CASE HostReadSeq
    BY <1>3 DEF HostReadSeq, guestVars, Initialised, OffFront, Filled, FrontComplete
  <1>4. CASE HostReadFront
    BY <1>4 DEF HostReadFront, guestVars, Initialised, OffFront, Filled, FrontComplete
  <1>5. CASE HostClaim
    BY <1>5, BuffersAssumption
    DEF HostClaim, guestVars, Initialised, OffFront, Filled, FrontComplete
  <1>6. CASE HostRow
    BY <1>6 DEF HostRow, guestVars, Initialised, OffFront, Filled, FrontComplete
  <1>7. CASE HostPost
    BY <1>7 DEF HostPost, guestVars, Initialised, OffFront, Filled, FrontComplete
  <1>8. CASE HostRelease
    BY <1>8, InvalidNat DEF HostRelease, guestVars, Initialised, OffFront, Filled, FrontComplete
  <1>9. CASE HostCrash
    BY <1>9 DEF HostCrash, guestVars, Initialised, OffFront, Filled, FrontComplete
  <1> QED
    BY <1>1, <1>2, <1>3, <1>4, <1>5, <1>6, <1>7, <1>8, <1>9 DEF HostNext, HostSteps

LEMMA StutterFront == ASSUME FrontInv, UNCHANGED vars PROVE FrontInv'
  BY DEF FrontInv, Types, Initialised, OffFront, Filled, FrontComplete, vars, guestVars, hostVars

LEMMA FrontInductive == Spec => []FrontInv
  <1>1. FrontInv /\ [Next]_vars => FrontInv'
    BY GuestFront, HostFront, StutterFront DEF Next
  <1> QED
    BY InitFront, <1>1, PTL DEF Spec

(* front_index names a complete frame, the one last published, at every    *)
(* moment and across restarts of guest and host (fb_guest.c:316-352).      *)
THEOREM FrontCompleteCorrect == Spec => []FrontComplete
  BY FrontInductive, PTL DEF FrontInv
-----------------------------------------------------------------------------
LEMMA InitClaim == Init => ClaimInv
  BY DEF Init, ClaimInv, Claimed, Copied

(* No step of the guest touches a buffer claimed in time. *)
LEMMA GuestClaim == ASSUME FrontInv, ClaimInv, GuestNext PROVE ClaimInv'
  <1> USE DEF FrontInv, Types, ClaimInv, Claimed, Copied, hostVars
  <1>1. CASE GuestInit
    BY <1>1 DEF GuestInit, Initialised
  <1>2. CASE GuestMagic
    BY <1>2 DEF GuestMagic
  <1>3. CASE GuestAttach
    BY <1>3 DEF GuestAttach
  <1>4. CASE GuestReadFront
    BY <1>4 DEF GuestReadFront
  <1>5. CASE GuestPick
    BY <1>5 DEF GuestPick, Candidates
  <1>6. CASE CaptureFails
    BY <1>6 DEF CaptureFails
  <1>7. CASE GuestRow
    <2>1. hpc \in {"copy", "release"} /\ inTime => buf'[idx] = buf[idx]
      BY <1>7 DEF GuestRow
    <2> QED
      BY <1>7, <2>1 DEF GuestRow, Whole
  <1>8. CASE GuestSeq
    BY <1>8 DEF GuestSeq
  <1>9. CASE GuestFlip
    BY <1>9 DEF GuestFlip
  <1>10. CASE GuestStop
    BY <1>10 DEF GuestStop
  <1>11. CASE GuestCrash
    BY <1>11 DEF GuestCrash
  <1> QED
    BY <1>1, <1>2, <1>3, <1>4, <1>5, <1>6, <1>7, <1>8, <1>9, <1>10, <1>11 DEF GuestNext

(* A claim in time finds the front buffer, which is complete and which the *)
(* guest is not filling; the copy then sees one frame.                     *)
LEMMA HostClaimed == ASSUME FrontInv, ClaimInv, HostNext PROVE ClaimInv'
  <1> USE DEF FrontInv, Types, ClaimInv, Claimed, Copied, guestVars
  <1>1. CASE HostStart
    BY <1>1 DEF HostStart
  <1>2. CASE HostPoll
    BY <1>2 DEF HostPoll
  <1>3. CASE HostReadSeq
    BY <1>3 DEF HostReadSeq
  <1>4. CASE HostReadFront
    BY <1>4 DEF HostReadFront
  <1>5. CASE HostClaim
    BY <1>5 DEF HostClaim, OffFront, FrontComplete, Whole
  <1>6. CASE HostRow
    BY <1>6 DEF HostRow
  <1>7. CASE HostPost
    <2>1. inTime => Whole(win)
      BY <1>7 DEF HostPost, Whole
    <2> QED
      BY <1>7, <2>1 DEF HostPost
  <1>8. CASE HostRelease
    BY <1>8 DEF HostRelease
  <1>9. CASE HostCrash
    BY <1>9 DEF HostCrash
  <1> QED
    BY <1>1, <1>2, <1>3, <1>4, <1>5, <1>6, <1>7, <1>8, <1>9 DEF HostNext, HostSteps

LEMMA StutterClaim == ASSUME ClaimInv, UNCHANGED vars PROVE ClaimInv'
  BY DEF ClaimInv, Claimed, Copied, Whole, vars, guestVars, hostVars

(* A frame whose buffer was still the front buffer when the host claimed   *)
(* it is displayed whole, however fast the guest is and whoever restarts   *)
(* (fb_host.c:186-194, screen_display_frame).                              *)
THEOREM ClaimedFrameWholeCorrect == Spec => []ClaimedFrameWhole
  <1>1. FrontInv /\ ClaimInv /\ [Next]_vars => ClaimInv'
    BY GuestClaim, HostClaimed, StutterClaim DEF Next
  <1>2. ClaimInv => ClaimedFrameWhole
    BY DEF ClaimInv, Copied, ClaimedFrameWhole
  <1> QED
    BY InitClaim, FrontInductive, <1>1, <1>2, PTL DEF Spec
-----------------------------------------------------------------------------
(* As long as every claim is in time, what is displayed and what is being  *)
(* copied is not newer than the front buffer, and the copy in progress is  *)
(* not older than what is displayed.                                       *)
Newest == pubs[Len(pubs)]

DisplayInv ==
  /\ Newest <= captures
  /\ ~late => /\ hpc \in {"copy", "release"} => inTime
              /\ \A r \in Rows : posted[r] <= Newest
              /\ hpc = "copy" => \A r \in Rows : /\ posted[r] <= buf[idx][r]
                                                 /\ buf[idx][r] <= Newest

LEMMA InitDisplay == Init => DisplayInv
  BY DEF Init, DisplayInv, Newest, Blank

(* The guest only publishes a newer capture, and off the claimed buffer.   *)
LEMMA GuestDisplay == ASSUME FrontInv, ClaimInv, DisplayInv, GuestNext PROVE DisplayInv'
  <1> USE DEF FrontInv, Types, DisplayInv, Newest, hostVars
  <1>0. Newest \in Nat
    BY DEF Newest
  <1>1. CASE GuestRow
    <2>1. hpc = "copy" /\ inTime => buf'[idx] = buf[idx]
      BY <1>1 DEF GuestRow, ClaimInv, Claimed
    <2> QED
      BY <1>1, <2>1 DEF GuestRow
  <1>2. CASE GuestFlip
    <2>1. Newest' = captures /\ captures' = captures
      BY <1>2 DEF GuestFlip
    <2> HIDE DEF Newest
    <2> QED
      BY <1>0, <1>2, <2>1 DEF GuestFlip
  <1>3. CASE GuestPick
    BY <1>0, <1>3 DEF GuestPick
  <1>4. CASE GuestInit \/ GuestMagic \/ GuestAttach \/ GuestReadFront
    BY <1>4 DEF GuestInit, GuestMagic, GuestAttach, GuestReadFront
  <1>5. CASE CaptureFails \/ GuestSeq \/ GuestStop \/ GuestCrash
    BY <1>5 DEF CaptureFails, GuestSeq, GuestStop, GuestCrash
  <1> QED
    BY <1>1, <1>2, <1>3, <1>4, <1>5 DEF GuestNext

(* A frame is displayed as it was claimed: not older than the one before.  *)
LEMMA PostForward ==
  ASSUME FrontInv, ClaimInv, DisplayInv, HostPost, ~late
  PROVE  \A r \in Rows : posted'[r] = buf[idx][r] /\ posted'[r] >= posted[r]
  <1>1. inTime /\ \A r \in Rows : win[r] = buf[idx][r]
    BY DEF HostPost, ClaimInv, Copied, DisplayInv
  <1>2. ASSUME NEW r \in Rows PROVE posted[r] <= buf[idx][r] /\ posted[r] \in Nat /\ buf[idx][r] \in Nat
    BY DEF HostPost, DisplayInv, FrontInv, Types
  <1> QED
    BY <1>1, <1>2 DEF HostPost

LEMMA HostDisplay == ASSUME FrontInv, ClaimInv, DisplayInv, HostNext PROVE DisplayInv'
  <1> USE DEF DisplayInv, Newest, guestVars
  <1>1. CASE HostClaim
    <2>1. /\ ~late' => ~late /\ inTime' /\ hdr.front = idx
          /\ UNCHANGED <<pubs, captures, posted, buf, idx>>
      BY <1>1 DEF HostClaim
    <2>2. Newest \in Nat /\ \A r \in Rows : buf[hdr.front][r] = Newest
      BY DEF Newest, FrontInv, Types, FrontComplete
    <2> QED
      BY <2>1, <2>2
  <1>2. CASE HostPost
    BY <1>2, PostForward DEF HostPost
  <1>3. CASE HostRow
    BY <1>3 DEF HostRow
  <1>4. CASE HostStart \/ HostPoll \/ HostReadSeq \/ HostReadFront
    BY <1>4 DEF HostStart, HostPoll, HostReadSeq, HostReadFront
  <1>5. CASE HostRelease \/ HostCrash
    BY <1>5 DEF HostRelease, HostCrash
  <1> QED
    BY <1>1, <1>2, <1>3, <1>4, <1>5 DEF HostNext, HostSteps

LEMMA StutterDisplay == ASSUME DisplayInv, UNCHANGED vars PROVE DisplayInv'
  BY DEF DisplayInv, Newest, vars, guestVars, hostVars

(* As long as every claim of the host is in time, no step puts an older    *)
(* capture on the display, in any row and across restarts of either        *)
(* program (screen_display_frame, fb_host.c:186-194).                      *)
THEOREM NeverBackwardsCorrect == Spec => NeverBackwards
  <1>1. FrontInv /\ ClaimInv /\ [Next]_vars => ClaimInv'
    BY GuestClaim, HostClaimed, StutterClaim DEF Next
  <1>2. FrontInv /\ ClaimInv /\ DisplayInv /\ [Next]_vars => DisplayInv'
    BY GuestDisplay, HostDisplay, StutterDisplay DEF Next
  <1>3. FrontInv /\ ClaimInv /\ DisplayInv /\ [Next]_vars =>
          [~late => \A r \in Rows : posted'[r] >= posted[r]]_posted
    <2> SUFFICES ASSUME FrontInv, ClaimInv, DisplayInv, [Next]_vars, posted' # posted, ~late
                 PROVE  \A r \in Rows : posted'[r] >= posted[r]
      OBVIOUS
    <2>1. HostPost
      BY DEF Next, GuestNext, HostNext, HostSteps, GuestInit, GuestMagic, GuestAttach,
         GuestReadFront, GuestPick, CaptureFails, GuestRow, GuestSeq, GuestFlip, GuestStop,
         GuestCrash, HostStart, HostPoll, HostReadSeq, HostReadFront, HostClaim, HostRow,
         HostRelease, HostCrash, vars, hostVars
    <2> QED
      BY <2>1, PostForward
  <1> QED
    BY InitClaim, InitDisplay, FrontInductive, <1>1, <1>2, <1>3, PTL DEF Spec, NeverBackwards
=============================================================================
