--------------------------- MODULE RowQueueProofs ---------------------------
(***************************************************************************)
(* Proofs about the recorder's row queue, for every size of the ring, poll *)
(* and buffer: the lock-free ring implements the bounded FIFO of RowFifo,  *)
(* and the recording's figures are those of its file.                      *)
(***************************************************************************)
EXTENDS RowQueue, SequenceTheorems, FiniteSetTheorems, TLAPS

RingTypes == /\ head \in Cell /\ tail \in Cell
             /\ cells \in [Cell -> Row \cup {0}]
             /\ total \in 0 .. MaxRows /\ left \in 0 .. total
             /\ rpc \in {"push", "store", "publish"} => left > 0

(* Between its test and its store of head the reader has room, and the     *)
(* cell at head is its own.                                                *)
ReaderOwns == /\ rpc \in {"store", "publish"} => ~Full(head, tail)
              /\ rpc = "publish" => cells[head] = ThisRow

(* Between its test and its store of tail the writer has a row, and the    *)
(* cell at tail is its own.                                                *)
WriterOwns == /\ wpc \in {"read", "release"} => head # tail
              /\ wpc = "release" => wrow = cells[tail]

RingInv == RingTypes /\ ReaderOwns /\ WriterOwns
-----------------------------------------------------------------------------
(* Arithmetic of the indices. *)
LEMMA AfterCell == ASSUME NEW i \in Cell PROVE After(i) \in Cell
  BY SizeAssumption DEF After, Cell

LEMMA AfterInjective == ASSUME NEW i \in Cell, NEW j \in Cell, After(i) = After(j) PROVE i = j
  BY SizeAssumption DEF After, Cell

LEMMA RowInRange ==
  ASSUME RingTypes, rpc \in {"push", "store", "publish"} PROVE ThisRow \in Row
  BY BoundAssumption DEF RingTypes, ThisRow, Row

LEMMA InitRing == Init => RingInv
  BY SizeAssumption, BoundAssumption
  DEF Init, RingInv, RingTypes, ReaderOwns, WriterOwns, Cell, Row

LEMMA ReaderRing == ASSUME RingInv, Reader PROVE RingInv'
  <1> USE DEF RingInv, writerVars, fileVars
  <1>1. CASE Poll
    BY <1>1, BoundAssumption DEF Poll, ringVars, RingTypes, ReaderOwns, WriterOwns, Full, After
  <1>2. CASE PushRefused
    BY <1>2, BoundAssumption
    DEF PushRefused, PushEnds, ringVars, RingTypes, ReaderOwns, WriterOwns
  <1>3. CASE PushAccepted
    BY <1>3 DEF PushAccepted, ringVars, RingTypes, ReaderOwns, WriterOwns, Full, After
  <1>4. CASE PushStore
    <2>1. ThisRow \in Row /\ ThisRow' = ThisRow
      BY <1>4, RowInRange DEF PushStore, ThisRow
    <2> QED
      BY <1>4, <2>1 DEF PushStore, RingTypes, ReaderOwns, WriterOwns, Full, After
  <1>5. CASE PushPublish
    <2>1. head' \in Cell /\ head' # tail
      BY <1>5, AfterCell DEF PushPublish, RingTypes, ReaderOwns, Full
    <2> QED
      BY <1>5, <2>1, BoundAssumption DEF PushPublish, PushEnds, RingTypes, ReaderOwns, WriterOwns
  <1>6. CASE ReaderEnd
    BY <1>6 DEF ReaderEnd, ringVars, RingTypes, ReaderOwns, WriterOwns
  <1> QED
    BY <1>1, <1>2, <1>3, <1>4, <1>5, <1>6 DEF Reader

LEMMA WriterRing == ASSUME RingInv, Writer PROVE RingInv'
  <1> USE DEF RingInv, readerVars, ThisRow
  <1>1. CASE PopEmpty
    BY <1>1 DEF PopEmpty, ringVars, RingTypes, ReaderOwns, WriterOwns, Full, After
  <1>2. CASE PopLoad
    BY <1>2 DEF PopLoad, ringVars, RingTypes, ReaderOwns, WriterOwns, Full, After
  <1>3. CASE PopRead
    BY <1>3 DEF PopRead, ringVars, RingTypes, ReaderOwns, WriterOwns, Full, After
  <1>4. CASE PopRelease
    <2>1. tail' = After(tail) /\ tail' \in Cell /\ head # tail
      BY <1>4, AfterCell DEF PopRelease, RingTypes, WriterOwns
    <2>2. After(head) # tail'
      BY <2>1, AfterInjective DEF RingTypes
    <2> QED
      BY <1>4, <2>1, <2>2 DEF PopRelease, RingTypes, ReaderOwns, WriterOwns, Full
  <1>5. CASE WriterLoop \/ WriterEnd
    BY <1>5 DEF WriterLoop, WriterEnd, ringVars, RingTypes, ReaderOwns, WriterOwns, Full, After
  <1> QED
    BY <1>1, <1>2, <1>3, <1>4, <1>5 DEF Writer

LEMMA RingInductive == Spec => []RingInv
  <1>1. RingInv /\ [Next]_vars => RingInv'
    <2> SUFFICES ASSUME RingInv, [Next]_vars PROVE RingInv'
      OBVIOUS
    <2>1. CASE Stop
      BY <2>1 DEF Stop, RingInv, RingTypes, ReaderOwns, WriterOwns, Full, After, ThisRow,
                  ringVars, readerVars, writerVars, fileVars
    <2>2. CASE UNCHANGED vars
      BY <2>2 DEF vars, RingInv, RingTypes, ReaderOwns, WriterOwns, Full, After, ThisRow,
                  ringVars, readerVars, writerVars, fileVars
    <2> QED
      BY <2>1, <2>2, ReaderRing, WriterRing DEF Next
  <1> QED
    BY InitRing, <1>1, PTL DEF Spec
-----------------------------------------------------------------------------
(* The ring as a sequence. *)
LEMMA UsedRange == ASSUME RingTypes PROVE /\ Used \in 0 .. Size - 1
                                          /\ Used = 0 <=> head = tail
                                          /\ Used = Size - 1 <=> Full(head, tail)
  BY SizeAssumption DEF RingTypes, Used, Full, After, Cell

LEMMA PlaceCell == ASSUME RingTypes, NEW i \in 1 .. Size PROVE Place(i) \in Cell
  BY SizeAssumption DEF RingTypes, Place, Cell

LEMMA PlaceUsed ==
  ASSUME RingTypes PROVE /\ Place(1) = tail
                         /\ Place(Used + 1) = head
                         /\ \A i \in 1 .. Used : Place(i) # head
  BY SizeAssumption DEF RingTypes, Place, Used, Cell

LEMMA PendingSeq == ASSUME RingTypes PROVE /\ Pending \in Seq(Row \cup {0})
                                           /\ Len(Pending) = Used
  <1>1. \A i \in 1 .. Used : cells[Place(i)] \in Row \cup {0}
    BY UsedRange, PlaceCell, SizeAssumption DEF RingTypes
  <1> QED
    BY <1>1, UsedRange, SizeAssumption DEF Pending

(* Where a row is does not depend on head. *)
LEMMA PublishAppends ==
  ASSUME RingInv, PushPublish PROVE Pending' = Append(Pending, ThisRow)
  <1> USE DEF RingInv
  <1>1. Used' = Used + 1
    BY SizeAssumption DEF PushPublish, RingTypes, ReaderOwns, Full, After, Used, Cell
  <1>2. \A i : Place(i)' = Place(i)
    BY DEF PushPublish, Place
  <1>3. cells' = cells /\ cells[Place(Used + 1)] = ThisRow
    BY PlaceUsed DEF PushPublish, ReaderOwns
  <1>4. Pending' = [i \in 1 .. Used + 1 |-> cells[Place(i)]]
    BY <1>1, <1>2, <1>3 DEF Pending
  <1> DEFINE R == Row \cup {0}
             new == [i \in 1 .. Used + 1 |-> cells[Place(i)]]
             app == Append(Pending, ThisRow)
  <1>5. ThisRow \in R /\ Pending \in Seq(R) /\ Len(Pending) = Used /\ Used \in Nat
    <2>1. ThisRow \in R
      <3>1. Place(Used + 1) \in Cell
        BY UsedRange, PlaceCell, SizeAssumption
      <3> QED
        BY <1>3, <3>1 DEF RingTypes
    <2> QED
      BY <2>1, PendingSeq, UsedRange, SizeAssumption
  <1>6. \A i \in 1 .. Used : Pending[i] = cells[Place(i)]
    BY DEF Pending
  <1> HIDE DEF R
  <1>7. /\ app \in Seq(R) /\ Len(app) = Used + 1
        /\ \A i \in 1 .. Used : app[i] = Pending[i]
        /\ app[Used + 1] = ThisRow
    BY <1>5, AppendProperties
  <1> HIDE DEF app
  <1>8. \A i \in 1 .. Used + 1 : app[i] = cells[Place(i)]
    BY <1>3, <1>5, <1>6, <1>7
  <1>9. \A i \in 1 .. Used + 1 : app[i] \in R
    BY <1>5, <1>7, ElementOfSeq
  <1>10. new \in Seq(R) /\ Len(new) = Used + 1
    BY <1>5, <1>8, <1>9
  <1>11. new = app
    BY <1>5, <1>7, <1>8, <1>10, SeqEqual
  <1> QED
    BY <1>4, <1>11 DEF app

LEMMA ReleaseTakes ==
  ASSUME RingInv, PopRelease PROVE /\ Pending # <<>> /\ Head(Pending) = wrow
                                   /\ Pending' = Tail(Pending)
  <1> USE DEF RingInv
  <1>1. Used \in 1 .. Size - 1 /\ Used' = Used - 1
    BY SizeAssumption DEF PopRelease, RingTypes, WriterOwns, After, Used, Cell
  <1>2. \A i \in 1 .. Used - 1 : Place(i)' = Place(i + 1)
    BY <1>1, SizeAssumption DEF PopRelease, RingTypes, Place, After, Used, Cell
  <1>3. cells' = cells /\ cells[Place(1)] = wrow
    BY PlaceUsed DEF PopRelease, WriterOwns
  <1>4. Pending' = [i \in 1 .. Used - 1 |-> cells[Place(i + 1)]]
    BY <1>1, <1>2, <1>3 DEF Pending
  <1>5. Pending # <<>> /\ Head(Pending) = wrow
    BY <1>1, <1>3, PendingSeq DEF Pending
  <1> QED
    BY <1>1, <1>4, <1>5, PendingSeq DEF Pending

LEMMA StoreOutside == ASSUME RingInv, PushStore PROVE Pending' = Pending
  <1> USE DEF RingInv
  <1>1. Used' = Used /\ \A i : Place(i)' = Place(i)
    BY DEF PushStore, Used, Place
  <1>2. \A i \in 1 .. Used : cells'[Place(i)] = cells[Place(i)]
    <2> TAKE i \in 1 .. Used
    <2>1. Place(i) \in Cell /\ Place(i) # head
      BY PlaceCell, PlaceUsed, UsedRange, SizeAssumption
    <2> QED
      BY <2>1 DEF PushStore, RingTypes
  <1> QED
    BY <1>1, <1>2 DEF Pending

LEMMA SameRing == ASSUME UNCHANGED ringVars PROVE Pending' = Pending
  BY DEF ringVars, Pending, Used, Place
-----------------------------------------------------------------------------
(* Initially the ring is empty. *)
LEMMA InitFifo == ASSUME Init PROVE Fifo!FifoInit
  <1>1. Pending \in Seq(Row \cup {0}) /\ Len(Pending) = 0
    BY InitRing, PendingSeq DEF RingInv, Init, Used
  <1> QED
    BY <1>1 DEF Init, Fifo!FifoInit

(* Every step of the two threads is a step of the FIFO, or leaves it alone. *)
LEMMA StepFifo == ASSUME RingInv, [Next]_vars PROVE [Fifo!FifoNext]_(Fifo!fifoVars)
  <1> USE DEF RingInv
  <1> DEFINE Same == Pending' = Pending /\ popped' = popped /\ lost' = lost
  <1>0. Same => [Fifo!FifoNext]_(Fifo!fifoVars)
    BY DEF Fifo!fifoVars
  <1>1. CASE PushRefused
    <2>1. Pending' = Pending
      BY <1>1, SameRing DEF PushRefused
    <2>2. Len(Pending) = Size - 1 /\ ThisRow \in Row
      BY <1>1, PendingSeq, UsedRange, RowInRange DEF PushRefused
    <2>3. Fifo!Refuse(ThisRow)
      BY <1>1, <2>1, <2>2 DEF PushRefused, writerVars, fileVars, Fifo!Refuse
    <2> QED
      BY <2>2, <2>3 DEF Fifo!FifoNext
  <1>2. CASE PushPublish
    <2>1. Pending' = Append(Pending, ThisRow) /\ ThisRow \in Row
      BY <1>2, PublishAppends, RowInRange DEF PushPublish
    <2>2. Len(Pending) < Size - 1
      BY <1>2, PendingSeq, UsedRange, SizeAssumption DEF PushPublish, ReaderOwns
    <2>3. Fifo!Put(ThisRow)
      BY <1>2, <2>1, <2>2 DEF PushPublish, writerVars, fileVars, Fifo!Put
    <2> QED
      BY <2>1, <2>3 DEF Fifo!FifoNext
  <1>3. CASE PopRelease
    <2>1. Pending # <<>> /\ Head(Pending) = wrow /\ Pending' = Tail(Pending)
      BY <1>3, ReleaseTakes
    <2>2. Fifo!Take
      BY <1>3, <2>1 DEF PopRelease, readerVars, Fifo!Take
    <2> QED
      BY <2>2 DEF Fifo!FifoNext
  <1>4. CASE PushStore
    BY <1>0, <1>4, StoreOutside DEF PushStore, writerVars, fileVars
  <1>5. CASE Poll \/ PushAccepted \/ ReaderEnd
    BY <1>0, <1>5, SameRing DEF Poll, PushAccepted, ReaderEnd, writerVars, fileVars
  <1>6. CASE WriterLoop \/ PopEmpty \/ PopLoad \/ PopRead \/ WriterEnd
    BY <1>0, <1>6, SameRing DEF WriterLoop, PopEmpty, PopLoad, PopRead, WriterEnd, readerVars
  <1>7. CASE Stop \/ UNCHANGED vars
    BY <1>0, <1>7, SameRing DEF Stop, vars, readerVars, writerVars, fileVars
  <1> QED
    BY <1>1, <1>2, <1>3, <1>4, <1>5, <1>6, <1>7 DEF Next, Reader, Writer

(* queue_push and queue_pop (recorder.c:153-172), each called by one       *)
(* thread and without a lock, implement a bounded first-in first-out queue *)
(* of one row less than the ring has cells.                                *)
THEOREM RefinesFifo == Spec => ImplementsFifo
  <1>1. Init => Fifo!FifoInit
    BY InitFifo
  <1>2. RingInv /\ [Next]_vars => [Fifo!FifoNext]_(Fifo!fifoVars)
    BY StepFifo
  <1> QED
    BY <1>1, <1>2, RingInductive, PTL DEF Spec, ImplementsFifo, Fifo!FifoSpec
-----------------------------------------------------------------------------
(* The figures.  Every row that arrived was popped, refused, is in the     *)
(* ring or is still to be pushed; the refused ones are counted once each.  *)
Counted == /\ lost \subseteq 1 .. total - left /\ IsFiniteSet(lost)
           /\ total - left = Len(popped) + Cardinality(lost) + Used
           /\ rpc \in {"loop", "done"} => left = 0

(* Unless a write failed, a row that was popped is in the file, in the     *)
(* stream or in the row buffer, in order; both buffers are empty once the  *)
(* writer has ended.                                                       *)
Written == /\ ~fails => (file \o stdio) \o rowBuf = popped
           /\ wpc = "done" => rowBuf = <<>> /\ stdio = <<>>

Lists == /\ rowBuf \in Seq(Row \cup {0}) /\ file \in Seq(Row \cup {0})
         /\ popped \in Seq(Row \cup {0}) /\ stdio \in Seq(Row \cup {0})
         /\ fails \in BOOLEAN

StatsInv == Counted /\ Written /\ Lists

LEMMA InitStats == Init => StatsInv
  <1> SUFFICES ASSUME Init PROVE StatsInv
    OBVIOUS
  <1>1. Used = 0 /\ Cardinality(lost) = 0 /\ IsFiniteSet(lost) /\ Len(popped) = 0
    BY FS_EmptySet DEF Init, Used
  <1>2. Counted
    BY <1>1 DEF Init, Counted
  <1>3. Lists
    <2>1. /\ rowBuf \in Seq(Row \cup {0}) /\ file \in Seq(Row \cup {0})
          /\ popped \in Seq(Row \cup {0}) /\ stdio \in Seq(Row \cup {0})
      BY DEF Init
    <2>2. fails \in BOOLEAN
      BY DEF Init
    <2> QED
      BY <2>1, <2>2 DEF Lists
  <1>4. Written
    BY DEF Init, Written
  <1> QED
    BY <1>2, <1>3, <1>4 DEF StatsInv

LEMMA PublishUsed == ASSUME RingInv, PushPublish PROVE Used' = Used + 1
  BY SizeAssumption DEF RingInv, PushPublish, RingTypes, ReaderOwns, Full, After, Used, Cell

LEMMA ReleaseUsed == ASSUME RingInv, PopRelease PROVE Used' = Used - 1
  BY SizeAssumption DEF RingInv, PopRelease, RingTypes, WriterOwns, After, Used, Cell

LEMMA StatsTypes ==
  ASSUME RingInv, StatsInv
  PROVE  /\ total \in Nat /\ left \in Nat /\ left <= total
         /\ Used \in Nat /\ Len(popped) \in Nat /\ Cardinality(lost) \in Nat
  <1>1. total \in Nat /\ left \in Nat /\ left <= total
    BY BoundAssumption DEF RingInv, RingTypes
  <1>2. Used \in Nat
    BY UsedRange, SizeAssumption DEF RingInv
  <1>3. Len(popped) \in Nat /\ Cardinality(lost) \in Nat
    BY FS_CardinalityType, LenProperties DEF StatsInv, Counted, Lists
  <1> QED
    BY <1>1, <1>2, <1>3

LEMMA ReaderStats == ASSUME RingInv, StatsInv, Reader PROVE StatsInv'
  <1>0. /\ total \in Nat /\ left \in Nat /\ left <= total
        /\ Used \in Nat /\ Len(popped) \in Nat /\ Cardinality(lost) \in Nat
    BY StatsTypes
  <1>1. Written' /\ Lists'
    BY DEF Reader, Poll, PushRefused, PushAccepted, PushStore, PushPublish, ReaderEnd,
       writerVars, fileVars, StatsInv, Written, Lists
  <1>2. Counted
    BY DEF StatsInv
  <1>3. CASE Poll
    <2>1. /\ rpc = "loop" /\ rpc' = "push" /\ total' - left' = total /\ left = 0
          /\ UNCHANGED <<head, tail, lost, popped>>
      BY <1>0, <1>2, <1>3, BoundAssumption DEF Poll, Counted, ringVars, writerVars, fileVars
    <2> QED
      BY <1>0, <1>1, <1>2, <2>1 DEF Counted, StatsInv, Used
  <1>4. CASE PushRefused
    <2>1. /\ lost' = lost \cup {ThisRow} /\ left' = left - 1 /\ total' = total /\ left > 0
          /\ rpc' \in {"loop", "push"} /\ (rpc' = "loop" => left = 1)
          /\ UNCHANGED <<head, tail, popped>>
      BY <1>4 DEF PushRefused, PushEnds, RingInv, RingTypes, ringVars, writerVars, fileVars
    <2>2. /\ ThisRow \notin lost /\ ThisRow \in 1 .. total - left'
          /\ total - left' = (total - left) + 1
      BY <1>0, <1>2, <2>1 DEF Counted, ThisRow
    <2>3. IsFiniteSet(lost') /\ Cardinality(lost') = Cardinality(lost) + 1
      BY <1>2, <2>1, <2>2, FS_AddElement DEF Counted
    <2>4. lost' \subseteq 1 .. total' - left'
      BY <1>0, <1>2, <2>1, <2>2 DEF Counted
    <2>5. Used' = Used
      BY <2>1 DEF Used
    <2> QED
      BY <1>0, <1>1, <1>2, <2>1, <2>2, <2>3, <2>4, <2>5 DEF Counted, StatsInv
  <1>5. CASE PushPublish
    <2>1. /\ left' = left - 1 /\ total' = total /\ left > 0
          /\ rpc' \in {"loop", "push"} /\ (rpc' = "loop" => left = 1)
          /\ UNCHANGED <<lost, popped>>
      BY <1>5 DEF PushPublish, PushEnds, RingInv, RingTypes, writerVars, fileVars
    <2>2. Used' = Used + 1
      BY <1>5, PublishUsed
    <2>3. total' - left' = (total - left) + 1
      BY <1>0, <2>1
    <2>4. lost' \subseteq 1 .. total' - left'
      BY <1>0, <1>2, <2>1, <2>3 DEF Counted
    <2> QED
      BY <1>0, <1>1, <1>2, <2>1, <2>2, <2>3, <2>4 DEF Counted, StatsInv
  <1>6. CASE PushAccepted \/ PushStore \/ ReaderEnd
    <2>1. /\ UNCHANGED <<head, tail, left, total, lost, popped>>
          /\ rpc' \in {"loop", "done"} => rpc = "loop"
      BY <1>6 DEF PushAccepted, PushStore, ReaderEnd, ringVars, writerVars, fileVars
    <2> QED
      BY <1>1, <1>2, <2>1 DEF Counted, StatsInv, Used
  <1> QED
    BY <1>3, <1>4, <1>5, <1>6 DEF Reader

(* A sequence cut in two and put together again.                           *)
LEMMA SplitMoves ==
  ASSUME NEW R, NEW f \in Seq(R), NEW s \in Seq(R), NEW n \in 0 .. Len(s)
  PROVE  (f \o SubSeq(s, 1, n)) \o SubSeq(s, n + 1, Len(s)) = f \o s
  <1> DEFINE a == SubSeq(s, 1, n)
             b == SubSeq(s, n + 1, Len(s))
  <1>1. a \in Seq(R) /\ b \in Seq(R)
    BY LenProperties
  <1>2. a \o b = s
    <2>1. /\ 1 \in 1 .. Len(s) + 1 /\ n \in 1 - 1 .. Len(s)
          /\ Len(s) \in n .. Len(s)
      BY LenProperties
    <2>2. a \o b = SubSeq(s, 1, Len(s))
      BY <2>1, ConcatAdjacentSubSeq
    <2> QED
      BY <2>2, SubSeqFull
  <1> HIDE DEF a, b
  <1>3. (f \o a) \o b = f \o (a \o b)
    BY <1>1, ConcatAssociative
  <1> QED
    BY <1>2, <1>3 DEF a, b

(* fwrite moves rows along and changes neither them nor their order.       *)
LEMMA FlushWrites ==
  ASSUME NEW R, file \in Seq(R), stdio \in Seq(R), NEW rows \in Seq(R), fails \in BOOLEAN,
         Flush(rows)
  PROVE  /\ file' \in Seq(R) /\ stdio' \in Seq(R) /\ rowBuf' \in Seq(R) /\ fails' \in BOOLEAN
         /\ ~fails' => ~fails /\ (file' \o stdio') \o rowBuf' = (file \o stdio) \o rows
  <1> DEFINE held == stdio \o rows
  <1>1. held \in Seq(R) /\ Len(held) \in Nat
    BY ConcatProperties, LenProperties
  <1>2. rowBuf' = <<>> /\ rowBuf' \in Seq(R)
    BY DEF Flush
  <1>3. PICK n \in 0 .. Len(held) :
          /\ file' = file \o SubSeq(held, 1, n)
          /\ \/ stdio' = SubSeq(held, n + 1, Len(held)) /\ UNCHANGED fails
             \/ stdio' = <<>> /\ fails' = TRUE
    BY DEF Flush
  <1>4. (file \o stdio) \o rows = file \o held
    BY ConcatAssociative
  <1> HIDE DEF held
  <1>5. SubSeq(held, 1, n) \in Seq(R)
    BY <1>1, <1>3, LenProperties
  <1>6. SubSeq(held, n + 1, Len(held)) \in Seq(R)
    BY <1>1, <1>3, LenProperties
  <1>7. file' \in Seq(R) /\ stdio' \in Seq(R) /\ fails' \in BOOLEAN
    <2>1. file' \in Seq(R)
      BY <1>3, <1>5, ConcatProperties
    <2>2. stdio' \in Seq(R)
      <3>1. <<>> \in Seq(R)
        OBVIOUS
      <3> QED
        BY <1>3, <1>6, <3>1
    <2>3. fails' \in BOOLEAN
      BY <1>3
    <2> QED
      BY <2>1, <2>2, <2>3
  <1>8. ASSUME ~fails' PROVE ~fails /\ (file' \o stdio') \o rowBuf' = file \o held
    <2>1. ~fails /\ stdio' = SubSeq(held, n + 1, Len(held))
      BY <1>3, <1>8
    <2>3. file' \o stdio' = file \o held
      BY <1>1, <1>3, <2>1, SplitMoves
    <2>4. file \o held \in Seq(R)
      BY <1>1, ConcatProperties
    <2> QED
      BY <1>2, <2>1, <2>3, <2>4, ConcatEmptySeq
  <1> QED
    BY <1>2, <1>4, <1>7, <1>8

(* fflush puts everything into the file.                                   *)
LEMMA FlushAllWrites ==
  ASSUME NEW R, file \in Seq(R), stdio \in Seq(R), NEW rows \in Seq(R), fails \in BOOLEAN,
         FlushAll(rows)
  PROVE  /\ file' \in Seq(R) /\ fails' \in BOOLEAN /\ rowBuf' = <<>> /\ stdio' = <<>>
         /\ ~fails' => ~fails /\ (file' \o stdio') \o rowBuf' = (file \o stdio) \o rows
  <1> DEFINE held == stdio \o rows
  <1>1. held \in Seq(R) /\ Len(held) \in Nat
    BY ConcatProperties, LenProperties
  <1>2. rowBuf' = <<>> /\ stdio' = <<>>
    BY DEF FlushAll
  <1>3. (file \o stdio) \o rows = file \o held /\ file \o held \in Seq(R)
    BY <1>1, ConcatAssociative, ConcatProperties
  <1>4. \/ file' = file \o held /\ UNCHANGED fails
        \/ \E n \in 0 .. Len(held) - 1 : file' = file \o SubSeq(held, 1, n) /\ fails' = TRUE
    BY DEF FlushAll
  <1> HIDE DEF held
  <1>5. CASE file' = file \o held /\ UNCHANGED fails
    <2>1. (file' \o stdio') \o rowBuf' = file \o held
      BY <1>2, <1>3, <1>5, ConcatEmptySeq
    <2> QED
      BY <1>2, <1>3, <1>5, <2>1
  <1>6. ASSUME NEW n \in 0 .. Len(held) - 1, file' = file \o SubSeq(held, 1, n), fails' = TRUE
        PROVE  file' \in Seq(R)
    <2>1. SubSeq(held, 1, n) \in Seq(R)
      BY <1>1, <1>6, LenProperties
    <2> QED
      BY <1>6, <2>1, ConcatProperties
  <1> QED
    BY <1>2, <1>4, <1>5, <1>6

LEMMA WriterStats == ASSUME RingInv, StatsInv, Writer PROVE StatsInv'
  <1> DEFINE R == Row \cup {0}
  <1>0. /\ total \in Nat /\ left \in Nat /\ left <= total
        /\ Used \in Nat /\ Len(popped) \in Nat /\ Cardinality(lost) \in Nat
    BY StatsTypes
  <1>1. /\ Counted /\ rowBuf \in Seq(R) /\ file \in Seq(R) /\ popped \in Seq(R)
        /\ fails \in BOOLEAN /\ stdio \in Seq(R)
        /\ ~fails => (file \o stdio) \o rowBuf = popped
    BY DEF StatsInv, Written, Lists
  <1> HIDE DEF R
  <1>2. CASE PopEmpty
    <2>1. /\ UNCHANGED fileVars \/ Flush(rowBuf)
          /\ wpc' = "loop" /\ UNCHANGED <<head, tail, rpc, left, total, lost, popped>>
      BY <1>2 DEF PopEmpty, ringVars, readerVars
    <2>2. Counted'
      BY <1>1, <2>1 DEF Counted, Used
    <2>3. CASE UNCHANGED fileVars
      BY <1>1, <2>1, <2>2, <2>3 DEF fileVars, StatsInv, Written, Lists, R
    <2>4. CASE Flush(rowBuf)
      <3>1. /\ file' \in Seq(R) /\ stdio' \in Seq(R) /\ rowBuf' \in Seq(R) /\ fails' \in BOOLEAN
            /\ ~fails' => ~fails /\ (file' \o stdio') \o rowBuf' = (file \o stdio) \o rowBuf
        BY <1>1, <2>4, FlushWrites
      <3> QED
        BY <1>1, <2>1, <2>2, <3>1 DEF StatsInv, Written, Lists, R
    <2> QED
      BY <2>1, <2>3, <2>4
  <1>3. CASE WriterLoop \/ PopLoad \/ PopRead
    <2>1. /\ UNCHANGED <<head, tail, rpc, left, total, lost, fileVars, popped>>
          /\ wpc' # "done"
      BY <1>3 DEF WriterLoop, PopLoad, PopRead, ringVars, readerVars
    <2>2. Counted'
      BY <1>1, <2>1 DEF Counted, Used
    <2> QED
      BY <1>1, <2>1, <2>2 DEF fileVars, StatsInv, Written, Lists, R
  <1>4. CASE PopRelease
    <2> DEFINE rows == Append(rowBuf, wrow)
    <2>1. /\ popped' = Append(popped, wrow) /\ wpc' = "loop"
          /\ UNCHANGED <<rpc, left, total, lost>>
          /\ \/ Flush(rows)
             \/ rowBuf' = rows /\ UNCHANGED <<stdio, file, fails>>
      BY <1>4 DEF PopRelease, readerVars
    <2>2. wrow \in R
      BY <1>4 DEF PopRelease, RingInv, RingTypes, WriterOwns, R
    <2>3. rows \in Seq(R) /\ popped' \in Seq(R) /\ Len(popped') = Len(popped) + 1
      BY <1>1, <2>1, <2>2, AppendProperties
    <2>4. Counted'
      <3>1. Used' = Used - 1
        BY <1>4, ReleaseUsed
      <3> QED
        BY <1>0, <1>1, <2>1, <2>3, <3>1 DEF Counted
    <2>5. ~fails => (file \o stdio) \o rows = popped'
      <3>1. <<wrow>> \in Seq(R) /\ rows = rowBuf \o <<wrow>> /\ popped' = popped \o <<wrow>>
        BY <1>1, <2>1, <2>2, AppendIsConcat
      <3>2. file \o stdio \in Seq(R)
        BY <1>1, ConcatProperties
      <3> DEFINE before == file \o stdio
                 last == <<wrow>>
      <3>3. (before \o rowBuf) \o last = before \o (rowBuf \o last)
        <4> HIDE DEF before, last
        <4>1. before \in Seq(R) /\ rowBuf \in Seq(R) /\ last \in Seq(R)
          BY <1>1, <3>1, <3>2 DEF before, last
        <4> QED
          BY <4>1, ConcatAssociative
      <3> QED
        BY <1>1, <3>1, <3>3
    <2> HIDE DEF rows
    <2>6. CASE Flush(rows)
      <3>1. /\ file' \in Seq(R) /\ stdio' \in Seq(R) /\ rowBuf' \in Seq(R) /\ fails' \in BOOLEAN
            /\ ~fails' => ~fails /\ (file' \o stdio') \o rowBuf' = (file \o stdio) \o rows
        BY <1>1, <2>3, <2>6, FlushWrites
      <3> QED
        BY <2>1, <2>3, <2>4, <2>5, <3>1 DEF StatsInv, Written, Lists, R
    <2>7. CASE rowBuf' = rows /\ UNCHANGED <<stdio, file, fails>>
      BY <1>1, <2>1, <2>3, <2>4, <2>5, <2>7 DEF StatsInv, Written, Lists, R
    <2> QED
      BY <2>1, <2>6, <2>7
  <1>5. CASE WriterEnd
    <2>1. FlushAll(rowBuf) /\ UNCHANGED <<head, tail, rpc, left, total, lost, popped>>
      BY <1>5 DEF WriterEnd, ringVars, readerVars
    <2>2. Counted'
      BY <1>1, <2>1 DEF Counted, Used
    <2>3. /\ file' \in Seq(R) /\ fails' \in BOOLEAN /\ rowBuf' = <<>> /\ stdio' = <<>>
          /\ ~fails' => ~fails /\ (file' \o stdio') \o rowBuf' = (file \o stdio) \o rowBuf
      BY <1>1, <2>1, FlushAllWrites
    <2>4. rowBuf' \in Seq(R) /\ stdio' \in Seq(R)
      BY <2>3
    <2> QED
      BY <1>1, <2>1, <2>2, <2>3, <2>4 DEF StatsInv, Written, Lists, R
  <1> QED
    BY <1>2, <1>3, <1>4, <1>5 DEF Writer

(* When both threads of a recording have ended, the published figures fall *)
(* short of the rows polled by the rows left in the ring and nothing else, *)
(* and unless a write failed the rows counted are the rows of the CSV      *)
(* file, in order (writer_thread and stop_recording, recorder.c).          *)
THEOREM StatsCorrect == Spec => []StatsMatchFile
  <1>1. RingInv /\ StatsInv /\ [Next]_vars => StatsInv'
    <2> SUFFICES ASSUME RingInv, StatsInv, [Next]_vars PROVE StatsInv'
      OBVIOUS
    <2>1. CASE Stop \/ UNCHANGED vars
      BY <2>1
      DEF Stop, vars, ringVars, readerVars, writerVars, fileVars, StatsInv, Counted, Written,
         Lists, Used
    <2> QED
      BY <2>1, ReaderStats, WriterStats DEF Next
  <1>2. ASSUME RingInv, StatsInv PROVE StatsMatchFile
    <2> SUFFICES ASSUME rpc = "done", wpc = "done"
                 PROVE  /\ total = Len(popped) + Cardinality(lost) + Used
                        /\ Used < Size
                        /\ ~fails => file = popped
      BY DEF StatsMatchFile
    <2>1. total = Len(popped) + Cardinality(lost) + Used
      BY <1>2, StatsTypes DEF StatsInv, Counted
    <2>2. Used < Size
      BY <1>2, UsedRange, SizeAssumption DEF RingInv
    <2>3. ~fails => file = popped
      BY <1>2, ConcatEmptySeq DEF StatsInv, Written, Lists
    <2> QED
      BY <2>1, <2>2, <2>3
  <1> QED
    BY InitStats, RingInductive, <1>1, <1>2, PTL DEF Spec
=============================================================================
