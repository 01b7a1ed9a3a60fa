------------------------------ MODULE RowQueue ------------------------------
(***************************************************************************)
(* One recording of the motor recorder (recorder.c): the reader thread     *)
(* polls blocks of rows from the shared region and pushes every row into a *)
(* lock-free ring; the writer thread pops rows, formats them into a        *)
(* buffer and hands the buffer to fwrite, which keeps rows in the buffer   *)
(* of the stream until that is full or the writer ends.  Both threads run  *)
(* until g_recording is cleared by whoever stops the recording.            *)
(*                                                                         *)
(* A row is the number of its arrival.  The two indices are atomics, with  *)
(* acquire loads and release stores around the plain accesses of a cell:   *)
(* each access of an index or a cell is a step of its own.  A thread's     *)
(* load of its own index is no step.                                       *)
(***************************************************************************)
EXTENDS Naturals, Sequences, FiniteSets

CONSTANTS Size,       \* cells of the ring (2^18 in the code)
          BlockRows,  \* bound: rows returned by one poll
          FlushAt,    \* rows that fill half of the row buffer
          MaxRows     \* bound: rows arriving in a recording

ASSUME SizeAssumption  == Size \in Nat \ {0, 1}
ASSUME BoundAssumption == /\ BlockRows \in Nat \ {0} /\ FlushAt \in Nat \ {0}
                          /\ MaxRows \in Nat

Cell == 0 .. Size - 1
Row  == 1 .. MaxRows

VARIABLES
  recording,  \* g_running && g_recording
  head, tail, \* the ring's indices
  cells,      \* the ring's buffer
  rpc,        \* control state of the reader thread
  left,       \* rows of the last poll not yet pushed
  total,      \* rd->total_rows
  lost,       \* rows counted by rd->dropped
  wpc,        \* control state of the writer thread
  wrow,       \* the row popped
  rowBuf,     \* rows formatted and not yet given to fwrite
  stdio,      \* rows in the buffer of the stream
  file,       \* rows in the CSV file
  fails,      \* a write has failed (no result is looked at)
  popped      \* rows counted by g_rec_rows, oldest first

ringVars   == <<head, tail, cells>>
readerVars == <<rpc, left, total, lost>>
fileVars   == <<rowBuf, stdio, file, fails>>
writerVars == <<wpc, wrow, fileVars, popped>>
vars == <<recording, ringVars, readerVars, writerVars>>

(* queue_alloc clears the ring; both threads have been created. *)
Init == /\ recording = TRUE
        /\ head = 0 /\ tail = 0 /\ cells = [c \in Cell |-> 0]
        /\ rpc = "loop" /\ left = 0 /\ total = 0 /\ lost = {}
        /\ wpc = "loop" /\ wrow = 0 /\ rowBuf = <<>> /\ stdio = <<>>
        /\ file = <<>> /\ fails = FALSE /\ popped = <<>>

(* (i + 1) & mask *)
After(i) == IF i + 1 = Size THEN 0 ELSE i + 1

(* Deviation: no cell is left unused. *)
FullNever(h, t) == FALSE

Full(h, t) == After(h) = t

(* The rows in the ring, oldest first, and where each of them is. *)
Used == IF head >= tail THEN head - tail ELSE (head + Size) - tail
Place(i) == IF tail + i <= Size THEN tail + i - 1 ELSE tail + i - 1 - Size
Pending == [i \in 1 .. Used |-> cells[Place(i)]]

-----------------------------------------------------------------------------
(***************************************************************************)
(* The reader thread.  It looks at the flag only between polls.            *)
(***************************************************************************)
Poll == /\ rpc = "loop" /\ recording
        /\ \E n \in 1 .. BlockRows : /\ total + n <= MaxRows
                                     /\ total' = total + n
                                     /\ left' = n
        /\ rpc' = "push"
        /\ UNCHANGED <<recording, ringVars, lost, writerVars>>

ThisRow == total - left + 1
PushEnds == /\ left' = left - 1
            /\ rpc' = IF left = 1 THEN "loop" ELSE "push"

(* Deviation: a full ring is waited for. *)
PushRefusedWaits == /\ rpc = "push" /\ Full(head, tail)
                    /\ UNCHANGED vars

PushRefused == /\ rpc = "push" /\ Full(head, tail)
               /\ lost' = lost \cup {ThisRow}
               /\ PushEnds
               /\ UNCHANGED <<recording, ringVars, total, writerVars>>

PushAccepted == /\ rpc = "push" /\ ~Full(head, tail)
                /\ rpc' = "store"
                /\ UNCHANGED <<recording, ringVars, left, total, lost, writerVars>>

PushStore == /\ rpc = "store"
             /\ cells' = [cells EXCEPT ![head] = ThisRow]
             /\ rpc' = "publish"
             /\ UNCHANGED <<recording, head, tail, left, total, lost, writerVars>>

PushPublish == /\ rpc = "publish"
               /\ head' = After(head)
               /\ PushEnds
               /\ UNCHANGED <<recording, tail, cells, total, lost, writerVars>>

ReaderEnd == /\ rpc = "loop" /\ ~recording
             /\ rpc' = "done"
             /\ UNCHANGED <<recording, ringVars, left, total, lost, writerVars>>

-----------------------------------------------------------------------------
(***************************************************************************)
(* The writer thread.  It ends as soon as it sees the flag cleared, with   *)
(* whatever is still in the ring.                                          *)
(***************************************************************************)
(* fwrite: any part of what the stream then holds goes to the file, or is  *)
(* lost when the disk is full.                                             *)
Flush(rows) ==
  /\ rowBuf' = <<>>
  /\ LET held == stdio \o rows
     IN  \E n \in 0 .. Len(held) :
           /\ file' = file \o SubSeq(held, 1, n)
           /\ \/ stdio' = SubSeq(held, n + 1, Len(held)) /\ UNCHANGED fails
              \/ n < Len(held) /\ stdio' = <<>> /\ fails' = TRUE

(* fflush, after a last fwrite. *)
FlushAll(rows) ==
  /\ rowBuf' = <<>> /\ stdio' = <<>>
  /\ LET held == stdio \o rows
     IN  \/ file' = file \o held /\ UNCHANGED fails
         \/ \E n \in 0 .. Len(held) - 1 : /\ file' = file \o SubSeq(held, 1, n)
                                         /\ fails' = TRUE

WriterLoop == /\ wpc = "loop" /\ recording
              /\ wpc' = "pop"
              /\ UNCHANGED <<recording, ringVars, readerVars, wrow, fileVars, popped>>

(* Deviation: the row buffer is given away only when it is half full. *)
PopEmptyKeeps == /\ wpc = "pop" /\ head = tail
                 /\ wpc' = "loop"
                 /\ UNCHANGED <<recording, ringVars, readerVars, wrow, fileVars, popped>>

PopEmpty == /\ wpc = "pop" /\ head = tail
            /\ IF rowBuf = <<>> THEN UNCHANGED fileVars ELSE Flush(rowBuf)
            /\ wpc' = "loop"
            /\ UNCHANGED <<recording, ringVars, readerVars, wrow, popped>>

PopLoad == /\ wpc = "pop" /\ head # tail
           /\ wpc' = "read"
           /\ UNCHANGED <<recording, ringVars, readerVars, wrow, fileVars, popped>>

PopRead == /\ wpc = "read"
           /\ wrow' = cells[tail]
           /\ wpc' = "release"
           /\ UNCHANGED <<recording, ringVars, readerVars, fileVars, popped>>

(* row_buf_add and the row count follow the store of the index. *)
PopRelease == /\ wpc = "release"
              /\ tail' = After(tail)
              /\ popped' = Append(popped, wrow)
              /\ LET rows == Append(rowBuf, wrow)
                 IN  IF Len(rows) >= FlushAt THEN Flush(rows)
                     ELSE rowBuf' = rows /\ UNCHANGED <<stdio, file, fails>>
              /\ wpc' = "loop"
              /\ UNCHANGED <<recording, head, cells, readerVars, wrow>>

(* Deviation: fflush alone, the row buffer is forgotten. *)
WriterEndUnflushed == /\ wpc = "loop" /\ ~recording
                      /\ FlushAll(<<>>)
                      /\ wpc' = "done"
                      /\ UNCHANGED <<recording, ringVars, readerVars, wrow, popped>>

WriterEnd == /\ wpc = "loop" /\ ~recording
             /\ FlushAll(rowBuf)
             /\ wpc' = "done"
             /\ UNCHANGED <<recording, ringVars, readerVars, wrow, popped>>

-----------------------------------------------------------------------------
(* stop_recording, or the shutdown of main, clears the flag. *)
Stop == /\ recording
        /\ recording' = FALSE
        /\ UNCHANGED <<ringVars, readerVars, writerVars>>

Reader == Poll \/ PushRefused \/ PushAccepted \/ PushStore \/ PushPublish \/ ReaderEnd
Writer == WriterLoop \/ PopEmpty \/ PopLoad \/ PopRead \/ PopRelease \/ WriterEnd

Next == Reader \/ Writer \/ Stop

(* Both threads loop without waiting for each other; the recording need    *)
(* not be stopped, and rows need not arrive.                               *)
Spec == Init /\ [][Next]_vars /\ WF_vars(Writer)
                              /\ WF_vars(PushRefused \/ PushAccepted \/ PushStore
                                         \/ PushPublish \/ ReaderEnd)

-----------------------------------------------------------------------------
(***************************************************************************)
(* Properties.                                                             *)
(***************************************************************************)
TypeOK == /\ recording \in BOOLEAN /\ fails \in BOOLEAN
          /\ head \in Cell /\ tail \in Cell
          /\ cells \in [Cell -> Row \cup {0}]
          /\ rpc \in {"loop", "push", "store", "publish", "done"}
          /\ total \in 0 .. MaxRows /\ left \in 0 .. total
          /\ rpc \in {"push", "store", "publish"} => left > 0
          /\ lost \subseteq Row
          /\ wpc \in {"loop", "pop", "read", "release", "done"}
          /\ wrow \in Row \cup {0}
          /\ {rowBuf, stdio, file, popped} \subseteq Seq(Row)

(* queue_push and queue_pop, called by one thread each without a lock,     *)
(* implement a bounded first-in first-out queue: no row is overwritten     *)
(* before it was taken, none comes out twice, out of order or half         *)
(* written, and one is refused only when Size - 1 rows are waiting.        *)
Fifo == INSTANCE RowFifo WITH Capacity <- Size - 1, pending <- Pending,
                              taken <- popped, refused <- lost
ImplementsFifo == Fifo!FifoSpec

(* When both threads have ended, the figures that stop_recording publishes *)
(* (rows and drops) fall short of the rows polled by exactly the rows left *)
(* in the ring, which are fewer than its size; and unless a write failed   *)
(* the rows counted are the rows in the file, in order: the last buffer is *)
(* written when the writer ends.                                           *)
StatsMatchFile ==
  rpc = "done" /\ wpc = "done" =>
    /\ total = Len(popped) + Cardinality(lost) + Used
    /\ Used < Size
    /\ ~fails => file = popped

(* While the recording goes on, every row in the ring is given to fwrite   *)
(* within finitely many steps (unless writing fails): the writer does not  *)
(* sit on a row buffer that is not half full.  Nothing brings it from the  *)
(* stream into the file while no more rows arrive.                         *)
In(r, s) == \E i \in DOMAIN s : s[i] = r
RowsReachStream ==
  \A r \in Row : In(r, Pending) ~> (fails \/ ~recording \/ In(r, stdio) \/ In(r, file))

(* A stop returns: once the flag is cleared both threads end, so that the  *)
(* joins in stop_recording do, and nothing is left in a buffer.            *)
StopReturns ==
  ~recording ~> /\ rpc = "done" /\ wpc = "done"
                /\ rowBuf = <<>> /\ stdio = <<>>
=============================================================================
