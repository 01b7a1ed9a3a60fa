------------------------------ MODULE RowFifo ------------------------------
(***************************************************************************)
(* What the recorder's two threads expect of the queue between them: rows  *)
(* come out in the order they went in, each once, and a row is refused     *)
(* only when the queue holds as many as it can.                            *)
(***************************************************************************)
EXTENDS Naturals, Sequences

CONSTANTS Capacity,  \* rows the queue can hold (2^18 - 1 in the recorder)
          Row        \* the rows

VARIABLES pending,   \* rows in the queue, oldest first
          taken,     \* rows taken out, oldest first
          refused    \* rows refused

fifoVars == <<pending, taken, refused>>

FifoInit == pending = <<>> /\ taken = <<>> /\ refused = {}

Put(r) == /\ Len(pending) < Capacity
          /\ pending' = Append(pending, r)
          /\ UNCHANGED <<taken, refused>>

Refuse(r) == /\ Len(pending) = Capacity
             /\ refused' = refused \cup {r}
             /\ UNCHANGED <<pending, taken>>

Take == /\ pending # <<>>
        /\ taken' = Append(taken, Head(pending))
        /\ pending' = Tail(pending)
        /\ UNCHANGED refused

FifoNext == (\E r \in Row : Put(r) \/ Refuse(r)) \/ Take

FifoSpec == FifoInit /\ [][FifoNext]_fifoVars
=============================================================================
