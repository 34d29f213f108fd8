---------------------------- MODULE BoundedFifo ----------------------------
(***************************************************************************)
(* What HSingleFastQueue promises to its one producer and its one          *)
(* consumer: a FIFO of at most Capacity values.  A Put that finds the      *)
(* queue full and a Take that finds it empty change nothing, so they are   *)
(* stuttering steps here.                                                  *)
(***************************************************************************)
EXTENDS Naturals, Sequences

CONSTANTS Capacity,   \* HSingleFastQueue::Capacity()
          Values,     \* what may be stored
          Nothing     \* the consumer has received nothing yet

VARIABLES queue,      \* values published and not yet consumed, oldest first
          out         \* the value the consumer received last

fifoVars == <<queue, out>>

Init == queue = <<>> /\ out = Nothing

\* Push returned true.
Put(v) == /\ Len(queue) < Capacity
          /\ queue' = Append(queue, v)
          /\ UNCHANGED out

\* Get handed out the oldest value.
Take == /\ queue # <<>>
        /\ out' = Head(queue)
        /\ queue' = Tail(queue)

\* popFront dropped the oldest value.
Discard == /\ queue # <<>>
           /\ queue' = Tail(queue)
           /\ UNCHANGED out

\* The queue object is destructed.
Destruct == queue' = <<>> /\ UNCHANGED out

Next == \/ \E v \in Values : Put(v)
        \/ Take
        \/ Discard
        \/ Destruct

Spec == Init /\ [][Next]_fifoVars
=============================================================================
