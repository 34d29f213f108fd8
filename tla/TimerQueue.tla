----------------------------- MODULE TimerQueue -----------------------------
(***************************************************************************)
(* What DelayQueue promises to the event loop, without its arithmetic:     *)
(* entries wait, become due, and the due ones run one at a time in the     *)
(* order they became due.  Time is anything that makes waiting entries due *)
(* when the queue looks at the clock.                                      *)
(***************************************************************************)
EXTENDS Sequences, SequencesExt

CONSTANTS Tasks, NoTask

VARIABLES waiting,    \* entries whose time is not up
          due,        \* entries whose time is up, in the order they will run
          running     \* the entry whose task runs, or NoTask

tqVars == <<waiting, due, running>>

Scheduled == waiting \cup Range(due)

Init == waiting = {} /\ due = <<>> /\ running = NoTask

\* The queue looks at the clock: some waiting entries are due, in some order.
Expirations == SetToAllKPermutations(waiting)

Synchronize == /\ \E late \in Expirations :
                     due' = due \o late /\ waiting' = waiting \ Range(late)
               /\ UNCHANGED running

\* Adding an entry looks at the clock first; without a delay it is due behind
\* those that are.
AddTo(id, delayed, q, w) ==
    IF delayed THEN due' = q /\ waiting' = w \cup {id}
               ELSE due' = Append(q, id) /\ waiting' = w

Add(id, delayed) ==
    /\ id \notin Scheduled /\ id # running
    /\ \E late \in Expirations :
          AddTo(id, delayed, due \o late, waiting \ Range(late))
    /\ UNCHANGED running

\* Changing the delay of an entry is removing and adding it.
Update(id, delayed) ==
    /\ id \in Scheduled
    /\ \E late \in Expirations :
          /\ id \notin Range(late)
          /\ AddTo(id, delayed, RemoveFirst(due, id) \o late,
                   waiting \ (Range(late) \cup {id}))
    /\ UNCHANGED running

Cancel(id) ==
    /\ id \in Scheduled
    /\ due' = RemoveFirst(due, id)
    /\ waiting' = waiting \ {id}
    /\ UNCHANGED running

Start == /\ running = NoTask /\ due # <<>>
         /\ running' = Head(due)
         /\ due' = Tail(due)
         /\ UNCHANGED waiting

Return == /\ running # NoTask
          /\ running' = NoTask
          /\ UNCHANGED <<waiting, due>>

Next == \/ Synchronize \/ Start \/ Return
        \/ \E id \in Tasks, delayed \in BOOLEAN : Add(id, delayed)
        \/ \E id \in Tasks, delayed \in BOOLEAN : Update(id, delayed)
        \/ \E id \in Tasks : Cancel(id)

Spec == Init /\ [][Next]_tqVars
=============================================================================
