----------------------------- MODULE DelayQueue -----------------------------
(***************************************************************************)
(* DelayQueue (src/src/detail/scheduler/delayqueue_in.{h,cpp}) with        *)
(* SchedulerBase::ScheduleDelayTask: delayed tasks in a list in which an   *)
(* entry stores the time left after the entry before it.  The list ends    *)
(* with the queue object itself, whose delta starts as ETERNITY.           *)
(*                                                                         *)
(* The wall clock the code reads (gettimeofday) advances with real time    *)
(* and may be set back.  Tasks run inside HandleAlarm and may schedule,    *)
(* change and remove entries themselves.                                   *)
(***************************************************************************)
EXTENDS Timeval, Sequences, FiniteSets, FiniteSetsExt

CONSTANTS Tasks,      \* the entries
          Delays,     \* delays in microseconds that callers ask for
          UllRange,   \* number of values of HULL, the type of that argument
          Eternity,   \* ETERNITY, in seconds
          Sentinel,   \* the queue object as the last entry of its list
          NoTask,
          MaxReal,    \* bound: how long time advances
          MaxAdds,    \* bound: how many times an entry is added
          Backsteps   \* by how much the clock may be set back, each once

TaskAssumption == /\ Sentinel \notin Tasks /\ NoTask \notin Tasks
                  /\ Delays \subseteq Int /\ UllRange \in Nat \ {0}

VARIABLES queue,            \* the list from m_next on, sentinel last
          m_lastSyncTime,
          clock,            \* what gettimeofday returns
          pc,               \* where the loop is: outside, in HandleAlarm, in a task
          running,          \* the task whose handleTimeout runs
          (* history, read by the properties only *)
          real,             \* microseconds that really passed
          back,             \* the set-backs still to come
          lost,             \* by how much the clock was set back so far
          seen,             \* microseconds the queue has accounted for
          adds,             \* how many entries were added
          asked             \* per entry: when it was added, for how long

dqVars == <<queue, m_lastSyncTime, clock, pc, running, real, back, lost, seen, adds,
            asked>>

Entry(id, d) == [id |-> id, delta |-> d]
Ids     == {queue[i].id : i \in 1 .. Len(queue)} \ {Sentinel}
PosOf(id) == CHOOSE i \in 1 .. Len(queue) : queue[i].id = id
Unused  == [at |-> 0, seenAt |-> 0, delay |-> 0, nr |-> 0]

Init == /\ queue = <<Entry(Sentinel, Tv(Eternity, MILLION - 1))>>
        /\ clock = Tv(1, 0) /\ m_lastSyncTime = clock
        /\ pc = "outside" /\ running = NoTask
        /\ real = 0 /\ back = Backsteps /\ lost = 0 /\ seen = 0 /\ adds = 0
        /\ asked = [t \in Tasks |-> Unused]

-----------------------------------------------------------------------------
(* The list. *)

\* A walk along the list takes every delta it passes off the time it was given:
\* what is left of that time at each entry, ...
TimeAt(q, t) ==
    LET at[i \in 1 .. Len(q)] == IF i = 1 THEN t ELSE Minus(at[i - 1], q[i - 1].delta)
    IN  at

\* ... and the entry it stops at, the first whose delta is longer than that.
StopOf(q, t) == Min({i \in 1 .. Len(q) : Lt(TimeAt(q, t)[i], q[i].delta)})

\* The walk at the end of synchronize: entries whose time is up get delta 0.
Elapse(q, t) ==
    LET stop == StopOf(q, t)
        Delta(i) == IF i < stop THEN Zero
                    ELSE IF i = stop THEN Minus(q[i].delta, TimeAt(q, t)[i])
                    ELSE q[i].delta
    IN  [i \in 1 .. Len(q) |-> Entry(q[i].id, Delta(i))]

WentBack == Lt(clock, m_lastSyncTime)
Elapsed  == IF WentBack THEN Zero ELSE Diff(clock, m_lastSyncTime)

\* synchronize: when the clock went back only m_lastSyncTime is reset.
Synchronized == IF WentBack THEN queue ELSE Elapse(queue, Elapsed)

\* AddEntry's walk: behind every entry that is due no later, and the entry
\* after it then waits that much less.
Insert(q, e) ==
    LET stop == StopOf(q, e.delta)
        left == TimeAt(q, e.delta)[stop]
    IN  SubSeq(q, 1, stop - 1)
        \o <<Entry(e.id, left), Entry(q[stop].id, Minus(q[stop].delta, left))>>
        \o SubSeq(q, stop + 1, Len(q))

\* Mutant: RemoveEntry does not hand its delta to the entry after it.
WithoutLosing(q, i) == SubSeq(q, 1, i - 1) \o SubSeq(q, i + 1, Len(q))

\* RemoveEntry: the entry after it waits that much more.
Without(q, i) ==
    SubSeq(q, 1, i - 1)
    \o <<Entry(q[i + 1].id, Plus(q[i + 1].delta, q[i].delta))>>
    \o SubSeq(q, i + 2, Len(q))

\* What synchronize leaves in m_lastSyncTime, and the time it accounts for.
SyncTime == /\ m_lastSyncTime' = clock
            /\ seen' = seen + Micros(Elapsed)

Ask(id, d) ==
    /\ adds < MaxAdds
    /\ adds' = adds + 1
    /\ asked' = [asked EXCEPT ![id] = [at |-> real, delay |-> d, nr |-> adds,
                                       seenAt |-> seen']]

-----------------------------------------------------------------------------
(* Operations.  Callers are the program before and between loop steps, and *)
(* the running task.                                                       *)

CallerMayAct == pc \in {"outside", "task"}

\* The delay as ScheduleDelayTask gets it: an unsigned number, split.
Interval(d) == Split(d % UllRange)

\* ScheduleDelayTask: a new entry, and AddEntry.
ScheduleDelayTask(id, d) ==
    /\ CallerMayAct
    /\ id \notin Ids /\ id # running
    /\ SyncTime
    /\ queue' = Insert(Synchronized, Entry(id, Interval(d)))
    /\ Ask(id, d)
    /\ UNCHANGED <<clock, pc, running, real, back, lost>>

\* UpdateEntry removes the entry, then adds it with its new delay.  An entry
\* whose task runs is about to be deleted: callers leave it alone.
UpdateEntry(id, d) ==
    /\ CallerMayAct
    /\ id \in Ids
    /\ SyncTime
    /\ LET removed == Without(queue, PosOf(id))
       IN queue' = Insert(IF WentBack THEN removed ELSE Elapse(removed, Elapsed),
                          Entry(id, Interval(d)))
    /\ Ask(id, d)
    /\ UNCHANGED <<clock, pc, running, real, back, lost>>

\* RemoveEntry; the caller owns the entry then.
RemoveEntry(id) ==
    /\ CallerMayAct
    /\ id \in Ids
    /\ queue' = Without(queue, PosOf(id))
    /\ UNCHANGED <<m_lastSyncTime, clock, pc, running, real, back, lost, seen, adds,
                   asked>>

\* TimeToNextAlarm: a head that is due needs no synchronize.
TimeToNextAlarm ==
    /\ pc = "outside"
    /\ \/ /\ Eq(Head(queue).delta, Zero)
          /\ UNCHANGED <<queue, m_lastSyncTime, seen>>
       \/ /\ ~Eq(Head(queue).delta, Zero)
          /\ queue' = Synchronized
          /\ SyncTime
    /\ UNCHANGED <<clock, pc, running, real, back, lost, adds, asked>>

HandleAlarm ==
    /\ pc = "outside"
    /\ pc' = "alarm"
    /\ \/ /\ ~Eq(Head(queue).delta, Zero)
          /\ queue' = Synchronized
          /\ SyncTime
       \/ /\ Eq(Head(queue).delta, Zero)
          /\ UNCHANGED <<queue, m_lastSyncTime, seen>>
    /\ UNCHANGED <<clock, running, real, back, lost, adds, asked>>

\* Mutant: of the entries that are due, the last one runs first.
RunTaskLatest ==
    /\ pc = "alarm"
    /\ Eq(Head(queue).delta, Zero)
    /\ LET last == Min({i \in 1 .. Len(queue) : ~Eq(queue[i].delta, Zero)}) - 1
       IN running' = queue[last].id /\ queue' = Without(queue, last)
    /\ pc' = "task"
    /\ UNCHANGED <<m_lastSyncTime, clock, real, back, lost, seen, adds, asked>>

\* One round of HandleAlarm's loop: unlink the head, run it.
RunTask ==
    /\ pc = "alarm"
    /\ Eq(Head(queue).delta, Zero)
    /\ running' = Head(queue).id
    /\ queue' = Without(queue, 1)
    /\ pc' = "task"
    /\ UNCHANGED <<m_lastSyncTime, clock, real, back, lost, seen, adds, asked>>

\* handleTimeout returns; the entry is deleted and the loop goes on.
TaskReturns ==
    /\ pc = "task"
    /\ pc' = "alarm" /\ running' = NoTask
    /\ UNCHANGED <<queue, m_lastSyncTime, clock, real, back, lost, seen, adds, asked>>

AlarmDone ==
    /\ pc = "alarm"
    /\ ~Eq(Head(queue).delta, Zero)
    /\ pc' = "outside"
    /\ UNCHANGED <<queue, m_lastSyncTime, clock, running, real, back, lost, seen,
                   adds, asked>>

-----------------------------------------------------------------------------
(* The clock. *)

Tick == /\ real < MaxReal
        /\ real' = real + 1
        /\ clock' = Plus(clock, Tv(0, 1))
        /\ UNCHANGED <<queue, m_lastSyncTime, pc, running, back, lost, seen, adds,
                       asked>>

SetBack(k) == /\ k \in back
              /\ back' = back \ {k} /\ lost' = lost + k
              /\ clock' = Minus(clock, Split(k))
              /\ UNCHANGED <<queue, m_lastSyncTime, pc, running, real, seen,
                             adds, asked>>

Operation == \/ \E id \in Tasks, d \in Delays : ScheduleDelayTask(id, d)
             \/ \E id \in Tasks, d \in Delays : UpdateEntry(id, d)
             \/ \E id \in Tasks : RemoveEntry(id)

Loop == TimeToNextAlarm \/ HandleAlarm \/ RunTask \/ TaskReturns \/ AlarmDone

Next == \/ Operation \/ Loop
        \/ Tick \/ \E k \in Backsteps : SetBack(k)

Spec == Init /\ [][Next]_dqVars

-----------------------------------------------------------------------------
(* Properties *)

\* Every variable keeps its type, deltas are normalized pairs, and the
\* sentinel stays last.
TypeOK == /\ \A i \in 1 .. Len(queue) :
                /\ queue[i].id \in Tasks \cup {Sentinel}
                /\ queue[i].delta.s \in 0 .. Eternity
                /\ queue[i].delta.u \in 0 .. MILLION - 1
                /\ queue[i].id = Sentinel <=> i = Len(queue)
          /\ Cardinality(Ids) = Len(queue) - 1
          /\ clock.s \in Nat /\ clock.u \in 0 .. MILLION - 1
          /\ pc \in {"outside", "alarm", "task"}
          /\ running \in Tasks \cup {NoTask} /\ running \notin Ids
          /\ running # NoTask <=> pc = "task"

\* The time left for the i-th entry: its delta and all those before it.
Sums(q) == LET sum[i \in 0 .. Len(q)] ==
                 IF i = 0 THEN 0 ELSE sum[i - 1] + Micros(q[i].delta)
           IN  sum
Left(i) == Sums(queue)[i]

\* Refinement mapping: an entry waits as long as there is time left for it.
DueCount == Cardinality({i \in 1 .. Len(queue) : Left(i) = 0})
Timers == INSTANCE TimerQueue WITH
              due <- [i \in 1 .. DueCount |-> queue[i].id],
              waiting <- {queue[i].id : i \in DueCount + 1 .. Len(queue) - 1}

\* The event loop sees the list of differences as waiting and due entries: a
\* task runs once for each time it was added, entries run in the order they
\* became due, an entry that is removed or changed does not run for its old
\* delay, and no operation makes a due entry wait again.
TimersSpec == Timers!Spec

PositiveOrZero(n) == IF n > 0 THEN n ELSE 0

\* The differences are exact: each entry's time left is the delay asked for
\* less the time the queue has seen since, whatever was added, removed,
\* changed or run in between; and the sentinel keeps the rest of eternity, so
\* that no walk passes it.
DeltasExact ==
    \A i \in 1 .. Len(queue) :
        IF i = Len(queue)
        THEN Left(i) = Micros(Tv(Eternity, MILLION - 1)) - seen
        ELSE LET a == asked[queue[i].id]
             IN Left(i) = PositiveOrZero(a.delay - (seen - a.seenAt))

\* Entries are in the order of their time; entries due together run in the
\* order they were added.
DueOrder ==
    \A i, j \in 1 .. Len(queue) - 1 : i < j =>
        LET a == asked[queue[i].id]
            b == asked[queue[j].id]
        IN \/ a.seenAt + a.delay < b.seenAt + b.delay
           \/ a.seenAt + a.delay = b.seenAt + b.delay /\ a.nr < b.nr

\* A task never runs before its delay has really passed, also when the clock
\* is set back while it waits.
NeverEarly == running # NoTask => real - asked[running].at >= asked[running].delay

\* The queue never accounts for time that did not pass, and loses no more of
\* it than the clock was set back.
LateOnlyBySetBack == real - (seen + Micros(Elapsed)) \in 0 .. lost
=============================================================================
