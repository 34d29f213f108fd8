---------------------------- MODULE BlockingQueue ---------------------------
(***************************************************************************)
(* The queue with a mutex and a condition that the library has three       *)
(* times: HSyncBuffer (src/src/hsyncbuffer.{h,cpp}), JobQueue              *)
(* (src/src/utils/summerworkermng.{h,cpp}) and RollFixBuffer::RefQueue     *)
(* (src/src/utils/rollfixedbuffer.{h,cpp}), on HConLock (hmutex.{h,cpp}).  *)
(*                                                                         *)
(* What happens under the mutex is one step; the signal of a push comes    *)
(* after the mutex was released, as a step of its own.                     *)
(*                                                                         *)
(* The proofs at the end are for any number of threads and pushes: the     *)
(* queue keeps the order and its late signal to one thread loses no wakeup.*)
(***************************************************************************)
EXTENDS Integers, Sequences, FiniteSets, FiniteSetTheorems, SequenceTheorems, TLAPS

CONSTANTS Threads, Values,
          MaxPushes   \* bound on the length of a behaviour

ASSUME QueueAssumption == IsFiniteSet(Threads) /\ MaxPushes \in Nat

VARIABLES queue,
          pc,         \* per thread: where it is in an operation
          answer,     \* what HasData returned last, with whether it had data
          (* history *)
          pushed,     \* all values pushed, in order
          taken       \* all values taken, in order

bqVars == <<queue, pc, answer, pushed, taken>>

Pops       == {"pop", "popall"}
SleepsIn(op) == IF op = "pop" THEN "pop_asleep" ELSE "popall_asleep"
WakesIn(s) == IF s = "pop_asleep" THEN "pop" ELSE "popall"
Asleep     == {t \in Threads : pc[t] \in {"pop_asleep", "popall_asleep"}}
Awake      == {t \in Threads : pc[t] \in Pops}
Signalling == {t \in Threads : pc[t] = "signal"}

Init == /\ queue = <<>> /\ pc = [t \in Threads |-> "idle"]
        /\ answer = [said |-> FALSE, had |-> FALSE]
        /\ pushed = <<>> /\ taken = <<>>

Goto(t, s) == pc' = [pc EXCEPT ![t] = s]

\* Mutant: the newest value goes first.
PushFront(t, v) ==
    /\ pc[t] = "idle" /\ Len(pushed) < MaxPushes
    /\ queue' = <<v>> \o queue
    /\ pushed' = Append(pushed, v)
    /\ Goto(t, "signal")
    /\ UNCHANGED <<taken, answer>>

\* The part of PushJob, PushData and Push under the mutex.
Push(t, v) ==
    /\ pc[t] = "idle" /\ Len(pushed) < MaxPushes
    /\ queue' = Append(queue, v)
    /\ pushed' = Append(pushed, v)
    /\ Goto(t, "signal")
    /\ UNCHANGED <<taken, answer>>

\* Mutant: no signal while the queue holds more than the new value.
SignalFirstOnly(t) ==
    /\ pc[t] = "signal"
    /\ \/ /\ Asleep = {} \/ Len(queue) > 1
          /\ Goto(t, "idle")
       \/ /\ Len(queue) <= 1
          /\ \E s \in Asleep : pc' = [pc EXCEPT ![t] = "idle", ![s] = WakesIn(pc[s])]
    /\ UNCHANGED <<queue, answer, pushed, taken>>

\* pthread_cond_signal wakes one thread that sleeps, if there is one.
Signal(t) ==
    /\ pc[t] = "signal"
    /\ \/ Asleep = {} /\ Goto(t, "idle")
       \/ \E s \in Asleep : pc' = [pc EXCEPT ![t] = "idle", ![s] = WakesIn(pc[s])]
    /\ UNCHANGED <<queue, answer, pushed, taken>>

\* PopJob, PopData and Pop, or PopJobs and PopAllData, begin.
Pop(t, op) == /\ pc[t] = "idle" /\ op \in Pops
              /\ Goto(t, op)
              /\ UNCHANGED <<queue, answer, pushed, taken>>

\* The test of the loop, under the mutex: nothing there, so wait.
Wait(t) == /\ t \in Awake /\ queue = <<>>
           /\ Goto(t, SleepsIn(pc[t]))
           /\ UNCHANGED <<queue, answer, pushed, taken>>

\* A wait on a condition may end without a signal.
SpuriousWakeup(t) == /\ t \in Asleep
                     /\ Goto(t, WakesIn(pc[t]))
                     /\ UNCHANGED <<queue, answer, pushed, taken>>

\* Mutant: the last value is not taken.
TakeOneNotLast(t) == /\ pc[t] = "pop" /\ Len(queue) > 1
                     /\ queue' = Tail(queue)
                     /\ taken' = Append(taken, Head(queue))
                     /\ Goto(t, "idle")
                     /\ UNCHANGED <<answer, pushed>>

TakeOne(t) == /\ pc[t] = "pop" /\ queue # <<>>
              /\ queue' = Tail(queue)
              /\ taken' = Append(taken, Head(queue))
              /\ Goto(t, "idle")
              /\ UNCHANGED <<answer, pushed>>

TakeAll(t) == /\ pc[t] = "popall" /\ queue # <<>>
              /\ queue' = <<>>
              /\ taken' = taken \o queue
              /\ Goto(t, "idle")
              /\ UNCHANGED <<answer, pushed>>

\* HasData returns empty().
HasData(t) == /\ pc[t] = "idle"
              /\ answer' = [said |-> queue = <<>>, had |-> queue # <<>>]
              /\ UNCHANGED <<queue, pc, pushed, taken>>

Next == \E t \in Threads :
           \/ \E v \in Values : Push(t, v)
           \/ \E op \in Pops : Pop(t, op)
           \/ Signal(t) \/ Wait(t) \/ SpuriousWakeup(t)
           \/ TakeOne(t) \/ TakeAll(t) \/ HasData(t)

Spec == Init /\ [][Next]_bqVars

\* A thread that can run goes on; operations need not be called.
Fairness == \A t \in Threads : WF_bqVars(Signal(t) \/ Wait(t) \/ TakeOne(t) \/ TakeAll(t))
FairSpec == Spec /\ Fairness

-----------------------------------------------------------------------------
(* Properties *)

\* Every variable keeps its type.
TypeOK == /\ queue \in Seq(Values) /\ pushed \in Seq(Values) /\ taken \in Seq(Values)
          /\ pc \in [Threads -> Pops \cup {"idle", "signal", "pop_asleep", "popall_asleep"}]

\* Values are taken once, in the order in which they were pushed, whichever
\* threads push and take them, one at a time or all at once.
InOrder == pushed = taken \o queue

\* No wakeup is lost, although the signal comes after the mutex is free and
\* wakes one thread only: while a thread sleeps, each value in the queue has a
\* signal still to come or an awake thread that will look for it.
NoLostWakeup ==
    Asleep # {} => Len(queue) <= Cardinality(Signalling) + Cardinality(Awake)

\* A value does not stay in the queue while threads wait for one.
WaitersServed == (queue # <<>> /\ Asleep # {}) ~> (queue = <<>> \/ Asleep = {})

-----------------------------------------------------------------------------
(* Proofs *)

USE QueueAssumption

\* The three parts together are inductive: none needs a strengthening.
IInv == TypeOK /\ InOrder /\ NoLostWakeup

-----------------------------------------------------------------------------
(* The order *)

\* The types and the order hold initially.
LEMMA InitOrder == Init => TypeOK /\ InOrder
  BY DEF Init, TypeOK, InOrder, Pops

\* Types are kept by every step.
LEMMA NextType == TypeOK /\ [Next]_bqVars => TypeOK'
  <1> SUFFICES ASSUME TypeOK, [Next]_bqVars PROVE TypeOK'
    OBVIOUS
  <1> USE DEF TypeOK, Pops, Goto
  <1>1. ASSUME NEW t \in Threads, NEW v \in Values, Push(t, v) PROVE TypeOK'
    BY <1>1 DEF Push
  <1>2. ASSUME NEW t \in Threads, NEW op \in Pops, Pop(t, op) PROVE TypeOK'
    BY <1>2 DEF Pop
  <1>3. ASSUME NEW t \in Threads, Signal(t) PROVE TypeOK'
    BY <1>3 DEF Signal, Asleep, WakesIn
  <1>4. ASSUME NEW t \in Threads, Wait(t) PROVE TypeOK'
    BY <1>4 DEF Wait, Awake, SleepsIn
  <1>5. ASSUME NEW t \in Threads, SpuriousWakeup(t) PROVE TypeOK'
    BY <1>5 DEF SpuriousWakeup, Asleep, WakesIn
  <1>6. ASSUME NEW t \in Threads, TakeOne(t) PROVE TypeOK'
    BY <1>6 DEF TakeOne
  <1>7. ASSUME NEW t \in Threads, TakeAll(t) PROVE TypeOK'
    BY <1>7 DEF TakeAll
  <1>8. ASSUME NEW t \in Threads, HasData(t) PROVE TypeOK'
    BY <1>8 DEF HasData
  <1>9. CASE UNCHANGED bqVars
    BY <1>9 DEF bqVars
  <1> QED
    BY <1>1, <1>2, <1>3, <1>4, <1>5, <1>6, <1>7, <1>8, <1>9 DEF Next

\* So is the order, by what Append, Head and Tail do to a concatenation.
LEMMA NextOrder == TypeOK /\ InOrder /\ [Next]_bqVars => InOrder'
  <1> SUFFICES ASSUME TypeOK, InOrder, [Next]_bqVars PROVE InOrder'
    OBVIOUS
  <1> USE DEF TypeOK, InOrder
  <1>1. ASSUME NEW t \in Threads, NEW v \in Values, Push(t, v) PROVE InOrder'
    <2>1. Append(taken \o queue, v) = (taken \o queue) \o <<v>>
      BY AppendIsConcat, ConcatProperties
    <2>2. taken \o Append(queue, v) = taken \o (queue \o <<v>>)
      BY AppendIsConcat
    <2>3. (taken \o queue) \o <<v>> = taken \o (queue \o <<v>>)
      BY ConcatAssociative
    <2> QED
      BY <1>1, <2>1, <2>2, <2>3 DEF Push
  <1>2. ASSUME NEW t \in Threads, TakeOne(t) PROVE InOrder'
    BY <1>2 DEF TakeOne
  <1>3. ASSUME NEW t \in Threads, TakeAll(t) PROVE InOrder'
    BY <1>3 DEF TakeAll
  <1>4. CASE UNCHANGED <<queue, pushed, taken>>
    BY <1>4
  <1> QED
    BY <1>1, <1>2, <1>3, <1>4 DEF Next, Pop, Signal, Wait, SpuriousWakeup, HasData, bqVars

-----------------------------------------------------------------------------
(* The wakeups *)

\* The sets of threads that NoLostWakeup counts are finite.
LEMMA Counts == /\ IsFiniteSet(Signalling) /\ Cardinality(Signalling) \in Nat
                /\ IsFiniteSet(Awake) /\ Cardinality(Awake) \in Nat
  <1>1. Signalling \in SUBSET Threads /\ Awake \in SUBSET Threads
    BY DEF Signalling, Awake
  <1> QED
    BY <1>1, FS_Subset, FS_CardinalityType

\* A thread that starts to signal, or to look for a value, is counted.
LEMMA OneMore ==
    ASSUME NEW S, NEW T, NEW x, IsFiniteSet(S), x \notin S, T = S \cup {x}
    PROVE  Cardinality(T) = Cardinality(S) + 1
  BY FS_AddElement

\* A thread that has done so is counted no more.
LEMMA OneLess ==
    ASSUME NEW S, NEW T, NEW x, IsFiniteSet(S), x \in S, T = S \ {x}
    PROVE  Cardinality(T) = Cardinality(S) - 1
  BY FS_RemoveElement

\* No thread sleeps initially.
LEMMA InitWakeup == Init => NoLostWakeup
  BY DEF Init, NoLostWakeup, Asleep

\* Every step keeps the balance: a push brings its signal, a signal becomes an
\* awake thread, and an awake thread takes a value or finds none.
LEMMA NextWakeup == TypeOK /\ NoLostWakeup /\ [Next]_bqVars => NoLostWakeup'
  <1> SUFFICES ASSUME TypeOK, NoLostWakeup, [Next]_bqVars PROVE NoLostWakeup'
    OBVIOUS
  <1>0. /\ IsFiniteSet(Signalling) /\ Cardinality(Signalling) \in Nat
        /\ IsFiniteSet(Awake) /\ Cardinality(Awake) \in Nat
    BY Counts
  <1>n. Cardinality(Signalling') \in Nat /\ Cardinality(Awake') \in Nat
    <2>1. Signalling' \in SUBSET Threads /\ Awake' \in SUBSET Threads
      BY DEF Signalling, Awake
    <2> QED
      BY <2>1, FS_Subset, FS_CardinalityType
  <1> USE DEF Pops
  <1>1. ASSUME NEW t \in Threads, NEW v \in Values, Push(t, v) PROVE NoLostWakeup'
    <2>1. Signalling' = Signalling \cup {t} /\ t \notin Signalling
      BY <1>1 DEF Push, Goto, TypeOK, Signalling
    <2>2. Awake' = Awake /\ Asleep' = Asleep
      BY <1>1 DEF Push, Goto, TypeOK, Awake, Asleep
    <2>3. Cardinality(Signalling') = Cardinality(Signalling) + 1
      BY <1>0, <2>1, OneMore
    <2>4. Len(queue') = Len(queue) + 1
      BY <1>1 DEF Push, TypeOK
    <2> QED
      BY <1>0, <2>2, <2>3, <2>4 DEF NoLostWakeup, TypeOK
  <1>2. ASSUME NEW t \in Threads, NEW op \in Pops, Pop(t, op) PROVE NoLostWakeup'
    <2>1. Awake' = Awake \cup {t} /\ t \notin Awake
      BY <1>2 DEF Pop, Goto, TypeOK, Awake
    <2>2. Signalling' = Signalling /\ Asleep' = Asleep
      BY <1>2 DEF Pop, Goto, TypeOK, Signalling, Asleep
    <2>3. Cardinality(Awake') = Cardinality(Awake) + 1
      BY <1>0, <2>1, OneMore
    <2> QED
      BY <1>0, <1>2, <2>2, <2>3 DEF NoLostWakeup, TypeOK, Pop
  <1>3. ASSUME NEW t \in Threads, Signal(t), Asleep = {} PROVE NoLostWakeup'
    <2>1. Asleep' = {}
      BY <1>3 DEF Signal, Goto, TypeOK, Asleep
    <2> QED
      BY <2>1 DEF NoLostWakeup
  <1>4. ASSUME NEW t \in Threads, NEW s \in Asleep, pc[t] = "signal",
               pc' = [pc EXCEPT ![t] = "idle", ![s] = WakesIn(pc[s])], queue' = queue
        PROVE  NoLostWakeup'
    <2>1. s \in Threads /\ s # t /\ WakesIn(pc[s]) \in Pops /\ s \notin Awake
      BY <1>4 DEF Asleep, WakesIn, Awake
    <2>2. Signalling' = Signalling \ {t} /\ t \in Signalling
      <3>1. /\ pc'[t] = "idle" /\ pc'[s] \in Pops
            /\ \A x \in Threads : x # s /\ x # t => pc'[x] = pc[x]
        BY <1>4, <2>1 DEF TypeOK
      <3>2. pc[s] # "signal"
        BY <1>4 DEF Asleep
      <3>3. \A x \in Threads : pc'[x] = "signal" <=> pc[x] = "signal" /\ x # t
        BY <2>1, <3>1, <3>2
      <3> QED
        BY <3>3, <1>4 DEF Signalling
    <2>3. Awake' = Awake \cup {s}
      BY <1>4, <2>1 DEF TypeOK, Awake
    <2>4. /\ Cardinality(Signalling') = Cardinality(Signalling) - 1
          /\ Cardinality(Awake') = Cardinality(Awake) + 1
      BY <1>0, <2>1, <2>2, <2>3, OneLess, OneMore
    <2> QED
      BY <1>0, <1>4, <2>4 DEF NoLostWakeup, TypeOK
  <1>5. ASSUME NEW t \in Threads, Wait(t) PROVE NoLostWakeup'
    <2>1. Len(queue') = 0
      BY <1>5 DEF Wait
    <2> QED
      BY <1>n, <2>1 DEF NoLostWakeup
  <1>6. ASSUME NEW t \in Threads, SpuriousWakeup(t) PROVE NoLostWakeup'
    <2>1. Awake' = Awake \cup {t} /\ t \notin Awake
      BY <1>6 DEF SpuriousWakeup, Goto, WakesIn, TypeOK, Awake, Asleep
    <2>2. Signalling' = Signalling /\ Asleep # {}
      BY <1>6 DEF SpuriousWakeup, Goto, WakesIn, TypeOK, Signalling, Asleep
    <2>3. Cardinality(Awake') = Cardinality(Awake) + 1
      BY <1>0, <2>1, OneMore
    <2> QED
      BY <1>0, <1>6, <2>2, <2>3 DEF NoLostWakeup, TypeOK, SpuriousWakeup
  <1>7. ASSUME NEW t \in Threads, TakeOne(t) PROVE NoLostWakeup'
    <2>1. Awake' = Awake \ {t} /\ t \in Awake
      BY <1>7 DEF TakeOne, Goto, TypeOK, Awake
    <2>2. Signalling' = Signalling /\ Asleep' = Asleep
      BY <1>7 DEF TakeOne, Goto, TypeOK, Signalling, Asleep
    <2>3. Cardinality(Awake') = Cardinality(Awake) - 1
      BY <1>0, <2>1, OneLess
    <2>4. Len(queue') = Len(queue) - 1
      BY <1>7 DEF TakeOne, TypeOK
    <2> QED
      BY <1>0, <2>2, <2>3, <2>4 DEF NoLostWakeup, TypeOK
  <1>8. ASSUME NEW t \in Threads, TakeAll(t) PROVE NoLostWakeup'
    <2>1. Len(queue') = 0
      BY <1>8 DEF TakeAll
    <2> QED
      BY <1>n, <2>1 DEF NoLostWakeup
  <1>9. CASE UNCHANGED <<queue, pc>>
    BY <1>9 DEF NoLostWakeup, Signalling, Awake, Asleep
  <1> QED
    BY <1>1, <1>2, <1>3, <1>4, <1>5, <1>6, <1>7, <1>8, <1>9
       DEF Next, Signal, HasData, bqVars

-----------------------------------------------------------------------------

\* The inductive invariant holds in every reachable state.
THEOREM Inductive == Spec => []IInv
  <1>1. Init => IInv
    BY InitOrder, InitWakeup DEF IInv
  <1>2. IInv /\ [Next]_bqVars => IInv'
    BY NextType, NextOrder, NextWakeup DEF IInv
  <1> QED
    BY <1>1, <1>2, PTL DEF Spec

\* Values are taken once and in the order of the pushes.
THEOREM TakenInOrder == Spec => []InOrder
  BY Inductive, PTL DEF IInv

\* No wakeup is lost by signals sent after the mutex was released.
THEOREM WakeupsKept == Spec => []NoLostWakeup
  BY Inductive, PTL DEF IInv
=============================================================================
