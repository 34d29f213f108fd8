---------------------------- MODULE MCEventLoop -----------------------------
(***************************************************************************)
(* The event loop, and each of its parts on its own: the delay queue, the  *)
(* set of socket handlers, and the arithmetic they use.  They share no     *)
(* state, so each behaviour is one of the part that part names.  The loop  *)
(* is there twice: with tasks that schedule tasks, and calm, with tasks    *)
(* that do not.  A task that schedules tasks which are due at once keeps   *)
(* HandleAlarm, and with it the loop, going for ever.                      *)
(***************************************************************************)
EXTENDS Scheduler

CONSTANTS MILLION, IntRange, UllRange, Delays, Eternity, Sentinel, MaxReal, MaxAdds,
          Backsteps,
          MaxSecs,                   \* up to which times are compared
          SetHandles, SetAddresses   \* sockets and room of the set on its own

VARIABLES part,
          queue, m_lastSyncTime, clock, dpc, drunning, real, back, lost, seen, adds, asked,
          hlist, hdesc, hready, hnext, hhpc, hcurrent, hwatched, hcalls,
          a, b

DQ   == INSTANCE DelayQueue WITH pc <- dpc, running <- drunning
Set  == INSTANCE HandlerSet WITH
            Handles <- SetHandles, Addresses <- SetAddresses,
            list <- hlist, desc <- hdesc, ready <- hready, m_next_ptr <- hnext,
            hpc <- hhpc, current <- hcurrent, watched <- hwatched, calls <- hcalls
TV   == INSTANCE Timeval WITH MILLION <- 3, IntRange <- 8

\* Every pair of normalized times up to MaxSecs seconds.
Times    == [s : 0 .. MaxSecs, u : 0 .. 2]
TimeInit == a = TV!Zero /\ b = TV!Zero
TimePick == a' \in Times /\ b' \in Times

\* The sentinel's delta at the start.
Far == DQ!Micros(DQ!Tv(Eternity, MILLION - 1))

\* Times fit the types the code has for them: delays are values of HULL that end
\* before ETERNITY does, and seconds are values of int.
DelaysFit ==
    /\ Eternity \in Nat /\ MaxReal \in Nat /\ Backsteps \subseteq Nat
    /\ Delays \subseteq 0 .. UllRange - 1
    /\ MaxReal < Far /\ \A d \in Delays : d + MaxReal < Far
    /\ MILLION + MaxReal < MILLION * (IntRange \div 2)

ASSUME PartsAssumption == /\ Set!HandleAssumption
                          /\ DQ!TaskAssumption /\ DQ!TimevalAssumption /\ DelaysFit
                          /\ TV!TimevalAssumption /\ MaxSecs \in Nat

delayVars   == <<queue, m_lastSyncTime, clock, dpc, drunning, real, back, lost, seen, adds, asked>>
handlerVars == <<hlist, hdesc, hready, hnext, hhpc, hcurrent, hwatched, hcalls>>
timeVars    == <<a, b>>

\* A running task of the calm loop schedules nothing.
CalmNext == Next /\ (InTask => UNCHANGED <<waiting, due>>)

LoopInit == /\ part \in {"loop", "calm", "delay", "handlers", "timeval"}
            /\ Init /\ DQ!Init /\ Set!Init /\ TimeInit
LoopNext == /\ \/ part = "loop" /\ Next /\ UNCHANGED <<delayVars, handlerVars, timeVars>>
               \/ part = "calm" /\ CalmNext /\ UNCHANGED <<delayVars, handlerVars, timeVars>>
               \/ part = "delay"    /\ DQ!Next  /\ UNCHANGED <<vars, handlerVars, timeVars>>
               \/ part = "handlers" /\ Set!Next /\ UNCHANGED <<vars, delayVars, timeVars>>
               \/ part = "timeval"  /\ TimePick  /\ UNCHANGED <<vars, delayVars, handlerVars>>
            /\ UNCHANGED part
LoopSpec == LoopInit /\ [][LoopNext]_<<part, vars, delayVars, handlerVars, timeVars>> /\ Fairness

-----------------------------------------------------------------------------

\* DelayQueue: the list of differences is exact and in order, whatever was added,
\* removed, changed or run in between; a task never runs before its delay has
\* really passed, and the queue loses no more time than the clock was set back.
\* Timeval, of which the differences are: comparison, sum, difference and split agree
\* with integers; operator- as long as the difference fits an int.
ListExact == /\ DQ!TypeOK /\ DQ!DeltasExact /\ DQ!DueOrder /\ DQ!NeverEarly /\ DQ!LateOnlyBySetBack
             /\ TV!ArithmeticExact(a, b) /\ TV!DiffExactInRange(a, b)

\* DelayQueue implements TimerQueue, which the loop uses in its place.
TimersSpec == DQ!TimersSpec

\* HandlerSet: the walk never goes to a deleted descriptor, no registration is
\* called twice in a walk, and none that was ready and left alone is skipped,
\* whatever handlers add, change and remove of their own meanwhile.
WalkExact == Set!TypeOK /\ Set!IteratorLive /\ Set!CalledOnce /\ Set!NoneSkipped

\* The time handed to select is right: never one that select refuses, and never
\* a wait while a task is due, whatever callbacks have scheduled meanwhile.
SleepsRight == TypeOK /\ AbortOnlyOnSignal /\ NoSleepWhileDue

\* A loop told to stop ends: it returns, or it has aborted; and a due task runs
\* while the loop goes on.
LoopServes == /\ part = "calm" /\ StopTold ~> Ended
              /\ \A id \in Tasks : part = "calm" /\ DueNow(id) ~> id = running \/ Ended
=============================================================================
