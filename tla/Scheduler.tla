----------------------------- MODULE Scheduler -----------------------------
(***************************************************************************)
(* HSingleScheduler and SchedulerBase (src/src/hscheduler.{h,cpp},         *)
(* src/src/detail/scheduler/scheduler_in.{h,cpp}): the event loop.  One    *)
(* step waits in select until a descriptor is ready or the next delayed    *)
(* task is due, calls the handlers of ready descriptors, then all          *)
(* triggers, then the due tasks.  StopLoop may come from another thread.   *)
(*                                                                         *)
(* The delayed tasks are TimerQueue, which DelayQueue implements.          *)
(***************************************************************************)
EXTENDS Integers, Sequences, SequencesExt

CONSTANTS Tasks, NoTask,
          Handles, Events, Addresses, End, RemoveOthers,
          max_trigger_count, Procs, Empty,
          Signals         \* whether a signal may interrupt select

VARIABLES waiting, due, running,
          list, desc, ready, m_next_ptr, hpc, current, watched, calls,
          m_triggers, next, inTrigger, kept, called,
          m_quit,     \* the flag StopLoop sets
          step,       \* where DoEventLoop is
          timeout,    \* select's timeout, in classes
          interrupted \* history: a signal arrived in select

tqVars == <<waiting, due, running>>
hsVars == <<list, desc, ready, m_next_ptr, hpc, current, watched, calls>>
tsVars == <<m_triggers, next, inTrigger, kept, called>>
vars   == <<tqVars, hsVars, tsVars, m_quit, step, timeout, interrupted>>

TQ == INSTANCE TimerQueue
HS == INSTANCE HandlerSet
TS == INSTANCE TriggerSet

ASSUME SchedulerAssumption ==
    /\ max_trigger_count \in Nat \ {0} /\ Empty \notin Procs
    /\ HS!HandleAssumption /\ Signals \in BOOLEAN

Init == /\ TQ!Init /\ HS!Init /\ TS!Init
        /\ m_quit = FALSE /\ step = "before" /\ timeout = "zero"
        /\ interrupted = FALSE

-----------------------------------------------------------------------------
(* What callers do: the program before the loop, then only handlers,       *)
(* triggers and tasks, which the loop calls one at a time.                 *)

InHandler == hpc = "calling"
InTask    == running # NoTask
InCallback == InHandler \/ inTrigger \/ InTask
MayCall   == step = "before" \/ InCallback

\* The loop's own variables, which calls leave alone.
LoopSame == UNCHANGED <<m_quit, step, timeout, interrupted>>

ScheduleDelayTask(id, delayed) ==
    /\ MayCall
    /\ TQ!Add(id, delayed)
    /\ LoopSame /\ UNCHANGED <<hsVars, tsVars>>

SetBackgroundHanding(h, flags) ==
    /\ MayCall
    /\ HS!AssignHandler(h, flags)
    /\ LoopSame /\ UNCHANGED <<tqVars, tsVars>>

RemoveBackgroundHandling(h) ==
    /\ MayCall
    /\ InHandler => HS!MayRemove(h)
    /\ HS!RemoveHandler(h)
    /\ LoopSame /\ UNCHANGED <<tqVars, tsVars>>

CreateTrigger(f) ==
    /\ MayCall
    /\ TS!CreateTrigger(f)
    /\ LoopSame /\ UNCHANGED <<tqVars, hsVars>>

RemoveTrigger(tid) ==
    /\ MayCall
    /\ TS!RemoveTrigger(tid)
    /\ LoopSame /\ UNCHANGED <<tqVars, hsVars>>

\* StopLoop, by any thread, at any time.
StopLoop == /\ ~m_quit
            /\ m_quit' = TRUE
            /\ UNCHANGED <<tqVars, hsVars, tsVars, step, timeout, interrupted>>

-----------------------------------------------------------------------------
(* DoEventLoop and singleStep. *)

Goto(s) == step' = s

DoEventLoop == /\ step = "before"
               /\ Goto("check")
               /\ UNCHANGED <<tqVars, hsVars, tsVars, m_quit, timeout, interrupted>>

LoopEnds == /\ step = "check" /\ m_quit
            /\ Goto("done")
            /\ UNCHANGED <<tqVars, hsVars, tsVars, m_quit, timeout, interrupted>>

\* What is left until an entry that waits, cut down to MAX_TV_SEC; with no
\* entry that is ETERNITY.
Timeouts == {"finite", "capped"}

\* Mutant: the common case is taken for an entry that waits.
TimeToNextAlarmAlwaysWaits ==
    /\ step = "check" /\ ~m_quit
    /\ TQ!Synchronize
    /\ timeout' \in {"finite", "capped"}
    /\ Goto("select")
    /\ UNCHANGED <<hsVars, tsVars, m_quit, interrupted>>

\* A due head needs no look at the clock; otherwise synchronize may make some
\* entries due.
TimeToNextAlarm ==
    /\ step = "check" /\ ~m_quit
    /\ \/ /\ due # <<>>
          /\ timeout' = "zero"
          /\ UNCHANGED tqVars
       \/ /\ due = <<>>
          /\ TQ!Synchronize
          /\ \/ due' # <<>> /\ timeout' = "zero"
             \/ due' = <<>> /\ timeout' \in Timeouts
    /\ Goto("select")
    /\ UNCHANGED <<hsVars, tsVars, m_quit, interrupted>>

\* select returns a positive number: CallHandlers.
SelectReady(r) ==
    /\ step = "select"
    /\ HS!CallHandlers(r)
    /\ Goto("handlers")
    /\ UNCHANGED <<tqVars, tsVars, m_quit, timeout, interrupted>>

SelectTimesOut ==
    /\ step = "select" /\ timeout # "uncapped"
    /\ TS!TriggeUpAll
    /\ Goto("triggers")
    /\ UNCHANGED <<tqVars, hsVars, m_quit, timeout, interrupted>>

\* select fails when a signal arrives, and for a very large timeout.
SelectFails ==
    /\ step = "select"
    /\ Signals \/ timeout = "uncapped"
    /\ interrupted' = (timeout # "uncapped")
    /\ Goto("aborted")
    /\ UNCHANGED <<tqVars, hsVars, tsVars, m_quit, timeout>>

HandlerStep ==
    /\ step = "handlers"
    /\ HS!WalkNext \/ HS!HandlerReturns
    /\ UNCHANGED <<tqVars, tsVars, m_quit, step, timeout, interrupted>>

\* Mutant: a step that called handlers ends there.
HandlersDoneSkips ==
    /\ step = "handlers"
    /\ HS!WalkEnds
    /\ Goto("check")
    /\ UNCHANGED <<tqVars, tsVars, m_quit, timeout, interrupted>>

HandlersDone ==
    /\ step = "handlers"
    /\ HS!WalkEnds /\ TS!TriggeUpAll
    /\ Goto("triggers")
    /\ UNCHANGED <<tqVars, m_quit, timeout, interrupted>>

TriggerStep ==
    /\ step = "triggers"
    /\ TS!CallTrigger \/ TS!TriggerReturns
    /\ UNCHANGED <<tqVars, hsVars, m_quit, step, timeout, interrupted>>

\* HandleAlarm looks at the clock only when the head is not due.
HandleAlarm ==
    /\ step = "triggers" /\ TS!TriggersDone
    /\ \/ due # <<>> /\ UNCHANGED tqVars
       \/ due = <<>> /\ TQ!Synchronize
    /\ Goto("alarm")
    /\ UNCHANGED <<hsVars, tsVars, m_quit, timeout, interrupted>>

AlarmStep ==
    /\ step = "alarm"
    /\ TQ!Start \/ TQ!Return
    /\ UNCHANGED <<hsVars, tsVars, m_quit, step, timeout, interrupted>>

AlarmDone ==
    /\ step = "alarm" /\ due = <<>> /\ ~InTask
    /\ Goto("check")
    /\ UNCHANGED <<tqVars, hsVars, tsVars, m_quit, timeout, interrupted>>

-----------------------------------------------------------------------------

Calls == \/ \E id \in Tasks, delayed \in BOOLEAN : ScheduleDelayTask(id, delayed)
         \/ \E h \in Handles, f \in SUBSET Events : SetBackgroundHanding(h, f)
         \/ \E h \in Handles : RemoveBackgroundHandling(h)
         \/ \E f \in Procs : CreateTrigger(f)
         \/ \E tid \in 0 .. max_trigger_count : RemoveTrigger(tid)

SelectReturns == SelectTimesOut \/ \E r \in SUBSET HS!Selected : SelectReady(r)

LoopStep == \/ LoopEnds \/ TimeToNextAlarm
            \/ HandlersDone \/ TriggerStep \/ HandleAlarm \/ AlarmDone

Next == \/ Calls \/ StopLoop \/ DoEventLoop
        \/ SelectReturns \/ SelectFails
        \/ HandlerStep \/ LoopStep \/ AlarmStep

Spec == Init /\ [][Next]_vars

\* The loop's thread runs, select returns at its timeout at the latest, and
\* callbacks return.  Signals, stops and calls may never come.
Fairness == /\ WF_vars(LoopStep) /\ WF_vars(HandlerStep) /\ WF_vars(AlarmStep)
            /\ WF_vars(SelectReturns)

-----------------------------------------------------------------------------
(* Properties *)

\* Every variable keeps its type, and each part works only in its part of the
\* step, so that two callbacks never run at once.
TypeOK == /\ HS!TypeOK
          /\ m_triggers \in [0 .. max_trigger_count - 1 -> Procs \cup {Empty}]
          /\ next \in 0 .. max_trigger_count
          /\ step \in {"before", "check", "select", "handlers", "triggers",
                       "alarm", "done", "aborted"}
          /\ hpc # "idle" => step = "handlers"
          /\ inTrigger => step = "triggers"
          /\ InTask => step = "alarm"

\* singleStep aborts the process only for a signal: the cap keeps select from
\* failing ("Very large "tv_sec" values cause select() to fail").
AbortOnlyOnSignal == step = "aborted" => interrupted

\* The loop does not sleep in select while a task is due, whichever callback
\* made it so in the step before.
NoSleepWhileDue == step = "select" /\ due # <<>> => timeout = "zero"

\* At the end of TriggeUpAll every trigger that existed when it began and was
\* not removed since has been called, whatever others created or removed.
TriggersCalled == step = "triggers" /\ TS!TriggersDone => kept \subseteq called

\* For the liveness of the loop (MCEventLoop): it was told to stop, a task is
\* due, it has ended.
StopTold   == m_quit /\ step # "before"
DueNow(id) == id \in Range(due) /\ step # "before"
Ended      == step \in {"done", "aborted"}
=============================================================================
