----------------------------- MODULE LogSignal ------------------------------
(***************************************************************************)
(* A signal that reaches the application while its threads write to the    *)
(* log: HApp::stop_handle and HApp::bug_handle (src/src/happ.cpp) over     *)
(* LogFile.  The handlers write to the log themselves, in the thread the   *)
(* signal interrupts: Frame is that call.  It writes like a thread, and    *)
(* the one below it stands still until it returns.                         *)
(***************************************************************************)
EXTENDS Naturals, FiniteSets

CONSTANTS Threads, Frame, Kinds, TensPerHour, HoursPerDay, DEFAULT_BACKUP_LOG_COUNT,
          MaxTime, MaxMessages

VARIABLES now, m_value, m_mtTime, m_backup_logs, mutex, pc, stamp, rolling, fd, dir,
          files, written, failed, restarts,   \* of the log
          sig,           \* the handler that was called: "stop", "bug"
          interrupted,   \* the thread it runs in
          todo,          \* messages it has not begun
          running        \* m_bRunning of gapp; a process that has exited is "exited"

Log == INSTANCE LogFile WITH Threads <- Threads \cup {Frame}, Delays <- FALSE,
                             OpenFails <- TRUE, MaxRestarts <- 0

SignalAssumption == Log!LogAssumption /\ Frame \notin Threads

logVars == <<now, m_value, m_mtTime, m_backup_logs, mutex, pc, stamp, rolling, fd, dir,
             files, written, failed, restarts>>
sgVars  == <<logVars, sig, interrupted, todo, running>>
None    == "none"

Init == Log!Init /\ sig = None /\ interrupted = None /\ todo = 0 /\ running = "yes"

\* A thread writes to the log, unless a handler runs in it.
Thread(t) == /\ t # interrupted /\ running # "exited"
             /\ Log!WriteLog(t) \/ Log!Step(t)
             /\ UNCHANGED <<sig, interrupted, todo, running>>

\* Bound: one signal.  It interrupts a thread wherever it is: SIGTERM and the like,
\* with one message to write, or a fault, with that of Handle_sig and another.
Signal(t, s) == /\ sig = None
                /\ sig' = s /\ interrupted' = t
                /\ todo' = IF s = "stop" THEN 1 ELSE 2
                /\ UNCHANGED <<logVars, running>>

\* The handler makes a message.
Message == /\ interrupted # None /\ pc[Frame] = "idle" /\ todo > 0
           /\ todo' = todo - 1
           /\ stamp' = [stamp EXCEPT ![Frame] = now]
           /\ pc' = [pc EXCEPT ![Frame] = "look"]
           /\ UNCHANGED <<now, m_value, m_mtTime, m_backup_logs, mutex, rolling, fd, dir,
                          files, written, failed, restarts, sig, interrupted, running>>

\* It writes the message as a thread does.
Handler == /\ interrupted # None
           /\ Log!Step(Frame)
           /\ UNCHANGED <<sig, interrupted, todo, running>>

\* stop_handle calls Stop and returns; bug_handle exits.
Return == /\ interrupted # None /\ pc[Frame] = "idle" /\ todo = 0
          /\ running' = IF sig = "stop" THEN "no" ELSE "exited"
          /\ interrupted' = None
          /\ UNCHANGED <<logVars, sig, todo>>

Tick == Log!Tick /\ running # "exited" /\ UNCHANGED <<sig, interrupted, todo, running>>

Next == \/ \E t \in Threads : Thread(t) \/ Signal(t, "stop") \/ Signal(t, "bug")
        \/ Message \/ Handler \/ Return \/ Tick

\* A thread that has begun a message goes on, and so does a handler; nobody has to
\* begin one or to send a signal.
Goes(t)  == /\ t # interrupted /\ running # "exited" /\ Log!Step(t)
            /\ UNCHANGED <<sig, interrupted, todo, running>>
Handles  == Message \/ Handler \/ Return
Fairness == (\A t \in Threads : WF_sgVars(Goes(t))) /\ WF_sgVars(Handles)
Spec == Init /\ [][Next]_sgVars /\ Fairness

-----------------------------------------------------------------------------
(* Properties *)

\* The handler waits for a mutex that the thread below it holds: for ever.
Stuck == interrupted # None /\ pc[Frame] = "lock" /\ mutex = interrupted

\* A signal stops the application or ends it, unless it came between the mutex and
\* the time that Rollback stores: there its handler waits for its own thread, and
\* nothing ends the application but SIGKILL, for no thread is left that could let go
\* the mutex.  Once the time is stored the handler's message needs no roll over, and
\* it is written while the thread below stands in the middle of one, as long as a
\* roll over ends in the period it began in.
SignalEnds == sig # None ~> running # "yes" \/ (Stuck /\ pc[interrupted] = "second")
=============================================================================
