---------------------------- MODULE MCProcesses -----------------------------
(***************************************************************************)
(* The process pool, an application that is started again and again, alone *)
(* or in several instances at once, and a signal that reaches it in the    *)
(* middle of its log, checked in one run.  They share no state: a          *)
(* behaviour is one of the part that part names.                           *)
(***************************************************************************)
EXTENDS ProcessPool

CONSTANTS Instances, MaxStarts, Threads, Frame

VARIABLES part,
          conf, apc, apid, m_pid, gapp, m_bRunning, told, holder, pidfile, pids, starts,
          now, m_value, m_mtTime, m_backup_logs, mutex, lpc, stamp, rolling, fd, dir,
          files, written, failed, restarts, sig, interrupted, todo, running

App == INSTANCE AppStart WITH pc <- apc, pid <- apid
Sig == INSTANCE LogSignal WITH pc <- lpc, Kinds <- {"DAY"}, TensPerHour <- 1,
           HoursPerDay <- 1, DEFAULT_BACKUP_LOG_COUNT <- 1, MaxTime <- 2, MaxMessages <- 3

ASSUME AppAssumption == App!AppAssumption /\ Sig!SignalAssumption

appVars == <<conf, apc, apid, m_pid, gapp, m_bRunning, told, holder, pidfile, pids,
             starts>>
sgVars  == <<now, m_value, m_mtTime, m_backup_logs, mutex, lpc, stamp, rolling, fd, dir,
             files, written, failed, restarts, sig, interrupted, todo, running>>

\* One instance of the application alone: the others are never started.
Single    == CHOOSE n \in Instances : TRUE
AloneNext == App!Next /\ \A n \in Instances \ {Single} : apc'[n] = "off"

ProcInit == /\ Init /\ App!Init /\ Sig!Init
            /\ part \in {"pool", "alone", "apps", "signal"}
            /\ part \in {"pool", "signal"} => conf = [k \in DOMAIN conf |-> FALSE]
ProcNext == /\ \/ part = "pool"   /\ Next     /\ UNCHANGED <<appVars, sgVars>>
               \/ part = "alone"  /\ AloneNext /\ UNCHANGED <<ppVars, sgVars>>
               \/ part = "apps"   /\ App!Next /\ UNCHANGED <<ppVars, sgVars>>
               \/ part = "signal" /\ Sig!Next /\ UNCHANGED <<ppVars, appVars>>
            /\ UNCHANGED part

\* Fairness of the parts: the parent calls ManagePool again and again and ends
\* what it began, time passes between its calls, sons promise nothing; a
\* process that starts is scheduled, nobody has to start or to stop it; a thread
\* or a handler that writes to the log goes on.
ProcSpec == /\ ProcInit /\ [][ProcNext]_<<part, ppVars, appVars, sgVars>>
            /\ WF_ppVars(part = "pool" /\ Parent)
            /\ SF_ppVars(part = "pool" /\ Tick)
            /\ \A n \in Instances : WF_appVars(part = "alone" /\ App!Step(n))
            /\ \A t \in Threads : WF_sgVars(part = "signal" /\ Sig!Goes(t))
            /\ WF_sgVars(part = "signal" /\ Sig!Handles)

-----------------------------------------------------------------------------

\* ProcessPool: an index never has two sons, and after the destructor none is
\* left, however sons die, hang or ignore SIGTERM while the parent restarts them.
SonsExact == TypeOK /\ OneSonEach /\ NoneLeft

\* ProcessPool: a son is restarted only if it is gone, or if the last sign of its
\* life is older than MAX_HEAR_TIME at that time.
RestartsJustified == []GoneMeansGone /\ SilentMeansSilent

\* ProcessPool: an index whose son died or hangs gets a new son, if the pool
\* lives on.
Replaced == \A s \in Slots : part = "pool" /\ NoneRuns(s) ~> pc = "down" \/ ~NoneRuns(s)

\* AppStart, one instance: the pid file names the process that runs, and HGetPid
\* never answers the pid of a parent that has exited, daemon or not.
PidsRight == part = "alone" => App!TypeOK /\ App!PidFileNamesIt /\ App!CachedPid

\* AppStart: with the application lock configured, one instance runs at a time,
\* however starts, forks, signals and deaths fall between test and lock.
OneRuns == App!TypeOK /\ App!OneRuns /\ App!CachedPid

\* AppStart, one instance: a stop taken at any point of Init ends it.
StopTaken == part = "alone" => \A n \in Instances : ~m_bRunning[n] ~> ~App!Alive(n)

\* LogSignal: a handler that writes to the log waits for a mutex of its own thread
\* only if the signal came between the mutex and the time that Rollback stores, and
\* every other signal stops or ends the application.
StopLogged == Sig!SignalEnds
=============================================================================
