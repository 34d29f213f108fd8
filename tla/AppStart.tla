------------------------------ MODULE AppStart ------------------------------
(***************************************************************************)
(* An application of the library starting, possibly several times at once: *)
(* HApp::Init and Run (src/src/happ.cpp), the lock that keeps it to one    *)
(* instance (src/src/happlock.cpp), the pid file, and the cached pid that  *)
(* a fork must renew (src/src/process).  Instances share the lock file and *)
(* the pid file; signals and deaths come at any time.                      *)
(***************************************************************************)
EXTENDS Naturals, FiniteSets

CONSTANTS Instances,
          MaxStarts      \* bound: how often instances are started, in all

AppAssumption == MaxStarts \in Nat

VARIABLES conf,          \* CK_log, CK_isdaemon and CK_applock of the config file
          pc, pid,       \* per instance: place in Init and Run, process id
          m_pid,         \* per instance: the pid that HGetPid has cached, or 0
          gapp,          \* per instance: whether the signal handlers know the HApp
          m_bRunning,
          told,          \* per instance: whether SIGTERM was sent to it
          holder,        \* the pid that holds the lock on the lock file, or 0
          pidfile,       \* what the pid file says, or 0
          pids, starts

procVars == <<pid, m_pid, gapp, m_bRunning, told>>
appVars  == <<conf, pc, pid, m_pid, gapp, m_bRunning, told, holder, pidfile, pids, starts>>

Set(f, i, v) == [f EXCEPT ![i] = v]
Goto(i, s)   == pc' = Set(pc, i, s)
Alive(i)     == pc[i] # "off"

Init == /\ conf \in [log : BOOLEAN, daemon : BOOLEAN, applock : BOOLEAN]
        /\ pc = [i \in Instances |-> "off"]
        /\ pid = [i \in Instances |-> 0] /\ m_pid = pid
        /\ gapp = [i \in Instances |-> FALSE] /\ told = gapp
        /\ m_bRunning = [i \in Instances |-> TRUE]
        /\ holder = 0 /\ pidfile = 0 /\ pids = 0 /\ starts = 0

\* A process ends, in whatever way: the kernel drops its lock.
End(i) == /\ pc' = Set(pc, i, "off")
          /\ pid' = Set(pid, i, 0) /\ m_pid' = Set(m_pid, i, 0)
          /\ gapp' = Set(gapp, i, FALSE) /\ told' = Set(told, i, FALSE)
          /\ m_bRunning' = Set(m_bRunning, i, TRUE)
          /\ holder' = IF holder = pid[i] THEN 0 ELSE holder

\* exec, and the constructor of HApp.
Start(i) == /\ ~Alive(i) /\ starts < MaxStarts
            /\ starts' = starts + 1 /\ pids' = pids + 1
            /\ pid' = Set(pid, i, pids + 1)
            /\ Goto(i, "signals")
            /\ UNCHANGED <<conf, m_pid, gapp, m_bRunning, told, holder, pidfile>>

SetupSignal(i) == /\ pc[i] = "signals"
                  /\ Goto(i, "gapp")
                  /\ UNCHANGED <<conf, procVars, holder, pidfile, pids, starts>>

SetGapp(i) == /\ pc[i] = "gapp"
              /\ gapp' = Set(gapp, i, TRUE)
              /\ Goto(i, "log")
              /\ UNCHANGED <<conf, pid, m_pid, m_bRunning, told, holder, pidfile, pids, starts>>

\* PidCache::Get: the pid is asked for once, and kept.
HGetPid(i) == IF m_pid[i] = 0 THEN pid[i] ELSE m_pid[i]

\* HAtFork in the child p of a fork: PidCache::init has registered the one
\* handler there is, if it was ever called; it renews what is cached.
AtForkChild(i, p) == IF m_pid[i] = 0 THEN 0 ELSE p

\* setup_app_dir, setup_config and setup_log: the first message asks for the
\* pid, if there is a log to write it to.
SetupLog(i) == /\ pc[i] = "log"
               /\ m_pid' = Set(m_pid, i, IF conf.log THEN HGetPid(i) ELSE m_pid[i])
               /\ Goto(i, IF conf.daemon THEN "fork1" ELSE "pidfile")
               /\ UNCHANGED <<conf, pid, gapp, m_bRunning, told, holder, pidfile, pids, starts>>

\* Mutant: no handler renews the cached pid in the child.
ForkNoHandler(i) == /\ pc[i] \in {"fork1", "fork2"}
                    /\ Goto(i, IF pc[i] = "fork1" THEN "fork2" ELSE "pidfile")
                    /\ pids' = pids + 1
                    /\ pid' = Set(pid, i, pids + 1)
                    /\ UNCHANGED <<conf, m_pid, gapp, m_bRunning, told, holder, pidfile, starts>>

\* setas_daemon_app, either fork: the parent exits and the child goes on; so
\* does the process itself if fork fails.
Fork(i) == /\ pc[i] \in {"fork1", "fork2"}
           /\ Goto(i, IF pc[i] = "fork1" THEN "fork2" ELSE "pidfile")
           /\ \/ /\ pids' = pids + 1
                 /\ pid' = Set(pid, i, pids + 1)
                 /\ m_pid' = Set(m_pid, i, AtForkChild(i, pids + 1))
              \/ UNCHANGED <<pids, pid, m_pid>>
           /\ UNCHANGED <<conf, gapp, m_bRunning, told, holder, pidfile, starts>>

\* setup_pidfile: the file is opened and made empty.
OutOpen(i) == /\ pc[i] = "pidfile"
              /\ pidfile' = 0
              /\ Goto(i, "pid")
              /\ UNCHANGED <<conf, procVars, holder, pids, starts>>

WriteFromString(i) == /\ pc[i] = "pid"
                      /\ pidfile' = pid[i]
                      /\ Goto(i, IF conf.applock THEN "test" ELSE "run")
                      /\ UNCHANGED <<conf, procVars, holder, pids, starts>>

\* LockApp: F_TEST.  An instance that finds the lock held throws, and ends.
LockTest(i) == /\ pc[i] = "test"
               /\ IF holder = 0 THEN Goto(i, "lock") /\ UNCHANGED <<procVars, holder>>
                  ELSE End(i)
               /\ UNCHANGED <<conf, pidfile, pids, starts>>

\* Mutant: after the test, the lock is taken for granted.
LockAnyway(i) == /\ pc[i] = "lock"
                 /\ holder' = pid[i]
                 /\ Goto(i, "run")
                 /\ UNCHANGED <<conf, procVars, pidfile, pids, starts>>

\* F_LOCK, which waits until the lock is free; a signal does not end the wait,
\* because signal() asks for interrupted calls to be restarted.
Lock(i) == /\ pc[i] = "lock" /\ holder = 0
           /\ holder' = pid[i]
           /\ Goto(i, "run")
           /\ UNCHANGED <<conf, procVars, pidfile, pids, starts>>

\* Mutant: Run is left only by a signal that comes while it runs.
RunNever(i) == /\ pc[i] = "run" /\ ~m_bRunning[i] /\ ~conf.daemon
               /\ End(i)
               /\ UNCHANGED <<conf, pidfile, pids, starts>>

\* Run is left once m_bRunning is false; the destructors drop the lock.
Run(i) == /\ pc[i] = "run" /\ ~m_bRunning[i]
          /\ End(i)
          /\ UNCHANGED <<conf, pidfile, pids, starts>>

\* SIGTERM or SIGINT: it ends a process without handlers; stop_handle stops
\* the application if it knows it.
Signal(i) == /\ Alive(i) /\ ~told[i]
             /\ IF pc[i] = "signals" THEN End(i)
                ELSE /\ told' = Set(told, i, TRUE)
                     /\ m_bRunning' = Set(m_bRunning, i, m_bRunning[i] /\ ~gapp[i])
                     /\ UNCHANGED <<pc, pid, m_pid, gapp, holder>>
             /\ UNCHANGED <<conf, pidfile, pids, starts>>

\* The process is killed, or a step of Init fails and it exits.
Die(i) == /\ Alive(i)
          /\ End(i)
          /\ UNCHANGED <<conf, pidfile, pids, starts>>

Step(i) == \/ SetupSignal(i) \/ SetGapp(i) \/ SetupLog(i) \/ Fork(i) \/ OutOpen(i)
           \/ WriteFromString(i) \/ LockTest(i) \/ Lock(i) \/ Run(i)
Next == \E i \in Instances : Start(i) \/ Step(i) \/ Signal(i) \/ Die(i)

Spec == Init /\ [][Next]_appVars

-----------------------------------------------------------------------------
(* Properties *)

\* Every variable keeps its type: the living have a pid, and no other lock.
TypeOK == /\ pc \in [Instances -> {"off", "signals", "gapp", "log", "fork1", "fork2",
                                   "pidfile", "pid", "test", "lock", "run"}]
          /\ {pid, m_pid} \subseteq [Instances -> 0..pids]
          /\ {gapp, m_bRunning, told} \subseteq [Instances -> BOOLEAN]
          /\ {holder, pidfile} \subseteq 0..pids
          /\ \A i \in Instances : Alive(i) <=> pid[i] # 0

\* With the application lock configured, one instance runs at a time, however
\* starts, forks, signals and deaths of instances fall between test and lock.
OneRuns == conf.applock => Cardinality({i \in Instances : pc[i] = "run"}) <= 1

\* HGetPid never answers the pid of a parent that has exited: what is cached
\* is renewed by both forks of a daemon.
CachedPid == \A i \in Instances : m_pid[i] \in {0, pid[i]}

\* A running application is found through the pid file, daemon or not.
PidFileNamesIt == \A i \in Instances : pc[i] = "run" /\ conf.applock => pidfile = pid[i]
=============================================================================
