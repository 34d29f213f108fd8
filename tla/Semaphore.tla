------------------------------ MODULE Semaphore ------------------------------
(***************************************************************************)
(* HSemaphore and SemHolder (src/src/hsemaphore.{h,cpp}, on                *)
(* src/src/internal/ipcbase_in.h): processes that find one System V        *)
(* semaphore by its key and use it as a mutex.  Init creates it or opens   *)
(* the one that is there; it begins at 0, and one process, the leader,     *)
(* sets it to 1 with Setall.  Operations carry SEM_UNDO: the kernel takes  *)
(* back what a process did when it dies.  One system call is one step.     *)
(***************************************************************************)
EXTENDS Integers, FiniteSets

CONSTANTS Procs, Leader,
          MAX_TRIES,       \* 5: looks that Setall takes at sem_otime
          SetOnce,         \* the leader sets the semaphore once, not at every start
          HolderSignals,   \* signals may reach a SemHolder that waits
          MaxDeaths        \* bound on the processes that die

SemaphoreAssumption == /\ Leader \in Procs /\ MAX_TRIES \in Nat /\ MaxDeaths \in Nat
                       /\ SetOnce \in BOOLEAN /\ HolderSignals \in BOOLEAN

VARIABLES exists, semid, semval, otime, undo,   \* the kernel's semaphore
          mpc, inited, tries,            \* per process: place, HasInited, tries
          inside,                        \* per process: in the code it protects
          setret,                        \* what Setall returned to the leader
          setDone, deaths                \* history

semVars == <<exists, semid, semval, otime, undo, mpc, inited, tries, inside, setret, setDone, deaths>>
kernel  == <<exists, semid, semval, otime, undo>>

Init == /\ exists = FALSE /\ semid = 0 /\ semval = 0 /\ otime = FALSE
        /\ undo = [p \in Procs |-> 0]
        /\ mpc = [p \in Procs |-> "start"] /\ inited = [p \in Procs |-> FALSE]
        /\ tries = 0 /\ inside = [p \in Procs |-> FALSE]
        /\ setret = "none" /\ setDone = FALSE /\ deaths = 0

Goto(p, s) == mpc' = [mpc EXCEPT ![p] = s]

\* create of ipc_basic::Init: IPC_CREAT | IPC_EXCL makes a semaphore of value 0;
\* one that is there is SRC_ERR, and Init goes on to open.  The kernel's first
\* semaphore has the id 0, which is taken for a failure.
create(p) == /\ mpc[p] = "start"
             /\ IF exists THEN Goto(p, "open") /\ UNCHANGED <<inited, kernel>>
                ELSE /\ exists' = TRUE /\ semid' \in {0, 1}
                     /\ semval' = 0 /\ otime' = FALSE /\ undo' = [q \in Procs |-> 0]
                     /\ inited' = [inited EXCEPT ![p] = semid' > 0]
                     /\ Goto(p, IF semid' > 0 THEN "ready" ELSE "start")
             /\ UNCHANGED <<tries, inside, setret, setDone, deaths>>

\* semget of 0 semaphores, with the IPC_CREAT of DEFAULT_IPC_FLAG, fails when
\* there is none.
open(p) == /\ mpc[p] = "open"
           /\ inited' = [inited EXCEPT ![p] = exists /\ semid > 0]
           /\ Goto(p, IF exists /\ semid > 0 THEN "ready" ELSE "start")
           /\ UNCHANGED <<kernel, tries, inside, setret, setDone, deaths>>

\* Setall: SETALL gives the value and forgets what would be undone ...
Setall == /\ mpc[Leader] = "ready" /\ ~(SetOnce /\ setDone)
          /\ semval' = 1 /\ undo' = [q \in Procs |-> 0]
          /\ tries' = 0 /\ setDone' = TRUE /\ Goto(Leader, "stat")
          /\ UNCHANGED <<exists, semid, otime, inited, inside, setret, deaths>>
\* ... and then waits for an operation on it, which another process must do.
Stat == /\ mpc[Leader] = "stat"
        /\ \/ /\ otime /\ tries < MAX_TRIES
              /\ setret' = "OK" /\ Goto(Leader, "ready") /\ UNCHANGED tries
           \/ /\ ~otime /\ tries < MAX_TRIES
              /\ tries' = tries + 1 /\ UNCHANGED <<mpc, setret>>
           \/ /\ tries = MAX_TRIES
              /\ setret' = "TIME_OUT" /\ Goto(Leader, "ready") /\ UNCHANGED tries
        /\ UNCHANGED <<kernel, inited, inside, setDone, deaths>>

\* A process calls Lock, or constructs a SemHolder.
Call(p, how) == /\ mpc[p] = "ready" /\ how \in {"lock", "holder"}
                /\ Goto(p, how)
                /\ UNCHANGED <<kernel, inited, tries, inside, setret, setDone, deaths>>

\* Mutant: the operations are not undone.
LockKept(p) == /\ mpc[p] \in {"lock", "holder"} /\ semval > 0
               /\ semval' = semval - 1 /\ otime' = TRUE
               /\ inside' = [inside EXCEPT ![p] = TRUE] /\ Goto(p, "inside")
               /\ UNCHANGED <<exists, semid, undo, inited, tries, setret, setDone, deaths>>

\* semop -1 that is granted.
Lock(p) == /\ mpc[p] \in {"lock", "holder"} /\ semval > 0
           /\ semval' = semval - 1 /\ otime' = TRUE
           /\ undo' = [undo EXCEPT ![p] = @ + 1]
           /\ inside' = [inside EXCEPT ![p] = TRUE] /\ Goto(p, "inside")
           /\ UNCHANGED <<exists, semid, inited, tries, setret, setDone, deaths>>

\* semop is interrupted: Lock says so, SemHolder ignores it and goes on.
Interrupted(p) ==
    /\ \/ mpc[p] = "lock" /\ Goto(p, "ready") /\ UNCHANGED inside
       \/ /\ mpc[p] = "holder" /\ HolderSignals
          /\ inside' = [inside EXCEPT ![p] = TRUE] /\ Goto(p, "inside")
    /\ UNCHANGED <<kernel, inited, tries, setret, setDone, deaths>>

\* Unlock, or the destructor of SemHolder.
Unlock(p) == /\ mpc[p] = "inside"
             /\ semval' = semval + 1 /\ otime' = TRUE
             /\ undo' = [undo EXCEPT ![p] = @ - 1]
             /\ inside' = [inside EXCEPT ![p] = FALSE] /\ Goto(p, "ready")
             /\ UNCHANGED <<exists, semid, inited, tries, setret, setDone, deaths>>

\* A process dies, and another takes its place.
Die(p) == /\ deaths < MaxDeaths /\ mpc[p] # "start"
          /\ deaths' = deaths + 1
          /\ semval' = semval + undo[p] /\ undo' = [undo EXCEPT ![p] = 0]
          /\ inside' = [inside EXCEPT ![p] = FALSE]
          /\ inited' = [inited EXCEPT ![p] = FALSE] /\ Goto(p, "start")
          /\ UNCHANGED <<exists, semid, otime, tries, setret, setDone>>

Step(p) == create(p) \/ open(p) \/ Lock(p) \/ Unlock(p)

Next == \/ \E p \in Procs : \/ Step(p) \/ Interrupted(p) \/ Die(p)
                            \/ \E how \in {"lock", "holder"} : Call(p, how)
        \/ Setall \/ Stat

\* Processes go on, and a semaphore that is free again and again is granted: the
\* kernel serves those that wait in their order.  Calls are up to the processes,
\* and nobody has to set the semaphore.
Fairness == \A p \in Procs : SF_semVars(Step(p))
Spec == Init /\ [][Next]_semVars /\ Fairness

-----------------------------------------------------------------------------
(* Properties *)

Inside == {p \in Procs : inside[p]}

\* Every variable keeps its type.
TypeOK == /\ semval \in Nat /\ undo \in [Procs -> Int] /\ tries \in 0 .. MAX_TRIES
          /\ mpc \in [Procs -> {"start", "open", "ready", "stat", "lock", "holder", "inside"}]
          /\ inited \in [Procs -> BOOLEAN] /\ inside \in [Procs -> BOOLEAN]

\* The mutex is exact: once set, either one process is in the code it protects or
\* the semaphore is free for one, however Init races and wherever processes die;
\* before that nobody is in.
MutexExact == semval + Cardinality(Inside) = IF setDone THEN 1 ELSE 0

\* A process is in the protected code only with a semaphore that it found.
InitedInside == \A p \in Inside : inited[p] /\ exists

\* Who waits for the mutex when it has been set gets it, or dies or is
\* interrupted.
LockGranted == \A p \in Procs :
    setDone /\ mpc[p] \in {"lock", "holder"} ~> mpc[p] \notin {"lock", "holder"}
=============================================================================
