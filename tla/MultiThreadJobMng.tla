-------------------------- MODULE MultiThreadJobMng -------------------------
(***************************************************************************)
(* MultiThreadJobMng and JobPool (src/src/utils/multithreadjobmng.{h,cpp}, *)
(* jobpool.{h,cpp}): workers that take jobs until there is none and then   *)
(* end, counting themselves out of m_nWorking; Finish tells whether all    *)
(* is done, so that the owner can go on and destroy the manager.           *)
(*                                                                         *)
(* m_nWorking is a plain int: its decrement is a load and a store.         *)
(***************************************************************************)
EXTENDS Integers, Sequences, SequencesExt, FiniteSets

CONSTANTS Workers, Jobs, NoJob

WorkersAssumption == IsFiniteSet(Workers) /\ NoJob \notin Jobs

VARIABLES m_jobs,     \* the pool
          m_nWorking,
          pc,         \* per worker: where it is
          job,        \* per worker: the job it does
          reg,        \* per worker: m_nWorking as it loaded it
          owner,      \* where the owner is: see below
          finished,   \* what Finish returned last
          (* history *)
          pushed,     \* jobs ever pushed
          done,       \* jobs done
          before,     \* jobs pushed before Finish was called
          early       \* jobs pushed before the workers started

vars == <<m_jobs, m_nWorking, pc, job, reg, owner, finished, pushed, done, before,
          early>>
workerVars == <<pc, job, reg, done>>

Init == /\ m_jobs = <<>> /\ m_nWorking = Cardinality(Workers)
        /\ pc = [w \in Workers |-> "none"] /\ job = [w \in Workers |-> NoJob]
        /\ reg = [w \in Workers |-> 0]
        /\ owner = "init" /\ finished = FALSE
        /\ pushed = {} /\ done = {} /\ before = {} /\ early = {}

-----------------------------------------------------------------------------
(* The owner *)

\* PushJob, under the mutex: from initJobs, or later from any thread.
PushJob(j) == /\ owner # "destroyed" /\ j \notin pushed
              /\ m_jobs' = Append(m_jobs, j)
              /\ pushed' = pushed \cup {j}
              /\ UNCHANGED <<m_nWorking, workerVars, owner, finished, before, early>>

\* InitJobSummer: after initJobs the thread pool starts the workers.
InitJobSummer == /\ owner = "init"
                 /\ owner' = "idle"
                 /\ pc' = [w \in Workers |-> "get"]
                 /\ early' = pushed
                 /\ UNCHANGED <<m_jobs, m_nWorking, job, reg, finished, pushed, done, before>>

\* Mutant: the counter is not looked at.
FinishCountSkipped ==
    /\ owner = "idle"
    /\ before' = pushed /\ finished' = FALSE
    /\ owner' = "count"
    /\ UNCHANGED <<m_jobs, m_nWorking, workerVars, pushed, early>>

\* Finish reads the counter first, ...
FinishCount == /\ owner = "idle"
               /\ before' = pushed
               /\ finished' = FALSE
               /\ owner' = IF m_nWorking = 0 THEN "count" ELSE "idle"
               /\ UNCHANGED <<m_jobs, m_nWorking, workerVars, pushed, early>>

\* ... then, under the mutex, whether the pool is empty.
FinishEmpty == /\ owner = "count"
               /\ finished' = (m_jobs = <<>>)
               /\ owner' = "idle"
               /\ UNCHANGED <<m_jobs, m_nWorking, workerVars, pushed, before, early>>

\* An owner that was told so destroys the manager: clear, then the threads.
Destroy == /\ owner = "idle" /\ finished
           /\ owner' = "destroyed"
           /\ m_jobs' = <<>>
           /\ UNCHANGED <<m_nWorking, workerVars, finished, pushed, before, early>>

-----------------------------------------------------------------------------
(* A worker: childThreadRun, childThreadExit, beforeThreadExit *)

Goto(w, s) == pc' = [pc EXCEPT ![w] = s]

GetJob(w) ==
    /\ pc[w] = "get"
    /\ \/ /\ m_jobs # <<>>
          /\ job' = [job EXCEPT ![w] = Head(m_jobs)]
          /\ m_jobs' = Tail(m_jobs)
          /\ Goto(w, "do")
       \/ /\ m_jobs = <<>>
          /\ Goto(w, "load")
          /\ UNCHANGED <<m_jobs, job>>
    /\ UNCHANGED <<m_nWorking, reg, owner, finished, pushed, done, before, early>>

DoJob(w) == /\ pc[w] = "do"
            /\ done' = done \cup {job[w]}
            /\ job' = [job EXCEPT ![w] = NoJob]
            /\ Goto(w, "get")
            /\ UNCHANGED <<m_jobs, m_nWorking, reg, owner, finished, pushed, before, early>>

LoadCount(w) == /\ pc[w] = "load"
                /\ reg' = [reg EXCEPT ![w] = m_nWorking]
                /\ Goto(w, "store")
                /\ UNCHANGED <<m_jobs, m_nWorking, job, owner, finished, pushed, done, before, early>>

StoreCount(w) == /\ pc[w] = "store"
                 /\ m_nWorking' = reg[w] - 1
                 /\ Goto(w, "ended")
                 /\ UNCHANGED <<m_jobs, job, reg, owner, finished, pushed, done, before, early>>

WorkerStep(w) == GetJob(w) \/ DoJob(w) \/ LoadCount(w) \/ StoreCount(w)

Next == \/ \E j \in Jobs : PushJob(j)
        \/ InitJobSummer \/ FinishCount \/ FinishEmpty \/ Destroy
        \/ \E w \in Workers : WorkerStep(w)

Spec == Init /\ [][Next]_vars

-----------------------------------------------------------------------------
(* Properties *)

\* Every variable keeps its type; the counter, whatever updates it loses, is
\* never below the number of workers that have not counted themselves out.
TypeOK == /\ m_nWorking \in 0 .. Cardinality(Workers)
          /\ Cardinality({w \in Workers : pc[w] # "ended"}) <= m_nWorking
          /\ Range(m_jobs) \subseteq pushed /\ done \subseteq pushed
          /\ pc \in [Workers -> {"none", "get", "do", "load", "store", "ended"}]
          /\ owner \in {"init", "idle", "count", "destroyed"}

\* When Finish says yes, every job pushed before it was called is done, and no
\* worker will use the manager again: the owner may destroy it.
FinishSound ==
    finished => /\ before \subseteq done
                /\ \A w \in Workers : pc[w] = "ended"

\* The comment of Finish: all is done when the job queue is empty and the
\* working threads have all left.
FinishComplete ==
    (m_jobs = <<>> /\ \A w \in Workers : pc[w] = "ended") => m_nWorking = 0
=============================================================================
