--------------------------- MODULE SummerWorkerMng --------------------------
(***************************************************************************)
(* SummerWorkerMng (src/src/utils/summerworkermng.{h,cpp}) and             *)
(* ExitThreadJob (jobbase.{h,cpp}): worker threads that take jobs from a   *)
(* JobQueue, and ExitWork, which queues one job per worker whose DoJob is  *)
(* pthread_exit and then joins the workers.                                *)
(***************************************************************************)
EXTENDS Integers, Sequences, FiniteSets, SequencesExt

CONSTANTS Workers, Producers, Owner,
          Jobs,        \* jobs, each pushed once
          ExitJob, NoJob

WorkerAssumption ==
    /\ IsFiniteSet(Workers) /\ Workers \cap Producers = {}
    /\ Owner \notin Workers \cup Producers /\ ExitJob \notin Jobs
    /\ NoJob \notin Jobs \cup {ExitJob}

VARIABLES queue, pc, answer, pushed, taken,
          job,        \* per worker: the job it does
          ended,      \* workers that have called pthread_exit
          owner,      \* where ExitWork is
          exits,      \* how many exit jobs it pushed
          (* history *)
          done,       \* jobs done
          due         \* jobs pushed before ExitWork began

Threads == Workers \cup Producers \cup {Owner}
WorkerCount == Cardinality(Workers)
wVars  == <<job, ended, owner, exits, done, due>>
bqVars == <<queue, pc, answer, pushed, taken>>
vars   == <<bqVars, wVars>>

JobQueue == INSTANCE BlockingQueue WITH
                Values <- Jobs \cup {ExitJob},
                MaxPushes <- Cardinality(Jobs) + WorkerCount

Init == /\ JobQueue!Init
        /\ job = [w \in Workers |-> NoJob] /\ ended = {}
        /\ owner = "working" /\ exits = 0 /\ done = {} /\ due = {}

\* PushJob; the signal is JobQueue's next step of that thread.
PushJob(t, j) == /\ t \in Producers /\ j \notin Range(pushed)
                 /\ JobQueue!Push(t, j)
                 /\ UNCHANGED wVars

\* The steps of PushJob and PopJob that change nothing else.
InQueue(t) == /\ JobQueue!Signal(t) \/ JobQueue!Wait(t)
              /\ UNCHANGED wVars

Spurious(t) == JobQueue!SpuriousWakeup(t) /\ UNCHANGED wVars

\* childThreadRun: take a job, ...
BeginPop(w) == /\ job[w] = NoJob /\ w \notin ended
               /\ JobQueue!Pop(w, "pop")
               /\ UNCHANGED wVars

TakeJob(w) == /\ JobQueue!TakeOne(w)
              /\ job' = [job EXCEPT ![w] = Head(queue)]
              /\ UNCHANGED <<ended, owner, exits, done, due>>

\* ... and do it.  An exit job ends the thread inside DoJob.
DoJob(w) ==
    /\ job[w] # NoJob
    /\ \/ /\ job[w] = ExitJob
          /\ ended' = ended \cup {w}
          /\ UNCHANGED done
       \/ /\ job[w] # ExitJob
          /\ done' = done \cup {job[w]}
          /\ UNCHANGED ended
    /\ job' = [job EXCEPT ![w] = NoJob]
    /\ UNCHANGED <<bqVars, owner, exits, due>>

\* ExitWork, once.
ExitWork == /\ owner = "working"
            /\ owner' = "pushing"
            /\ due' = Range(pushed)
            /\ UNCHANGED <<bqVars, job, ended, exits, done>>

\* Mutant: one exit job too few.
PushExitFewer == /\ owner = "pushing" /\ exits < WorkerCount - 1
                 /\ JobQueue!Push(Owner, ExitJob)
                 /\ exits' = exits + 1
                 /\ UNCHANGED <<job, ended, owner, done, due>>

PushExit == /\ owner = "pushing" /\ exits < WorkerCount
            /\ JobQueue!Push(Owner, ExitJob)
            /\ exits' = exits + 1
            /\ UNCHANGED <<job, ended, owner, done, due>>

\* Mutant: JoinAll does not wait.
JoinAllNoWait == /\ owner = "pushing" /\ exits = WorkerCount
                 /\ owner' = "joined"
                 /\ UNCHANGED <<bqVars, job, ended, exits, done, due>>

\* JoinAll returns when every worker has ended.
JoinAll == /\ owner = "pushing" /\ exits = WorkerCount /\ pc[Owner] = "idle"
           /\ ended = Workers
           /\ owner' = "joined"
           /\ UNCHANGED <<bqVars, job, ended, exits, done, due>>

WorkerStep(w) == BeginPop(w) \/ InQueue(w) \/ TakeJob(w) \/ DoJob(w)
OwnerStep == InQueue(Owner) \/ PushExit \/ JoinAll

Next == \/ \E w \in Workers : WorkerStep(w) \/ Spurious(w)
        \/ \E t \in Producers : InQueue(t) \/ \E j \in Jobs : PushJob(t, j)
        \/ ExitWork \/ OwnerStep

Spec == Init /\ [][Next]_vars

-----------------------------------------------------------------------------
(* Properties *)

\* Every variable keeps its type, and no job is done by two workers.
TypeOK == /\ JobQueue!TypeOK
          /\ job \in [Workers -> Jobs \cup {ExitJob, NoJob}]
          /\ ended \subseteq Workers /\ done \subseteq Jobs
          /\ exits \in 0 .. WorkerCount
          /\ owner \in {"working", "pushing", "joined"}
          /\ \A v, w \in Workers : v # w /\ job[v] = job[w] => job[v] \in {NoJob, ExitJob}

\* When ExitWork returns, every job that was pushed before it was called has
\* been done to its end, by whichever worker, also while others push on.
DoneWhenExited == owner = "joined" => due \subseteq done

\* A worker never ends while a job it took is undone, and each exit job ends
\* one worker: those not ended are as many as exit jobs not yet consumed.
OneExitEach ==
    Cardinality(ended) + Cardinality({w \in Workers : job[w] = ExitJob})
        + Cardinality({i \in 1 .. Len(queue) : queue[i] = ExitJob}) = exits

WasPushed(j) == j \in Range(pushed)
=============================================================================
