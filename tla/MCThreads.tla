------------------------------ MODULE MCThreads -----------------------------
(***************************************************************************)
(* The parts that are built on threads, checked in one run.  They share no *)
(* state: a behaviour is one of the part that part names.                  *)
(***************************************************************************)
EXTENDS ThreadPool

CONSTANTS Workers, Jobs, NoJob, Summers, Producers, Owner, ExitJob,
          Users, GroupCount, GroupItemCount, ItemSize, Lens, None

VARIABLES part,
          m_jobs, m_nWorking, pc, job, reg, owner, finished, pushed, done, before, early,
          queue, spc, answer, spushed, taken, sjob, ended, sowner, exits, sdone, due,
          m_queues, m_buffer, m_datalen, mem, upc, group, ref, wrote

JobMng == INSTANCE MultiThreadJobMng
Summer == INSTANCE SummerWorkerMng WITH
              Workers <- Summers, pc <- spc, pushed <- spushed, job <- sjob,
              owner <- sowner, done <- sdone
Blocks == INSTANCE RollFixBuffer WITH pc <- upc

ASSUME PartAssumptions == /\ JobMng!WorkersAssumption /\ Summer!WorkerAssumption
                          /\ Blocks!BufferAssumption

jobVars    == <<m_jobs, m_nWorking, pc, job, reg, owner, finished, pushed, done,
                before, early>>
summerVars == <<queue, spc, answer, spushed, taken, sjob, ended, sowner, exits,
                sdone, due>>
blockVars  == <<m_queues, m_buffer, m_datalen, mem, upc, group, ref, wrote>>
allVars    == <<part, vars, jobVars, summerVars, blockVars>>

ThreadsInit == /\ part \in {"pool", "jobs", "summer", "blocks"}
               /\ Init /\ JobMng!Init /\ Summer!Init /\ Blocks!Init
ThreadsNext ==
    /\ \/ part = "pool" /\ Next /\ UNCHANGED <<jobVars, summerVars, blockVars>>
       \/ part = "jobs" /\ JobMng!Next /\ UNCHANGED <<vars, summerVars, blockVars>>
       \/ part = "summer" /\ Summer!Next /\ UNCHANGED <<vars, jobVars, blockVars>>
       \/ part = "blocks" /\ Blocks!Next /\ UNCHANGED <<vars, jobVars, summerVars>>
    /\ UNCHANGED part

\* Fairness of each part's module, in the behaviours of that part: threads run
\* and jobs return; nobody has to push, to give a block back or to destroy.
PoolFairness ==
    /\ \A p \in Pools : /\ WF_vars(part = "pool" /\ Starting(p))
                        /\ WF_vars(part = "pool" /\ Freeing(p))
                        /\ WF_vars(part = "pool" /\ (Create(p) \/ CreateFails(p)))
    /\ \A t \in Threads : /\ WF_vars(part = "pool" /\ Beginning(t))
                          /\ WF_vars(part = "pool" /\ BeforeThreadExit(t))
                          /\ WF_vars(part = "pool" /\ Cancelled(t))
JobFairness == \A w \in Workers : WF_jobVars(part = "jobs" /\ JobMng!WorkerStep(w))
SummerFairness ==
    /\ \A w \in Summers : WF_summerVars(part = "summer" /\ Summer!WorkerStep(w))
    /\ \A t \in Producers : WF_summerVars(part = "summer" /\ Summer!InQueue(t))
    /\ WF_summerVars(part = "summer" /\ Summer!OwnerStep)
BlockFairness == \A u \in Users : WF_blockVars(part = "blocks" /\ Blocks!Working(u))

ThreadsSpec == /\ ThreadsInit /\ [][ThreadsNext]_allVars
               /\ PoolFairness /\ JobFairness /\ SummerFairness /\ BlockFairness

-----------------------------------------------------------------------------

\* ThreadPool: the start handshake of Init is with the child just created, and
\* the child's arguments live until it has read them; whichever of the stores of
\* Init and of the child came last, a child taken for unused is on its way out, and
\* none is joined twice.
ThreadsSafe == TypeOK /\ ArgsAlive /\ HandshakeOwn /\ UnusedIsOut /\ JoinsValid

\* ThreadPool: Init and the destructor come to an end.
PoolEnds == InitReturns /\ DestroyReturns

\* MultiThreadJobMng: when Finish says yes, every job pushed before it was called
\* is done and no worker uses the manager again.  SummerWorkerMng: when ExitWork
\* returns, the jobs pushed before it are done, and each exit job has ended one
\* worker, also while others push on.
ExitExact == /\ JobMng!TypeOK /\ JobMng!FinishSound
             /\ Summer!TypeOK /\ Summer!DoneWhenExited /\ Summer!OneExitEach

\* Work is done: in MultiThreadJobMng the jobs pushed before the workers start, in
\* SummerWorkerMng those pushed before ExitWork, which returns; and in RollFixBuffer
\* no user sleeps while a block of its group is free.
WorkDone == /\ \A j \in Jobs : j \in early ~> j \in done
            /\ \A j \in Jobs : (Summer!WasPushed(j) /\ sowner = "working") ~> j \in sdone
            /\ sowner = "pushing" ~> sowner = "joined"
            /\ \A g \in 0 .. GroupCount - 1 :
                  Blocks!SleepWhileFree(g) ~> ~Blocks!SleepWhileFree(g)

\* RollFixBuffer: every block is free once or held by one user, and what a user
\* wrote stays in its block.
BlocksOwned == Blocks!TypeOK /\ Blocks!BlocksConserved /\ Blocks!WritesStay
=============================================================================
