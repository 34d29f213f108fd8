----------------------------- MODULE ThreadPool -----------------------------
(***************************************************************************)
(* HThreadPool (src/src/hthreadpool.{h,cpp}), with HWaitSonLock and        *)
(* HThread: how a pool starts its children, what they do at their begin    *)
(* and end, and how JoinAll and the destructor get rid of them.            *)
(*                                                                         *)
(* The lock and the flag of the start handshake are static: all pools of   *)
(* the process share them.  The sections under the lock are one step each. *)
(***************************************************************************)
EXTENDS Integers, FiniteSets

CONSTANTS Pools,
          ChildCount,
          Exits,       \* the ways a child ends, see ChildEnds
          DestroyAfterJoin \* whether a pool is destroyed after JoinAll

ASSUME PoolAssumption ==
    /\ ChildCount \in Nat /\ DestroyAfterJoin \in BOOLEAN
    /\ Exits \subseteq {"return", "childThreadExit", "pthread_exit"}

VARIABLES s_uChildCreated, \* the flag of the handshake
          sleeping,        \* pools whose Init waits on the condition
          parent,          \* per pool: what its owner does
          at,              \* per pool: the loop index of Init, JoinAll, free_info
          parr,            \* per pool: whether the arguments are allocated
          m_pinfos,        \* per pool and child: m_cs; whether m_thread is valid
          child,           \* per pool and child: where it is
          cancelled,       \* children that were cancelled
          badArg,          \* children that read arguments that were freed
          badJoin          \* pools that joined a thread a second time

vars == <<s_uChildCreated, sleeping, parent, at, parr, m_pinfos, child,
          cancelled, badArg, badJoin>>
shared == <<s_uChildCreated, sleeping>>

Children == 0 .. ChildCount - 1
Threads  == Pools \X Children
CS_UNUSED == "unused"
CS_IDLE   == "idle"
CS_BUSY   == "busy"
Ended    == {"none", "ended"}

Init == /\ s_uChildCreated = 0 /\ sleeping = {}
        /\ parent = [p \in Pools |-> "made"] /\ at = [p \in Pools |-> 0]
        /\ parr = [p \in Pools |-> FALSE]
        /\ m_pinfos = [t \in Threads |-> [cs |-> CS_UNUSED, valid |-> FALSE]]
        /\ child = [t \in Threads |-> "none"]
        /\ cancelled = {} /\ badArg = {} /\ badJoin = {}

Goto(p, pc) == parent' = [parent EXCEPT ![p] = pc]
Step(t, pc) == child' = [child EXCEPT ![t] = pc]

-----------------------------------------------------------------------------
(* HThreadPool::Init *)

\* create_info, and the array of arguments; nothing for an empty pool.
InitBegin(p) ==
    /\ parent[p] = "made"
    /\ IF ChildCount = 0 THEN Goto(p, "inited") /\ UNCHANGED parr
                         ELSE Goto(p, "create") /\ parr' = [parr EXCEPT ![p] = TRUE]
    /\ at' = [at EXCEPT ![p] = 0]
    /\ UNCHANGED <<shared, m_pinfos, child, cancelled, badArg, badJoin>>

Create(p) ==
    /\ parent[p] = "create" /\ at[p] < ChildCount
    /\ Step(<<p, at[p]>>, "args")
    /\ Goto(p, "wait")
    /\ UNCHANGED <<shared, at, parr, m_pinfos, cancelled, badArg, badJoin>>

\* pthread_create fails: Init throws, the arguments stay allocated.
CreateFails(p) ==
    /\ parent[p] = "create" /\ at[p] < ChildCount
    /\ Goto(p, "threw")
    /\ UNCHANGED <<shared, at, parr, m_pinfos, child, cancelled, badArg, badJoin>>

\* Mutant: the flag is left set for the next child.
WaitSonRunNoReset(p) ==
    /\ parent[p] = "wait" /\ p \notin sleeping
    /\ \/ /\ s_uChildCreated = 0
          /\ sleeping' = sleeping \cup {p}
          /\ UNCHANGED <<s_uChildCreated, parent>>
       \/ /\ s_uChildCreated = 1
          /\ UNCHANGED <<s_uChildCreated, sleeping>>
          /\ Goto(p, "store")
    /\ UNCHANGED <<at, parr, m_pinfos, child, cancelled, badArg, badJoin>>

\* WaitSonRun: one test of the flag under the lock; without a child it sleeps.
WaitSonRun(p) ==
    /\ parent[p] = "wait" /\ p \notin sleeping
    /\ \/ /\ s_uChildCreated = 0
          /\ sleeping' = sleeping \cup {p}
          /\ UNCHANGED <<s_uChildCreated, parent>>
       \/ /\ s_uChildCreated = 1
          /\ s_uChildCreated' = 0
          /\ Goto(p, "store")
          /\ UNCHANGED sleeping
    /\ UNCHANGED <<at, parr, m_pinfos, child, cancelled, badArg, badJoin>>

\* A wait on a condition may end without a signal.
SpuriousWakeup(p) ==
    /\ p \in sleeping
    /\ sleeping' = sleeping \ {p}
    /\ UNCHANGED <<s_uChildCreated, parent, at, parr, m_pinfos, child,
                   cancelled, badArg, badJoin>>

\* The thread and its status are stored while the child already runs.
StoreThread(p) ==
    /\ parent[p] = "store"
    /\ m_pinfos' = [m_pinfos EXCEPT ![<<p, at[p]>>].valid = TRUE]
    /\ Goto(p, "status")
    /\ UNCHANGED <<shared, at, parr, child, cancelled, badArg, badJoin>>

StoreStatus(p) ==
    /\ parent[p] = "status"
    /\ m_pinfos' = [m_pinfos EXCEPT ![<<p, at[p]>>].cs = CS_IDLE]
    /\ at' = [at EXCEPT ![p] = @ + 1]
    /\ Goto(p, "create")
    /\ UNCHANGED <<shared, parr, child, cancelled, badArg, badJoin>>

InitEnd(p) ==
    /\ parent[p] = "create" /\ at[p] = ChildCount
    /\ parr' = [parr EXCEPT ![p] = FALSE]
    /\ Goto(p, "inited")
    /\ UNCHANGED <<shared, at, m_pinfos, child, cancelled, badArg, badJoin>>

-----------------------------------------------------------------------------
(* thread_init_run and the end of a child *)

\* The child copies pool and index out of its argument.
ReadArgs(t) ==
    /\ child[t] = "args"
    /\ badArg' = IF parr[t[1]] THEN badArg ELSE badArg \cup {t}
    /\ Step(t, "son")
    /\ UNCHANGED <<shared, parent, at, parr, m_pinfos, cancelled, badJoin>>

\* SonRun sets the flag and signals: one sleeping parent wakes up.
SonRun(t) ==
    /\ child[t] = "son"
    /\ s_uChildCreated' = 1
    /\ \/ sleeping = {} /\ UNCHANGED sleeping
       \/ \E p \in sleeping : sleeping' = sleeping \ {p}
    /\ Step(t, "busy")
    /\ UNCHANGED <<parent, at, parr, m_pinfos, cancelled, badArg, badJoin>>

\* The thread's own data, and set_child_status(CS_BUSY).
SetBusy(t) ==
    /\ child[t] = "busy"
    /\ m_pinfos' = [m_pinfos EXCEPT ![t].cs = CS_BUSY]
    /\ Step(t, "run")
    /\ UNCHANGED <<shared, parent, at, parr, cancelled, badArg, badJoin>>

\* childThreadRun ends: it returns; or a job calls pthread_exit; or
\* childThreadExit sets the status first.
ChildEnds(t) ==
    /\ child[t] = "run"
    /\ \/ /\ Exits \cap {"return", "pthread_exit"} # {}
          /\ Step(t, "ended") /\ UNCHANGED m_pinfos
       \/ /\ "childThreadExit" \in Exits
          /\ m_pinfos' = [m_pinfos EXCEPT ![t].cs = CS_UNUSED]
          /\ Step(t, "exiting")
    /\ UNCHANGED <<shared, parent, at, parr, cancelled, badArg, badJoin>>

\* The rest of childThreadExit: beforeThreadExit of the pool, pthread_exit.
BeforeThreadExit(t) ==
    /\ child[t] = "exiting"
    /\ Step(t, "ended")
    /\ UNCHANGED <<shared, parent, at, parr, m_pinfos, cancelled, badArg, badJoin>>

\* A cancelled child ends at a cancellation point of its work.
Cancelled(t) ==
    /\ t \in cancelled /\ child[t] = "run"
    /\ Step(t, "ended")
    /\ UNCHANGED <<shared, parent, at, parr, m_pinfos, cancelled, badArg, badJoin>>

-----------------------------------------------------------------------------
(* JoinAll and the destructor *)

JoinAll(p) ==
    /\ parent[p] = "inited"
    /\ Goto(p, "join") /\ at' = [at EXCEPT ![p] = 0]
    /\ UNCHANGED <<shared, parr, m_pinfos, child, cancelled, badArg, badJoin>>

\* Join returns when the thread has ended; it refuses one joined before.
JoinNext(p) ==
    /\ parent[p] = "join" /\ at[p] < ChildCount
    /\ LET t == <<p, at[p]>>
       IN /\ m_pinfos[t].valid => child[t] \in Ended
          /\ m_pinfos' = [m_pinfos EXCEPT ![t].valid = FALSE]
          /\ badJoin' = IF m_pinfos[t].valid THEN badJoin ELSE badJoin \cup {p}
    /\ at' = [at EXCEPT ![p] = @ + 1]
    /\ UNCHANGED <<shared, parent, parr, child, cancelled, badArg>>

JoinEnd(p) ==
    /\ parent[p] = "join" /\ at[p] = ChildCount
    /\ Goto(p, "joined")
    /\ UNCHANGED <<shared, at, parr, m_pinfos, child, cancelled, badArg, badJoin>>

\* ~HThreadPool: free_info.
Destroy(p) ==
    /\ \/ parent[p] \in {"inited", "threw"}
       \/ parent[p] = "joined" /\ DestroyAfterJoin
    /\ Goto(p, "free") /\ at' = [at EXCEPT ![p] = 0]
    /\ UNCHANGED <<shared, parr, m_pinfos, child, cancelled, badArg, badJoin>>

\* Mutant: a child is joined without being cancelled.
FreeCancelNot(p) ==
    /\ parent[p] = "free" /\ at[p] < ChildCount
    /\ IF m_pinfos[<<p, at[p]>>].cs = CS_UNUSED
       THEN at' = [at EXCEPT ![p] = @ + 1] /\ UNCHANGED parent
       ELSE Goto(p, "freejoin") /\ UNCHANGED at
    /\ UNCHANGED <<shared, parr, m_pinfos, child, cancelled, badArg, badJoin>>

\* One round of free_info's loop: cancel and join, unless the status says that
\* there is no thread.
FreeCancel(p) ==
    /\ parent[p] = "free" /\ at[p] < ChildCount
    /\ LET t == <<p, at[p]>>
       IN \/ /\ m_pinfos[t].cs = CS_UNUSED
             /\ at' = [at EXCEPT ![p] = @ + 1]
             /\ UNCHANGED <<parent, cancelled>>
          \/ /\ m_pinfos[t].cs # CS_UNUSED
             /\ cancelled' = cancelled \cup {t}
             /\ Goto(p, "freejoin")
             /\ UNCHANGED at
    /\ UNCHANGED <<shared, parr, m_pinfos, child, badArg, badJoin>>

FreeJoin(p) ==
    /\ parent[p] = "freejoin"
    /\ LET t == <<p, at[p]>>
       IN /\ m_pinfos[t].valid => child[t] \in Ended
          /\ m_pinfos' = [m_pinfos EXCEPT ![t].valid = FALSE]
          /\ badJoin' = IF m_pinfos[t].valid THEN badJoin ELSE badJoin \cup {p}
    /\ at' = [at EXCEPT ![p] = @ + 1]
    /\ Goto(p, "free")
    /\ UNCHANGED <<shared, parr, child, cancelled, badArg>>

\* The infos are deleted, and with them the pool.
FreeEnd(p) ==
    /\ parent[p] = "free" /\ at[p] = ChildCount
    /\ Goto(p, "freed")
    /\ UNCHANGED <<shared, at, parr, m_pinfos, child, cancelled, badArg, badJoin>>

-----------------------------------------------------------------------------

Starting(p) == InitBegin(p) \/ WaitSonRun(p) \/ StoreThread(p) \/ StoreStatus(p)
               \/ InitEnd(p)
Freeing(p)  == JoinNext(p) \/ JoinEnd(p) \/ FreeCancel(p) \/ FreeJoin(p) \/ FreeEnd(p)
Beginning(t) == ReadArgs(t) \/ SonRun(t) \/ SetBusy(t)

Next == \/ \E p \in Pools : \/ Starting(p) \/ Create(p) \/ CreateFails(p)
                            \/ SpuriousWakeup(p)
                            \/ JoinAll(p) \/ Destroy(p) \/ Freeing(p)
        \/ \E t \in Threads : \/ Beginning(t) \/ ChildEnds(t)
                              \/ BeforeThreadExit(t) \/ Cancelled(t)

Spec == Init /\ [][Next]_vars

-----------------------------------------------------------------------------
(* Properties *)

\* Every variable keeps its type.
TypeOK ==
    /\ s_uChildCreated \in {0, 1} /\ sleeping \subseteq Pools
    /\ at \in [Pools -> 0 .. ChildCount] /\ parr \in [Pools -> BOOLEAN]
    /\ m_pinfos \in [Threads -> [cs : {CS_UNUSED, CS_IDLE, CS_BUSY},
                                 valid : BOOLEAN]]
    /\ child \in [Threads -> {"none", "args", "son", "busy", "run", "exiting", "ended"}]
    /\ parent \in [Pools -> {"made", "create", "wait", "store", "status", "inited",
                             "threw", "join", "joined", "free", "freejoin", "freed"}]
    /\ sleeping \subseteq {p \in Pools : parent[p] = "wait"}

\* A child reads its argument while Init still has the array, and so finds its
\* pool (thread_init_run asserts pool != nullptr).
ArgsAlive == badArg = {}

\* The handshake is with the child just created: Init goes on to the next one
\* only when that child has said that it runs.
HandshakeOwn ==
    \A p \in Pools : parent[p] \in {"store", "status"}
                        => child[<<p, at[p]>>] \notin {"none", "args", "son"}

\* Once Init is done, a child whose status says unused is on its way out,
\* whichever of the stores of Init and of the child came last.
UnusedIsOut ==
    \A t \in Threads :
        (/\ parent[t[1]] \in {"inited", "threw", "free", "freejoin"}
         /\ m_pinfos[t].cs = CS_UNUSED)
            => child[t] \in {"none", "exiting", "ended"}

\* Init comes to an end.
InitReturns == \A p \in Pools : parent[p] = "create" ~> parent[p] \in {"inited", "threw"}

\* A pool that is being destroyed gets rid of its children and ends.
DestroyReturns == \A p \in Pools : parent[p] = "free" ~> parent[p] = "freed"

\* Join asserts that its thread is valid: free_info joins no thread twice.
JoinsValid == badJoin = {}
=============================================================================
