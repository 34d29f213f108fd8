---------------------------- MODULE SharedMemory ----------------------------
(***************************************************************************)
(* HShareMemory (src/src/hsharememory.{h,cpp}, on                          *)
(* src/src/internal/ipcbase_in.h): processes that find a System V memory   *)
(* segment by its key, each through an object of its own, map it into      *)
(* their address space, let it go and remove it.  One system call is one   *)
(* step.  A removed segment stays while it is mapped.  What is in the      *)
(* memory is left out.                                                     *)
(***************************************************************************)
EXTENDS Integers

CONSTANTS Procs,
          Addresses,                    \* where memory can be mapped
          MaxSegs, MaxFails, MaxKills   \* bounds

MemoryAssumption == Addresses \subseteq Nat \ {0} /\ {MaxSegs, MaxFails, MaxKills} \subseteq Nat

VARIABLES sid, segs,        \* the kernel: the id of the key's segment, ids given
          maps,             \* per process: its mappings, an address and a segment each
          m_id, m_shm_ptr,  \* per process: of its object
          spc, fails, kills \* per process: place; how many of each

object == <<m_id, m_shm_ptr>>
shVars == <<sid, segs, maps, m_id, m_shm_ptr, spc, fails, kills>>

NoId == -1
Null == 0      \* nullptr
Bad  == -1     \* what a failed shmat returns

\* The first segment of a kernel has the id 0.
Init == /\ sid = NoId /\ segs \in {0, 1}
        /\ maps = [p \in Procs |-> {}]
        /\ m_id = [p \in Procs |-> NoId] /\ m_shm_ptr = [p \in Procs |-> Null]
        /\ spc = [p \in Procs |-> "idle"] /\ fails = 0 /\ kills = 0

HasInited(p)  == m_id[p] # NoId
SetId(p, id)  == m_id' = [m_id EXCEPT ![p] = id]
SetPtr(p, a)  == m_shm_ptr' = [m_shm_ptr EXCEPT ![p] = a]
Goto(p, s)    == spc' = [spc EXCEPT ![p] = s]
Fail          == fails < MaxFails /\ fails' = fails + 1

Exists(id) == id = sid \/ \E p \in Procs : \E m \in maps[p] : m.seg = id
Free(p)    == {a \in Addresses : \A m \in maps[p] : m.addr # a}

\* shmget with IPC_CREAT finds the segment or makes one.
Get == IF sid # NoId THEN UNCHANGED <<sid, segs>>
       ELSE segs < MaxSegs /\ sid' = segs /\ segs' = segs + 1

\* shmat maps a segment, a removed one that is still mapped too, at a free address.
Attached(p) == /\ Exists(m_id[p]) /\ UNCHANGED fails
               /\ \E a \in Free(p) :
                    /\ maps' = [maps EXCEPT ![p] = @ \cup {[addr |-> a, seg |-> m_id[p]]}]
                    /\ SetPtr(p, a)
NotAttached(p) == IF Exists(m_id[p]) THEN Fail ELSE UNCHANGED fails

\* shmdt of what m_shm_ptr holds: null is skipped, and what is no mapping stays.
Detach(p) == IF \E m \in maps[p] : m.addr = m_shm_ptr[p]
             THEN /\ maps' = [maps EXCEPT ![p] = {m \in @ : m.addr # m_shm_ptr[p]}]
                  /\ SetPtr(p, Null)
             ELSE UNCHANGED <<maps, m_shm_ptr>>

\* Init is create: shmget; when it fails, open is next; ...
create(p) == /\ spc[p] = "idle" /\ ~HasInited(p)
             /\ \/ Get /\ SetId(p, sid') /\ Goto(p, "attach") /\ UNCHANGED fails
                \/ Fail /\ Goto(p, "open") /\ UNCHANGED <<sid, segs, m_id>>
             /\ UNCHANGED <<maps, m_shm_ptr, kills>>

\* ... open, with a flag that has IPC_CREAT, too, takes the id 0 for a failure.
open(p) == /\ spc[p] = "open"
           /\ \/ /\ Get
                 /\ IF sid' > 0 THEN SetId(p, sid') /\ Goto(p, "attach")
                    ELSE Goto(p, "idle") /\ UNCHANGED m_id
              \/ Goto(p, "idle") /\ UNCHANGED <<sid, segs, m_id>>
           /\ UNCHANGED <<maps, m_shm_ptr, fails, kills>>

\* Either maps it, and create clears it; if it cannot be mapped, Remove is next.
Map(p) == /\ spc[p] = "attach"
          /\ \/ Attached(p) /\ Goto(p, "idle")
             \/ NotAttached(p) /\ SetPtr(p, Bad) /\ Goto(p, "detach") /\ UNCHANGED maps
          /\ UNCHANGED <<sid, segs, m_id, kills>>

\* Mutant: Remove forgets the segment before it is let go.
RemoveFirst(p) == /\ spc[p] = "detach" \/ (spc[p] = "idle" /\ HasInited(p))
                  /\ Goto(p, "remove") /\ UNCHANGED <<sid, segs, maps, object, fails, kills>>
\* Remove, also called by create and open that failed: dettach, ...
Remove(p) == /\ spc[p] = "detach" \/ (spc[p] = "idle" /\ HasInited(p))
             /\ Detach(p) /\ Goto(p, "remove")
             /\ UNCHANGED <<sid, segs, m_id, fails, kills>>

\* ... then IPC_RMID of the id it has, whoever uses it; the object gets a new start.
control(p) == /\ spc[p] = "remove"
              /\ sid' = IF sid = m_id[p] THEN NoId ELSE sid
              /\ SetId(p, NoId) /\ Goto(p, "idle")
              /\ UNCHANGED <<segs, maps, m_shm_ptr, fails, kills>>

\* attach puts the new address over the one that was there: its user lets go of that
\* first.
attach(p) == /\ spc[p] = "idle" /\ HasInited(p)
             /\ m_shm_ptr[p] \in {Null, Bad}
             /\ \/ Attached(p)
                \/ NotAttached(p) /\ SetPtr(p, Bad) /\ UNCHANGED maps
             /\ UNCHANGED <<sid, segs, m_id, spc, kills>>

dettach(p) == /\ spc[p] = "idle" /\ HasInited(p) /\ Detach(p)
              /\ UNCHANGED <<sid, segs, m_id, spc, fails, kills>>

\* The object is destroyed, which lets the memory go, and another one is made.
Destroy(p) == /\ spc[p] = "idle"
              /\ IF HasInited(p) THEN maps' = [maps EXCEPT ![p] = {m \in @ : m.addr # m_shm_ptr[p]}]
                 ELSE UNCHANGED maps
              /\ SetId(p, NoId) /\ SetPtr(p, Null)
              /\ UNCHANGED <<sid, segs, spc, fails, kills>>

\* A process dies in the midst of a call, and its mappings with it.
Die(p) == /\ kills < MaxKills /\ kills' = kills + 1
          /\ maps' = [maps EXCEPT ![p] = {}] /\ SetId(p, NoId) /\ SetPtr(p, Null)
          /\ Goto(p, "idle") /\ UNCHANGED <<sid, segs, fails>>

Next == \E p \in Procs : \/ create(p) \/ open(p) \/ Map(p) \/ Remove(p) \/ control(p)
                         \/ attach(p) \/ dettach(p) \/ Destroy(p) \/ Die(p)
Spec == Init /\ [][Next]_shVars

-----------------------------------------------------------------------------
(* Properties *)

\* Every variable keeps its type.
TypeOK == /\ {sid} \cup {m_id[p] : p \in Procs} \subseteq {NoId} \cup 0 .. MaxSegs
          /\ spc \in [Procs -> {"idle", "open", "attach", "detach", "remove"}]

\* However creations, failures and removals of processes interleave, an object has
\* mapped just what its pointer says, and that is the segment of its id; one that
\* lost its id has let go of everything, so that its destructor, which then does
\* nothing, leaves no mapping behind.
MappedExactly == \A p \in Procs :
    /\ {m.addr : m \in maps[p]} = {m_shm_ptr[p]} \ {Null, Bad}
    /\ \A m \in maps[p] : m.seg = m_id[p]

\* An object that keeps the id of a segment someone else removed never takes the one
\* made after it for its own: neither its attach nor its Remove reaches that one.
OldStaysOld == \A p \in Procs :
    /\ HasInited(p) => m_id[p] < segs
    /\ HasInited(p) /\ sid # NoId => m_id[p] <= sid
=============================================================================
