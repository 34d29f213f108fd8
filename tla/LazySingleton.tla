---------------------------- MODULE LazySingleton ---------------------------
(***************************************************************************)
(* HLazySingleton::Get (src/src/hlazysingleton.h) for one type and tag,    *)
(* called by several threads from several dynamically linked units         *)
(* (src/src/detail/lazysingleton).  The object is created at first use, by *)
(* two double-checked creations one inside the other:                      *)
(*   - the holder: a cache per unit, then the entry of the type in a map   *)
(*     that all units share, with a mutex of its own                       *)
(*     (StaticSingletonHolder, StaticSingletonHolderImpl::Entry);          *)
(*   - the object: the state of the holder, and a mutex of its own         *)
(*     (LazySingletonHolder).                                              *)
(* A creation may throw; the next Get tries again.  One access to shared   *)
(* memory is one step.  Loads and stores of the atomics are acquire and    *)
(* release, so a step sees all that happened before the store it reads;    *)
(* m_instance is no atomic, and PublishedReads says when it is read.       *)
(***************************************************************************)
EXTENDS Integers, FiniteSets

CONSTANTS Threads, Units,
          Holders, Objects,   \* addresses that operator new can return
          Null,
          MaxThrows           \* bound on the creations that throw

ASSUME SingletonAssumption == /\ Null \notin Holders \cup Objects \cup Threads \cup Units
                              /\ MaxThrows \in Nat

VARIABLES pc, unit, holder, object,   \* per thread: place, and locals
          got,        \* per thread: what its last Get returned
          cache,      \* per unit: Arg::cache
          m_ptr,      \* of the entry
          entryOwner, \* who holds the mutex of the entry
          m_state, m_instance, holderOwner,   \* per holder
          made,       \* the holders made so far
          built,      \* the objects built so far
          throws

locals == <<unit, holder, object>>
entry  == <<m_ptr, entryOwner, made>>
hold   == <<m_state, m_instance, holderOwner, built>>
lsVars == <<pc, unit, holder, object, got, cache, m_ptr, entryOwner,
            m_state, m_instance, holderOwner, made, built, throws>>

Init == /\ pc = [t \in Threads |-> "idle"]
        /\ unit = [t \in Threads |-> Null]
        /\ holder = [t \in Threads |-> Null] /\ object = [t \in Threads |-> Null]
        /\ got = [t \in Threads |-> Null]
        /\ cache = [u \in Units |-> Null]
        /\ m_ptr = Null /\ entryOwner = Null
        /\ m_state = [h \in Holders |-> "Dead"]
        /\ m_instance = [h \in Holders |-> Null]
        /\ holderOwner = [h \in Holders |-> Null]
        /\ made = {} /\ built = {} /\ throws = 0

Goto(t, s) == pc' = [pc EXCEPT ![t] = s]

\* Get returns or throws: its locals are gone.
Leave(t) == /\ Goto(t, "idle")
            /\ unit' = [unit EXCEPT ![t] = Null]
            /\ holder' = [holder EXCEPT ![t] = Null]
            /\ object' = [object EXCEPT ![t] = Null]

\* A thread calls Get from code of unit u.
Get(t, u) == /\ pc[t] = "idle"
             /\ unit' = [unit EXCEPT ![t] = u]
             /\ Goto(t, "cache")
             /\ UNCHANGED <<holder, object, got, cache, entry, hold, throws>>

\* create: the pointer in the cache, or create_.
LoadCache(t) == /\ pc[t] = "cache"
                /\ holder' = [holder EXCEPT ![t] = cache[unit[t]]]
                /\ Goto(t, IF cache[unit[t]] # Null THEN "state" ELSE "entry")
                /\ UNCHANGED <<unit, object, got, cache, entry, hold, throws>>

\* Entry::create before the mutex.  The entry itself is made by create_entry,
\* under the mutex of the map, and is the same for all units.
LoadEntry(t) == /\ pc[t] = "entry"
                /\ holder' = [holder EXCEPT ![t] = m_ptr]
                /\ Goto(t, IF m_ptr # Null THEN "store_cache" ELSE "lock_entry")
                /\ UNCHANGED <<unit, object, got, cache, entry, hold, throws>>

LockEntry(t) == /\ pc[t] = "lock_entry" /\ entryOwner = Null
                /\ entryOwner' = t
                /\ Goto(t, "check_entry")
                /\ UNCHANGED <<locals, got, cache, m_ptr, made, hold, throws>>

\* The second look, under the mutex; its early return unlocks.
CheckEntry(t) ==
    /\ pc[t] = "check_entry"
    /\ \/ /\ m_ptr # Null
          /\ holder' = [holder EXCEPT ![t] = m_ptr]
          /\ entryOwner' = Null
          /\ Goto(t, "store_cache")
       \/ /\ m_ptr = Null
          /\ Goto(t, "make")
          /\ UNCHANGED <<holder, entryOwner>>
    /\ UNCHANGED <<unit, object, got, cache, m_ptr, made, hold, throws>>

\* Thunk::make: a holder with its constructor run, at a fresh address.
Make(t) == /\ pc[t] = "make"
           /\ \E h \in Holders \ made : /\ holder' = [holder EXCEPT ![t] = h]
                                        /\ made' = made \cup {h}
           /\ Goto(t, "store_entry")
           /\ UNCHANGED <<unit, object, got, cache, m_ptr, entryOwner, hold, throws>>

\* The pointer becomes visible, and the mutex is left.
StoreEntry(t) == /\ pc[t] = "store_entry"
                 /\ m_ptr' = holder[t]
                 /\ entryOwner' = Null
                 /\ Goto(t, "store_cache")
                 /\ UNCHANGED <<locals, got, cache, made, hold, throws>>

\* Mutant: the cache is given another pointer than the holder's.
StoreCacheOther(t) == /\ pc[t] = "store_cache"
                     /\ cache' = [cache EXCEPT ![unit[t]] = t]
                     /\ Goto(t, "state")
                     /\ UNCHANGED <<locals, got, entry, hold, throws>>

StoreCache(t) == /\ pc[t] = "store_cache"
                 /\ cache' = [cache EXCEPT ![unit[t]] = holder[t]]
                 /\ Goto(t, "state")
                 /\ UNCHANGED <<locals, got, entry, hold, throws>>

\* LazySingletonHolder::Get: the state of the holder, before the mutex.
LoadState(t) == /\ pc[t] = "state"
                /\ Goto(t, IF m_state[holder[t]] = "Living" THEN "read" ELSE "lock")
                /\ UNCHANGED <<locals, got, cache, entry, hold, throws>>

\* create_instance.
Lock(t) == /\ pc[t] = "lock" /\ holderOwner[holder[t]] = Null
           /\ holderOwner' = [holderOwner EXCEPT ![holder[t]] = t]
           /\ Goto(t, "check")
           /\ UNCHANGED <<locals, got, cache, entry, m_state, m_instance, built, throws>>

Unlock(t) == holderOwner' = [holderOwner EXCEPT ![holder[t]] = Null]

\* Mutant: no second look under the mutex.
CheckNot(t) == /\ pc[t] = "check"
               /\ Goto(t, "new")
               /\ UNCHANGED <<locals, got, cache, entry, hold, throws>>

Check(t) ==
    /\ pc[t] = "check"
    /\ IF m_state[holder[t]] = "Living"
       THEN Unlock(t) /\ Goto(t, "read")
       ELSE UNCHANGED holderOwner /\ Goto(t, "new")
    /\ UNCHANGED <<locals, got, cache, entry, m_state, m_instance, built, throws>>

\* new value_type(), whose constructor returns.
New(t) == /\ pc[t] = "new"
          /\ \E o \in Objects \ built : /\ object' = [object EXCEPT ![t] = o]
                                        /\ built' = built \cup {o}
          /\ Goto(t, "assign")
          /\ UNCHANGED <<unit, holder, got, cache, entry, m_state, m_instance, holderOwner, throws>>

\* Mutant: living before it has an instance.
AssignLate(t) == /\ pc[t] = "assign"
                 /\ m_state' = [m_state EXCEPT ![holder[t]] = "Living"]
                 /\ Goto(t, "living")
                 /\ UNCHANGED <<locals, got, cache, entry, m_instance, holderOwner, built, throws>>

Assign(t) == /\ pc[t] = "assign"
             /\ m_instance' = [m_instance EXCEPT ![holder[t]] = object[t]]
             /\ Goto(t, "living")
             /\ UNCHANGED <<locals, got, cache, entry, m_state, holderOwner, built, throws>>

\* The state is stored, and the mutex is left.
Living(t) == /\ pc[t] = "living"
             /\ m_state' = [m_state EXCEPT ![holder[t]] = "Living"]
             /\ Unlock(t)
             /\ Goto(t, "read")
             /\ UNCHANGED <<locals, got, cache, entry, m_instance, built, throws>>

\* Mutant: an exception leaves the mutexes locked.
ThrowLocked(t) ==
    /\ pc[t] \in {"make", "new"} /\ throws < MaxThrows
    /\ throws' = throws + 1
    /\ Leave(t)
    /\ UNCHANGED <<got, cache, entry, hold>>

\* A creation throws: the guard of the mutex is destroyed, Get ends with the
\* exception, and what was allocated is freed again.
Throw(t) ==
    /\ throws < MaxThrows
    /\ throws' = throws + 1
    /\ \/ pc[t] = "make" /\ entryOwner' = Null /\ UNCHANGED holderOwner
       \/ pc[t] = "new" /\ Unlock(t) /\ UNCHANGED entryOwner
    /\ Leave(t)
    /\ UNCHANGED <<got, cache, m_ptr, made, m_state, m_instance, built>>

\* Mutant: the local of create_instance is returned.
ReadLocal(t) == /\ pc[t] = "read"
                /\ got' = [got EXCEPT ![t] = object[t]]
                /\ Leave(t)
                /\ UNCHANGED <<cache, entry, hold, throws>>

\* return m_instance, after either look at the state.
Read(t) == /\ pc[t] = "read"
           /\ got' = [got EXCEPT ![t] = m_instance[holder[t]]]
           /\ Leave(t)
           /\ UNCHANGED <<cache, entry, hold, throws>>

Step(t) == \/ LoadCache(t) \/ LoadEntry(t) \/ LockEntry(t) \/ CheckEntry(t)
           \/ Make(t) \/ StoreEntry(t) \/ StoreCache(t)
           \/ LoadState(t) \/ Lock(t) \/ Check(t) \/ New(t)
           \/ Assign(t) \/ Living(t) \/ Throw(t) \/ Read(t)

Next == \E t \in Threads : (\E u \in Units : Get(t, u)) \/ Step(t)

Spec == Init /\ [][Next]_lsVars

\* The scheduler runs every thread that can run.  Calls of Get are up to the
\* program.
Fairness == \A t \in Threads : WF_lsVars(Step(t))
FairSpec == Spec /\ Fairness

-----------------------------------------------------------------------------
(* Properties *)

Places == {"idle", "cache", "entry", "lock_entry", "check_entry", "make",
           "store_entry", "store_cache", "state", "lock", "check", "new",
           "assign", "living", "read"}

\* Every variable keeps its type: a cache holds a holder, or nothing.
TypeOK ==
    /\ pc \in [Threads -> Places] /\ unit \in [Threads -> Units \cup {Null}]
    /\ holder \in [Threads -> Holders \cup {Null}]
    /\ object \in [Threads -> Objects \cup {Null}]
    /\ got \in [Threads -> Objects \cup {Null}]
    /\ cache \in [Units -> Holders \cup {Null}]
    /\ m_ptr \in Holders \cup {Null} /\ entryOwner \in Threads \cup {Null}
    /\ m_state \in [Holders -> {"Dead", "Living"}]
    /\ m_instance \in [Holders -> Objects \cup {Null}]
    /\ holderOwner \in [Holders -> Threads \cup {Null}]
    /\ made \subseteq Holders /\ built \subseteq Objects /\ throws \in Nat

\* "Only one instance of every such singleton will ever be created", whichever
\* units and threads ask for it at the same time: one holder is made.
OneHolder == \A g, h \in made : g = h

\* One object is built in the life of the program, however many threads meet
\* in create_instance and however many creations threw before.
OneInstance == \A o, p \in built : o = p

\* The singleton is one: one holder and one object, whoever asks and whatever
\* throws.
OneOnly == OneHolder /\ OneInstance

\* m_instance, which is no atomic, is read only when it is set for good: the
\* thread that wrote it has published it.
PublishedReads ==
    \A t \in Threads : pc[t] = "read" =>
        /\ m_instance[holder[t]] \in built
        /\ \A s \in Threads : pc[s] \in {"assign", "living"} => holder[s] # holder[t]

\* A Get that returns gives the one object that was ever built, whether this
\* thread, another one or an earlier Get created it.
SameForAll == [][\A t \in Threads : pc[t] = "read" /\ pc'[t] = "idle" =>
                    built = {got'[t]}]_lsVars

\* A Get ends, with the object or with the exception of a creation.
GetEnds == \A t \in Threads : pc[t] # "idle" ~> pc[t] = "idle"
=============================================================================
