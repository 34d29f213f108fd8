----------------------------- MODULE HandlerSet -----------------------------
(***************************************************************************)
(* HandlerSet, HandlerDescriptor, HandlerIterator and SelectHandlerMap     *)
(* (src/src/detail/scheduler/handlerset_in.{h,cpp} and                     *)
(* selecthandlers_in.{h,cpp}): the descriptors select watches, in a        *)
(* circular list with m_handlers as its sentinel, and the walk that calls  *)
(* the handlers of those that are ready.                                   *)
(*                                                                         *)
(* A descriptor is named by its address: a deleted one may be allocated    *)
(* again.  The walk holds the address of the next descriptor while a       *)
(* handler runs and changes the list.                                      *)
(***************************************************************************)
EXTENDS Integers, Sequences, SequencesExt, FiniteSets

CONSTANTS Handles,    \* handles callers pass, some of them not positive
          Events,     \* HIT_READ, HIT_WRITE, HIT_EXCEP
          Addresses,  \* where descriptors may be allocated
          End,        \* the sentinel
          RemoveOthers \* whether a handler may remove other handlers' sockets

HandleAssumption == /\ Handles \subseteq Int /\ RemoveOthers \in BOOLEAN
                    /\ End \notin Addresses

VARIABLES list,       \* the addresses in the list, from m_handlers.m_next on
          desc,       \* what is at an address
          ready,      \* the fd_sets select returned: handle and event
          m_next_ptr, \* the iterator of CallHandlers
          hpc,        \* "idle", "walking", or "calling" a handler
          current,    \* the descriptor the walk is at
          (* history *)
          watched,    \* registrations left alone since the walk began
          calls       \* how often each of them was called in this walk

hsVars == <<list, desc, ready, m_next_ptr, hpc, current, watched, calls>>

Sockets  == {h \in Handles : h > 0}
NoDesc   == [handle |-> -1, flags |-> {}]
Listed   == Range(list)
FirstOf(l) == IF l = <<>> THEN End ELSE l[1]
After(a) == LET i == CHOOSE i \in 1 .. Len(list) : list[i] = a
            IN IF i = Len(list) THEN End ELSE list[i + 1]

Init == /\ list = <<>> /\ desc = [a \in Addresses |-> NoDesc]
        /\ ready = {} /\ m_next_ptr = End /\ hpc = "idle" /\ current = End
        /\ watched = {} /\ calls = [a \in Addresses |-> 0]

-----------------------------------------------------------------------------
(* Changing the set. *)

\* lookupHandler: the first descriptor of the handle, or End.
PlaceOf(h)       == SelectInSeq(list, LAMBDA a : desc[a].handle = h)
lookupHandler(h) == IF PlaceOf(h) = 0 THEN End ELSE list[PlaceOf(h)]

\* AssignHandler: a handle that is not positive is ignored, a known one gets
\* the new flags, a new one a descriptor before the first.
AssignHandler(h, flags) ==
    /\ h > 0
    /\ \/ /\ lookupHandler(h) # End
          /\ desc' = [desc EXCEPT ![lookupHandler(h)].flags = flags]
          /\ watched' = watched \ {lookupHandler(h)}
          /\ UNCHANGED list
       \/ /\ lookupHandler(h) = End
          /\ \E a \in Addresses \ Listed :
                /\ list' = <<a>> \o list
                /\ desc' = [desc EXCEPT ![a] = [handle |-> h, flags |-> flags]]
          /\ UNCHANGED watched
    /\ UNCHANGED <<ready, m_next_ptr, hpc, current, calls>>

\* RemoveHandler deletes the descriptor, which unlinks itself.
RemoveHandler(h) ==
    /\ lookupHandler(h) # End
    /\ list' = RemoveAt(list, PlaceOf(h))
    /\ desc' = [desc EXCEPT ![lookupHandler(h)] = NoDesc]
    /\ watched' = watched \ {lookupHandler(h)}
    /\ UNCHANGED <<ready, m_next_ptr, hpc, current, calls>>

ChangeHandler(old, new) ==
    /\ lookupHandler(old) # End
    /\ desc' = [desc EXCEPT ![lookupHandler(old)].handle = new]
    /\ watched' = watched \ {lookupHandler(old)}
    /\ UNCHANGED <<list, ready, m_next_ptr, hpc, current, calls>>

-----------------------------------------------------------------------------
(* select and CallHandlers. *)

\* SetupHandleSet: the pairs handed to select.
Selected == UNION {{desc[a].handle} \X desc[a].flags : a \in Listed}

\* select returned a positive number: CallHandlers resets its iterator.
CallHandlers(r) ==
    /\ hpc = "idle"
    /\ r # {} /\ r \subseteq Selected
    /\ ready' = r
    /\ m_next_ptr' = FirstOf(list)
    /\ hpc' = "walking" /\ current' = End
    /\ watched' = Listed
    /\ calls' = [a \in Addresses |-> 0]
    /\ UNCHANGED <<list, desc>>

\* What CallHandlers finds for the descriptor at a.
ResultEvents(a) == {e \in Events : <<desc[a].handle, e>> \in ready}

\* Iterator::Next fetches the following descriptor before this one is called;
\* the handler is called when an event it asked for happened.
WalkNext ==
    /\ hpc = "walking" /\ m_next_ptr \in Listed
    /\ current' = m_next_ptr
    /\ m_next_ptr' = After(m_next_ptr)
    /\ \/ /\ ResultEvents(m_next_ptr) \cap desc[m_next_ptr].flags # {}
          /\ hpc' = "calling"
          /\ calls' = [calls EXCEPT ![m_next_ptr] = @ + 1]
       \/ /\ ResultEvents(m_next_ptr) \cap desc[m_next_ptr].flags = {}
          /\ UNCHANGED <<hpc, calls>>
    /\ UNCHANGED <<list, desc, ready, watched>>

\* Mutant: one handler is called per walk.
HandlerReturnsLast ==
    /\ hpc = "calling"
    /\ hpc' = "walking"
    /\ m_next_ptr' = End
    /\ UNCHANGED <<list, desc, ready, current, watched, calls>>

HandlerReturns ==
    /\ hpc = "calling"
    /\ hpc' = "walking"
    /\ UNCHANGED <<list, desc, ready, m_next_ptr, current, watched, calls>>

WalkEnds ==
    /\ hpc = "walking" /\ m_next_ptr = End
    /\ hpc' = "idle" /\ current' = End
    /\ ready' = {} /\ watched' = {} /\ calls' = [a \in Addresses |-> 0]
    /\ UNCHANGED <<list, desc, m_next_ptr>>

\* A caller changes the set between walks; inside one only a handler can.
MayChange == hpc \in {"idle", "calling"}

\* A handler may always remove its own socket.
MayRemove(h) == \/ hpc = "idle"
                \/ /\ hpc = "calling"
                   /\ RemoveOthers \/ lookupHandler(h) = current

Walk == \/ \E r \in SUBSET Selected : CallHandlers(r)
        \/ WalkNext \/ HandlerReturns \/ WalkEnds

Change == \/ MayChange /\ \E h \in Handles, f \in SUBSET Events : AssignHandler(h, f)
          \/ \E h \in Handles : MayRemove(h) /\ RemoveHandler(h)
          \/ MayChange /\ \E h, g \in Sockets : ChangeHandler(h, g)

Next == Walk \/ Change

Spec == Init /\ [][Next]_hsVars

-----------------------------------------------------------------------------
(* Properties *)

\* Every variable keeps its type; a descriptor is in the list once.
TypeOK == /\ Listed \subseteq Addresses /\ IsInjective(list)
          /\ desc \in [Addresses -> [handle : Sockets \cup {-1}, flags : SUBSET Events]]
          /\ \A a \in Listed : desc[a] # NoDesc
          /\ m_next_ptr \in Addresses \cup {End} /\ watched \subseteq Listed
          /\ hpc \in {"idle", "walking", "calling"}
          /\ current \in Addresses \cup {End}

\* The descriptor the walk goes to next is in the list: HandlerIterator::Next
\* returns a handler "or NULL if none", never a deleted descriptor.
IteratorLive == hpc # "idle" => m_next_ptr \in Listed \cup {End}

\* No registration is called twice in one walk.
CalledOnce == \A a \in Addresses : calls[a] <= 1

\* A handler that was watched and ready when the walk began, and whose
\* registration was left alone, has been called when the walk is at its end,
\* whatever the handlers before it added or removed.
NoneSkipped ==
    (hpc = "walking" /\ m_next_ptr = End) =>
        \A a \in watched :
            (\E e \in desc[a].flags : <<desc[a].handle, e>> \in ready) => calls[a] = 1
=============================================================================
