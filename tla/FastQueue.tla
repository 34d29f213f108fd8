----------------------------- MODULE FastQueue -----------------------------
(***************************************************************************)
(* HSingleFastQueue (src/src/hsinglefastqueue.h): a ring of Size slots     *)
(* shared without locks by one producer and one consumer thread.           *)
(*                                                                         *)
(* The values in the queue are those in the slots after m_read_index up to *)
(* and including m_write_index; the slot m_read_index itself holds what    *)
(* was consumed last.  Every access to shared memory is a step of its own: *)
(* an index load with the comparison that follows it, the construction,    *)
(* the move and the destruction of an element, and each index store.  The  *)
(* acquire/release pairs order these accesses, so sequential consistency   *)
(* is what the two threads see.                                            *)
(***************************************************************************)
EXTENDS Integers

CONSTANTS Size,       \* m_size, the number of slots
          Values,     \* the values pushed
          Raw,        \* a slot that holds no constructed object
          Moved,      \* a constructed object whose value was moved out
          Nothing     \* no value, no pointer

\* The constructor's assertion, and distinct marks for what a slot may hold.
ASSUME SizeAssumption == Size \in Nat /\ Size >= 2
ASSUME MarkAssumption == /\ Raw \notin Values /\ Moved \notin Values
                         /\ Nothing \notin Values /\ Raw # Moved

VARIABLES m_read_index, m_write_index,
          m_data,     \* the slots
          alive,      \* the queue object has not been destructed
          pc,         \* where each thread is
          arg,        \* the producer's Push argument
          value,      \* the consumer's last Get result
          front,      \* what the consumer's last FrontPtr returned, a slot
          loaded,     \* per thread: the index an observer has loaded first
          told,       \* per thread: what isEmpty or isFull last answered
          guess       \* per thread: what GuestSize last answered, or -1

vars == <<m_read_index, m_write_index, m_data, alive, pc, arg, value, front,
          loaded, told, guess>>

indexes == <<m_read_index, m_write_index>>
answers == <<told, guess, front>>

Threads == {"producer", "consumer"}
Slots   == 0 .. Size - 1

\* ++index, wrapping to 0 at m_size.
NextPos(i) == IF i + 1 = Size THEN 0 ELSE i + 1

\* The k-th slot after slot i, and the number of slots from r up to w.
SlotAt(i, k)   == IF i + k >= Size THEN i + k - Size ELSE i + k
Distance(r, w) == IF w - r < 0 THEN w - r + Size ELSE w - r

TrueSize == Distance(m_read_index, m_write_index)

Goto(t, l) == pc' = [pc EXCEPT ![t] = l]

\* An operation that may change the queue makes the caller's answers old.
Forget(t) == /\ told'  = [told EXCEPT ![t] = "nothing"]
             /\ guess' = [guess EXCEPT ![t] = -1]
             /\ front' = IF t = "consumer" THEN Nothing ELSE front

Idle(t) == alive /\ pc[t] = "idle"

Init == /\ m_read_index = 0 /\ m_write_index = 0
        /\ m_data = [i \in Slots |-> Raw]
        /\ alive = TRUE
        /\ pc = [t \in Threads |-> "idle"]
        /\ arg = Nothing /\ value = Nothing /\ front = Nothing
        /\ loaded = [t \in Threads |-> 0]
        /\ told = [t \in Threads |-> "nothing"]
        /\ guess = [t \in Threads |-> -1]

-----------------------------------------------------------------------------
(* Push, by the producer. *)

\* Mutant: the full test is missing.
PushBeginNoFullCheck(v) ==
    /\ Idle("producer")
    /\ Forget("producer")
    /\ arg' = v
    /\ Goto("producer", "construct")
    /\ UNCHANGED <<indexes, m_data, alive, value, loaded>>

\* Load both indexes; a full queue makes Push return false.
PushBegin(v) ==
    /\ Idle("producer")
    /\ Forget("producer")
    /\ \/ /\ NextPos(m_write_index) # m_read_index
          /\ arg' = v
          /\ Goto("producer", "construct")
       \/ /\ NextPos(m_write_index) = m_read_index
          /\ UNCHANGED <<pc, arg>>
    /\ UNCHANGED <<indexes, m_data, alive, value, loaded>>

\* Mutant: constructs at the write index instead of after it.
PushConstructAtWrite ==
    /\ pc["producer"] = "construct"
    /\ m_data' = [m_data EXCEPT ![m_write_index] = arg]
    /\ Goto("producer", "publish")
    /\ UNCHANGED <<indexes, alive, arg, value, loaded, answers>>

\* Placement new into the slot after the write index.
PushConstruct ==
    /\ pc["producer"] = "construct"
    /\ m_data' = [m_data EXCEPT ![NextPos(m_write_index)] = arg]
    /\ Goto("producer", "publish")
    /\ UNCHANGED <<indexes, alive, arg, value, loaded, answers>>

\* The release store that makes the element visible.
PushPublish ==
    /\ pc["producer"] = "publish"
    /\ m_write_index' = NextPos(m_write_index)
    /\ arg' = Nothing
    /\ Goto("producer", "idle")
    /\ UNCHANGED <<m_read_index, m_data, alive, value, loaded, answers>>

-----------------------------------------------------------------------------
(* Get, FrontPtr and popFront, by the consumer. *)

\* Load both indexes; an empty queue makes Get return false.
GetBegin ==
    /\ Idle("consumer")
    /\ Forget("consumer")
    /\ \/ m_read_index # m_write_index /\ Goto("consumer", "move")
       \/ m_read_index = m_write_index /\ UNCHANGED pc
    /\ UNCHANGED <<indexes, m_data, alive, arg, value, loaded>>

\* Mutant: moves from the slot FrontPtr returns.
GetMoveAtRead ==
    /\ pc["consumer"] = "move"
    /\ value' = m_data[m_read_index]
    /\ m_data' = [m_data EXCEPT ![m_read_index] = Moved]
    /\ Goto("consumer", "destroy")
    /\ UNCHANGED <<indexes, alive, arg, loaded, answers>>

\* value = std::move(m_data[next_pos]).
GetMove ==
    /\ pc["consumer"] = "move"
    /\ value' = m_data[NextPos(m_read_index)]
    /\ m_data' = [m_data EXCEPT ![NextPos(m_read_index)] = Moved]
    /\ Goto("consumer", "destroy")
    /\ UNCHANGED <<indexes, alive, arg, loaded, answers>>

\* The destructor call, on the slot the read index still names.
GetDestroy ==
    /\ pc["consumer"] = "destroy"
    /\ m_data' = [m_data EXCEPT ![m_read_index] = Raw]
    /\ Goto("consumer", "store")
    /\ UNCHANGED <<indexes, alive, arg, value, loaded, answers>>

\* The release store that gives the slot back to the producer.
GetStore ==
    /\ pc["consumer"] = "store"
    /\ m_read_index' = NextPos(m_read_index)
    /\ Goto("consumer", "idle")
    /\ UNCHANGED <<m_write_index, m_data, alive, arg, value, loaded, answers>>

\* The address of the slot at the read index, or nullptr when empty.
FrontPtr ==
    /\ Idle("consumer")
    /\ front' = IF m_read_index = m_write_index THEN Nothing ELSE m_read_index
    /\ UNCHANGED <<indexes, m_data, alive, pc, arg, value, loaded, told, guess>>

\* popFront asserts that the queue is not empty: callers keep to that.
PopBegin ==
    /\ Idle("consumer")
    /\ m_read_index # m_write_index
    /\ Forget("consumer")
    /\ Goto("consumer", "pop_destroy")
    /\ UNCHANGED <<indexes, m_data, alive, arg, value, loaded>>

PopDestroy ==
    /\ pc["consumer"] = "pop_destroy"
    /\ m_data' = [m_data EXCEPT ![m_read_index] = Raw]
    /\ Goto("consumer", "pop_store")
    /\ UNCHANGED <<indexes, alive, arg, value, loaded, answers>>

PopStore ==
    /\ pc["consumer"] = "pop_store"
    /\ m_read_index' = NextPos(m_read_index)
    /\ Goto("consumer", "idle")
    /\ UNCHANGED <<m_write_index, m_data, alive, arg, value, loaded, answers>>

-----------------------------------------------------------------------------
(* isEmpty, isFull and GuestSize load the two indexes one after the other. *)
(* C++ leaves the order of the operands of == and - open, so isEmpty and   *)
(* GuestSize may load either one first; isFull loads the write index first.*)

LoadReadFirst(t) ==
    /\ Idle(t)
    /\ loaded' = [loaded EXCEPT ![t] = m_read_index]
    /\ Goto(t, "have_read")
    /\ UNCHANGED <<indexes, m_data, alive, arg, value, answers>>

LoadWriteFirst(t) ==
    /\ Idle(t)
    /\ loaded' = [loaded EXCEPT ![t] = m_write_index]
    /\ Goto(t, "have_write")
    /\ UNCHANGED <<indexes, m_data, alive, arg, value, answers>>

\* The second load, and the answer from the pair of indexes it completes.
Loaded(t, r, w) ==
    \/ pc[t] = "have_read" /\ r = loaded[t] /\ w = m_write_index
    \/ pc[t] = "have_write" /\ r = m_read_index /\ w = loaded[t]

\* The observer returns; its local copy of the index is gone.
Answered(t) == Goto(t, "idle") /\ loaded' = [loaded EXCEPT ![t] = 0]

IsEmpty(t) ==
    /\ pc[t] \in {"have_read", "have_write"}
    /\ \E r, w \in Slots :
          /\ Loaded(t, r, w)
          /\ told' = [told EXCEPT ![t] = IF r = w THEN "empty" ELSE "nonempty"]
    /\ Answered(t)
    /\ UNCHANGED <<indexes, m_data, alive, arg, value, guess, front>>

IsFull(t) ==
    /\ pc[t] = "have_write"
    /\ \E r, w \in Slots :
          /\ Loaded(t, r, w)
          /\ told' = [told EXCEPT ![t] =
                         IF NextPos(w) # r THEN "notfull" ELSE "full"]
    /\ Answered(t)
    /\ UNCHANGED <<indexes, m_data, alive, arg, value, guess, front>>

\* Mutant: a negative difference is corrected by Capacity instead of m_size.
GuestSizeByCapacity(t) ==
    /\ pc[t] \in {"have_read", "have_write"}
    /\ \E r, w \in Slots :
          /\ Loaded(t, r, w)
          /\ guess' = [guess EXCEPT ![t] =
                          IF w - r < 0 THEN w - r + Size - 1 ELSE w - r]
    /\ Answered(t)
    /\ UNCHANGED <<indexes, m_data, alive, arg, value, told, front>>

\* The difference as a signed int, plus m_size when it is negative.
GuestSize(t) ==
    /\ pc[t] \in {"have_read", "have_write"}
    /\ \E r, w \in Slots :
          /\ Loaded(t, r, w)
          /\ guess' = [guess EXCEPT ![t] = Distance(r, w)]
    /\ Answered(t)
    /\ UNCHANGED <<indexes, m_data, alive, arg, value, told, front>>

-----------------------------------------------------------------------------
\* The slots ~HSingleFastQueue destroys: from the read index up to, and not
\* including, the write index.
Destructed == {SlotAt(m_read_index, k) : k \in 0 .. TrueSize - 1}

\* The owner destructs the queue once both threads are done with it.
Destruct ==
    /\ Idle("producer") /\ Idle("consumer")
    /\ m_data' = [i \in Slots |-> IF i \in Destructed THEN Raw ELSE m_data[i]]
    /\ alive' = FALSE
    /\ UNCHANGED <<indexes, pc, arg, value, loaded, answers>>

Producer == \/ \E v \in Values : PushBegin(v)
            \/ PushConstruct \/ PushPublish

Consumer == \/ GetBegin \/ GetMove \/ GetDestroy \/ GetStore
            \/ FrontPtr
            \/ PopBegin \/ PopDestroy \/ PopStore

Observer(t) == \/ LoadReadFirst(t) \/ LoadWriteFirst(t)
               \/ IsEmpty(t) \/ IsFull(t) \/ GuestSize(t)

Next == \/ Producer \/ Consumer
        \/ \E t \in Threads : Observer(t)
        \/ Destruct

Spec == Init /\ [][Next]_vars

-----------------------------------------------------------------------------
(* Properties *)

\* Every variable keeps its type.
TypeOK == /\ m_read_index \in Slots /\ m_write_index \in Slots
          /\ m_data \in [Slots -> Values \cup {Raw, Moved}]
          /\ alive \in BOOLEAN
          /\ pc \in [Threads -> {"idle", "construct", "publish", "move",
                                 "destroy", "store", "pop_destroy",
                                 "pop_store", "have_read", "have_write"}]
          /\ arg \in Values \cup {Nothing}
          /\ value \in Values \cup {Nothing}
          /\ front \in Slots \cup {Nothing}
          /\ loaded \in [Threads -> Slots]
          /\ told \in [Threads -> {"nothing", "empty", "nonempty", "full",
                                   "notfull"}]
          /\ guess \in [Threads -> -1 .. Size - 1]

\* The slots the queue's elements are in: those after the slot the consumer
\* has last emptied.
FrontIndex == IF pc["consumer"] \in {"destroy", "store"}
              THEN NextPos(m_read_index) ELSE m_read_index
Queued == Distance(FrontIndex, m_write_index)
Queue  == IF alive
          THEN [k \in 1 .. Queued |-> m_data[SlotAt(FrontIndex, k)]]
          ELSE <<>>

\* Refinement mapping: the ring is a bounded FIFO.  A Push takes effect at
\* its index store, a Get when it moves the value out, a popFront at its
\* index store.
Fifo == INSTANCE BoundedFifo WITH
            Capacity <- Size - 1, queue <- Queue, out <- value

\* HSingleFastQueue implements a bounded FIFO of Size - 1 values: nothing is
\* lost, duplicated, reordered, or handed out before it is constructed,
\* whatever the interleaving of Push with Get and popFront.
FifoSpec == Fifo!Spec

\* The slot Push constructs into is never one the consumer is moving from or
\* destroying at that time (lines 71-73 against 91-93 and 116-117).
NoSlotRace ==
    pc["producer"] \in {"construct", "publish"} =>
        LET s == NextPos(m_write_index)
        IN /\ pc["consumer"] = "move" => s # NextPos(m_read_index)
           /\ pc["consumer"] \in {"destroy", "pop_destroy"} => s # m_read_index

\* Push never constructs over an object that was not destructed: the late
\* destruction in Get and popFront always comes before the slot's reuse.
ConstructsInRawSlot ==
    pc["producer"] = "construct" => m_data[NextPos(m_write_index)] = Raw

\* The comment of GuestSize: the consumer's answer is at most the true size,
\* the producer's at least, also when the answer is old by the time it is used.
GuestSizeBounds ==
    /\ guess["consumer"] <= TrueSize
    /\ guess["producer"] # -1 => guess["producer"] >= TrueSize

\* What an observer tells a thread stays true until that thread itself changes
\* the queue: not-empty to the consumer, so that Get succeeds and popFront may
\* be called; not-full to the producer, so that Push succeeds.
AnswersStay ==
    /\ told["consumer"] = "nonempty" => m_read_index # m_write_index
    /\ told["producer"] = "notfull" => NextPos(m_write_index) # m_read_index

\* Slots are used by one thread at a time, and constructed when they are raw.
SlotsSafe == NoSlotRace /\ ConstructsInRawSlot

\* Observers' answers are right when they are used: GuestSize is a bound on the
\* safe side, and not-empty and not-full stay.
ObserversRight == GuestSizeBounds /\ AnswersStay

\* The comment of the destructor: "We need to destruct anything that may still
\* exist in our queue".
DestructsAll == ~alive => \A i \in Slots : m_data[i] \notin Values
=============================================================================
