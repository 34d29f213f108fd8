----------------------------- MODULE TriggerSet -----------------------------
(***************************************************************************)
(* TriggerSet (src/src/detail/scheduler/delaytrigger_in.{h,cpp}): a table  *)
(* of max_trigger_count functions, all of which are called once in every   *)
(* step of the event loop; a function may create and remove triggers.      *)
(***************************************************************************)
EXTENDS Integers, FiniteSets

CONSTANTS max_trigger_count,
          Procs,      \* functions that are not empty
          Empty       \* an empty function

VARIABLES m_triggers, \* the table
          next,       \* TriggeUpAll's loop variable; max_trigger_count outside
          inTrigger,  \* a function is being called
          (* history *)
          kept,       \* triggers of this round that nobody removed since
          called      \* ids called in this round

tsVars == <<m_triggers, next, inTrigger, kept, called>>

TriggerIds == 0 .. max_trigger_count - 1
Used       == {i \in TriggerIds : m_triggers[i] # Empty}
Lowest(S)  == CHOOSE i \in S : \A j \in S : i <= j

Init == /\ m_triggers = [i \in TriggerIds |-> Empty]
        /\ next = max_trigger_count /\ inTrigger = FALSE
        /\ kept = {} /\ called = {}

\* CreateTrigger takes the first free slot; without one it returns -1.
CreateTrigger(f) ==
    /\ Used # TriggerIds
    /\ m_triggers' = [m_triggers EXCEPT ![Lowest(TriggerIds \ Used)] = f]
    /\ UNCHANGED <<next, inTrigger, kept, called>>

\* RemoveTrigger ignores ids out of range.
RemoveTrigger(tid) ==
    /\ tid \in TriggerIds
    /\ m_triggers' = [m_triggers EXCEPT ![tid] = Empty]
    /\ kept' = kept \ {tid}
    /\ UNCHANGED <<next, inTrigger, called>>

TriggeUpAll == /\ next = max_trigger_count /\ ~inTrigger
               /\ next' = 0
               /\ kept' = Used /\ called' = {}
               /\ UNCHANGED <<m_triggers, inTrigger>>

\* Mutant: the walk ends at the first free slot.
CallTriggerToFree ==
    /\ next < max_trigger_count /\ ~inTrigger
    /\ \/ /\ m_triggers[next] # Empty
          /\ next' = next + 1 /\ inTrigger' = TRUE
          /\ called' = called \cup {next}
       \/ /\ m_triggers[next] = Empty
          /\ next' = max_trigger_count /\ UNCHANGED <<inTrigger, called>>
    /\ UNCHANGED <<m_triggers, kept>>

\* One round of the loop: an empty slot is passed over.
CallTrigger == /\ next < max_trigger_count /\ ~inTrigger
               /\ next' = next + 1
               /\ \/ /\ m_triggers[next] # Empty
                     /\ inTrigger' = TRUE
                     /\ called' = called \cup {next}
                  \/ /\ m_triggers[next] = Empty
                     /\ UNCHANGED <<inTrigger, called>>
               /\ UNCHANGED <<m_triggers, kept>>

TriggerReturns == /\ inTrigger
                  /\ inTrigger' = FALSE
                  /\ UNCHANGED <<m_triggers, next, kept, called>>

TriggersDone == next = max_trigger_count /\ ~inTrigger
=============================================================================
