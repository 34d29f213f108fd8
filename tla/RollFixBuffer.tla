---------------------------- MODULE RollFixBuffer ---------------------------
(***************************************************************************)
(* RollFixBuffer and BufferItemRef (src/src/utils/rollfixedbuffer.{h,cpp}):*)
(* groups of memory blocks of one size.  A thread pops a block of a group, *)
(* waiting until there is one, writes to it, and pulls it back.  Each      *)
(* group's RefQueue is the queue of BlockingQueue, with Pop and Push cut   *)
(* at the mutex as there.                                                  *)
(***************************************************************************)
EXTENDS Integers, Sequences, SequencesExt, FiniteSets

CONSTANTS Users, GroupCount, GroupItemCount, ItemSize,
          Lens,       \* lengths that users write
          None

Groups == 0 .. GroupCount - 1
Refs   == Groups \X (0 .. GroupItemCount - 1)

BufferAssumption ==
    /\ GroupCount \in Nat \ {0} /\ GroupItemCount \in Nat \ {0}
    /\ ItemSize \in Nat \ {0} /\ Lens \subseteq Nat /\ None \notin Refs

VARIABLES m_queues,  \* per group: the free blocks
          m_buffer,  \* blocks whose reference knows its buffer
          m_datalen, \* per block: the length written last
          mem,       \* who wrote each byte last
          pc,        \* per user: where it is
          group,     \* per user: the group it pops from
          ref,       \* per user: the block it holds
          wrote      \* history: how much the user wrote to it last

vars == <<m_queues, m_buffer, m_datalen, mem, pc, group, ref, wrote>>

\* get_mem_item: where a block begins.
get_mem_item(r) == r[1] * GroupItemCount * ItemSize + r[2] * ItemSize
Bytes == 0 .. GroupCount * GroupItemCount * ItemSize - 1

Asleep(g) == {u \in Users : pc[u] = "asleep" /\ group[u] = g}

\* The constructor fills the queues, group by group.
Init == /\ m_queues = [g \in Groups |-> [j \in 1 .. GroupItemCount |-> <<g, j - 1>>]]
        /\ m_buffer = {} /\ m_datalen = [r \in Refs |-> 0]
        /\ mem = [b \in Bytes |-> None]
        /\ pc = [u \in Users |-> "idle"] /\ group = [u \in Users |-> 0]
        /\ ref = [u \in Users |-> None] /\ wrote = [u \in Users |-> 0]

Goto(u, s) == pc' = [pc EXCEPT ![u] = s]

Pop(u, g) == /\ pc[u] = "idle" /\ g \in Groups
             /\ group' = [group EXCEPT ![u] = g]
             /\ Goto(u, "pop")
             /\ UNCHANGED <<m_queues, m_buffer, m_datalen, mem, ref, wrote>>

PopWait(u) == /\ pc[u] = "pop" /\ m_queues[group[u]] = <<>>
              /\ Goto(u, "asleep")
              /\ UNCHANGED <<m_queues, m_buffer, m_datalen, mem, group, ref, wrote>>

SpuriousWakeup(u) == /\ pc[u] = "asleep"
                     /\ Goto(u, "pop")
                     /\ UNCHANGED <<m_queues, m_buffer, m_datalen, mem, group, ref, wrote>>

PopTake(u) == /\ pc[u] = "pop" /\ m_queues[group[u]] # <<>>
              /\ ref' = [ref EXCEPT ![u] = Head(m_queues[group[u]])]
              /\ m_queues' = [m_queues EXCEPT ![group[u]] = Tail(@)]
              /\ Goto(u, "set")
              /\ UNCHANGED <<m_buffer, m_datalen, mem, group, wrote>>

\* SetBuffer, outside the mutex.
SetBuffer(u) == /\ pc[u] = "set"
                /\ m_buffer' = m_buffer \cup {ref[u]}
                /\ Goto(u, "hold")
                /\ UNCHANGED <<m_queues, m_datalen, mem, group, ref, wrote>>

\* Mutant: the length is compared with twice the size.
FitsTwice(len) == len < 2 * ItemSize

\* Write asserts that the length is below the size of the block.
Fits(len) == len < ItemSize

Write(u, len) ==
    /\ pc[u] = "hold" /\ Fits(len)
    /\ mem' = [b \in Bytes |->
                 IF b - get_mem_item(ref[u]) \in 0 .. len - 1 THEN u ELSE mem[b]]
    /\ m_datalen' = [m_datalen EXCEPT ![ref[u]] = len]
    /\ wrote' = [wrote EXCEPT ![u] = len]
    /\ UNCHANGED <<m_queues, m_buffer, pc, group, ref>>

\* PullBack: to the queue of the block's own group, under the mutex, ...
PullBack(u) ==
    /\ pc[u] = "hold"
    /\ m_queues' = [m_queues EXCEPT ![ref[u][1]] = Append(@, ref[u])]
    /\ group' = [group EXCEPT ![u] = ref[u][1]]
    /\ ref' = [ref EXCEPT ![u] = None] /\ wrote' = [wrote EXCEPT ![u] = 0]
    /\ Goto(u, "signal")
    /\ UNCHANGED <<m_buffer, m_datalen, mem>>

\* Mutant: nobody is woken.
SignalNobody(u) == /\ pc[u] = "signal"
                   /\ Goto(u, "idle")
                   /\ UNCHANGED <<m_queues, m_buffer, m_datalen, mem, group, ref, wrote>>

\* ... and the signal after it.
Signal(u) == /\ pc[u] = "signal"
             /\ \/ Asleep(group[u]) = {} /\ Goto(u, "idle")
                \/ \E s \in Asleep(group[u]) :
                      pc' = [pc EXCEPT ![u] = "idle", ![s] = "pop"]
             /\ UNCHANGED <<m_queues, m_buffer, m_datalen, mem, group, ref, wrote>>

Working(u) == PopWait(u) \/ PopTake(u) \/ SetBuffer(u) \/ Signal(u)

Next == \E u \in Users : \/ \E g \in Groups : Pop(u, g)
                         \/ \E len \in Lens : Write(u, len)
                         \/ PullBack(u) \/ Working(u) \/ SpuriousWakeup(u)

Spec == Init /\ [][Next]_vars

-----------------------------------------------------------------------------
(* Properties *)

\* Every variable keeps its type.
TypeOK == /\ \A g \in Groups : \A i \in 1 .. Len(m_queues[g]) : m_queues[g][i] \in Refs
          /\ m_buffer \subseteq Refs
          /\ pc \in [Users -> {"idle", "pop", "asleep", "set", "hold", "signal"}]
          /\ \A u \in Users : pc[u] \in {"set", "hold"} <=> ref[u] # None
          /\ \A u \in Users : pc[u] = "hold" => ref[u] \in m_buffer

HeldBy(r) == {u \in Users : ref[u] = r}

\* Every block is in the free queue of its own group once, or is held by one
\* user: blocks are neither lost nor given out twice, nor do they change group.
BlocksConserved ==
    \A r \in Refs :
        Cardinality(HeldBy(r))
          + Cardinality({i \in 1 .. Len(m_queues[r[1]]) : m_queues[r[1]][i] = r}) = 1

\* What a user wrote to its block stays there until it writes again or pulls
\* the block back: no two blocks overlap, and no write leaves its block.
WritesStay ==
    \A u \in Users : ref[u] # None =>
        \A b \in Bytes : b - get_mem_item(ref[u]) \in 0 .. wrote[u] - 1 => mem[b] = u

SleepWhileFree(g) == m_queues[g] # <<>> /\ Asleep(g) # {}
=============================================================================
