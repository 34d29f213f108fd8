-------------------------- MODULE MCThreads_proofs --------------------------
(***************************************************************************)
(* What MCThreads checks of the thread pool, of the two job managers and   *)
(* of the fixed block buffer on a small instance, for any number of        *)
(* children, workers, jobs, users and blocks.                              *)
(***************************************************************************)
EXTENDS MCThreads, Sequences, FiniteSetTheorems, SequenceTheorems, TLAPS

-----------------------------------------------------------------------------
(* RollFixBuffer *)

\* The types, and that a user holds a block exactly between taking it and pulling it
\* back; no more is written than fits.
BlockTypes ==
    /\ m_queues \in [Blocks!Groups -> Seq(Blocks!Refs)]
    /\ m_buffer \subseteq Blocks!Refs
    /\ upc \in [Users -> {"idle", "pop", "asleep", "set", "hold", "signal"}]
    /\ group \in [Users -> Blocks!Groups]
    /\ ref \in [Users -> Blocks!Refs \cup {None}]
    /\ wrote \in [Users -> 0 .. ItemSize - 1]
    /\ \A u \in Users : upc[u] \in {"set", "hold"} <=> ref[u] # None
    /\ \A u \in Users : upc[u] = "hold" => ref[u] \in m_buffer
    /\ \A u \in Users : ref[u] = None => wrote[u] = 0

\* A block is in the queue of its group only, at one place, or held by one user.
QueuesRight ==
    /\ \A g \in Blocks!Groups : \A i \in 1 .. Len(m_queues[g]) : m_queues[g][i][1] = g
    /\ \A g \in Blocks!Groups : \A i, j \in 1 .. Len(m_queues[g]) :
          m_queues[g][i] = m_queues[g][j] => i = j
HeldOnce ==
    /\ \A u, v \in Users : ref[u] # None /\ ref[u] = ref[v] => u = v
    /\ \A u \in Users : \A g \in Blocks!Groups : \A i \in 1 .. Len(m_queues[g]) :
          m_queues[g][i] # ref[u]
NoneLost ==
    \A r \in Blocks!Refs : \/ \E u \in Users : ref[u] = r
                           \/ \E i \in 1 .. Len(m_queues[r[1]]) : m_queues[r[1]][i] = r

BlockPlaces == QueuesRight /\ HeldOnce /\ NoneLost
BlockInv == BlockTypes /\ BlockPlaces /\ Blocks!WritesStay

\* A block and its parts.
LEMMA RefParts ==
  ASSUME Blocks!BufferAssumption, NEW r \in Blocks!Refs
  PROVE  /\ r[1] \in Blocks!Groups /\ r[2] \in 0 .. GroupItemCount - 1
         /\ r = <<r[1], r[2]>>
  BY DEF Blocks!Refs

\* What the constructor puts into a queue.
LEMMA FilledQueue ==
  ASSUME Blocks!BufferAssumption, Blocks!Init, NEW g \in Blocks!Groups
  PROVE  /\ m_queues[g] \in Seq(Blocks!Refs) /\ Len(m_queues[g]) = GroupItemCount
         /\ \A i \in 1 .. GroupItemCount : m_queues[g][i] = <<g, i - 1>>
  <1>1. m_queues[g] = [j \in 1 .. GroupItemCount |-> <<g, j - 1>>]
    BY DEF Blocks!Init
  <1>2. \A j \in 1 .. GroupItemCount : <<g, j - 1>> \in Blocks!Refs
    BY DEF Blocks!Refs, Blocks!BufferAssumption
  <1>3. GroupItemCount \in Nat
    BY DEF Blocks!BufferAssumption
  <1> QED
    BY <1>1, <1>2, <1>3, IsASeq, LenProperties

\* The constructor: every block is free.
LEMMA BlockInitInv ==
  ASSUME Blocks!BufferAssumption, Blocks!Init
  PROVE  BlockInv
  <1>1. BlockTypes
    <2>1. m_queues \in [Blocks!Groups -> Seq(Blocks!Refs)]
      BY FilledQueue DEF Blocks!Init
    <2>2. 0 \in Blocks!Groups
      BY DEF Blocks!Groups, Blocks!BufferAssumption
    <2> QED
      BY <2>1, <2>2 DEF Blocks!Init, BlockTypes, Blocks!BufferAssumption
  <1>2. QueuesRight
    BY FilledQueue DEF QueuesRight, Blocks!BufferAssumption
  <1>3. HeldOnce
    <2>1. \A u \in Users : ref[u] = None
      BY DEF Blocks!Init
    <2>2. \A g \in Blocks!Groups : \A i \in 1 .. Len(m_queues[g]) :
             m_queues[g][i] \in Blocks!Refs
      BY FilledQueue, ElementOfSeq
    <2> QED
      BY <2>1, <2>2 DEF HeldOnce, Blocks!BufferAssumption
  <1>4. NoneLost
    <2> SUFFICES ASSUME NEW r \in Blocks!Refs
                 PROVE  \E i \in 1 .. Len(m_queues[r[1]]) : m_queues[r[1]][i] = r
      BY DEF NoneLost
    <2>1. r[2] + 1 \in 1 .. GroupItemCount /\ (r[2] + 1) - 1 = r[2]
      BY RefParts DEF Blocks!BufferAssumption
    <2>2. m_queues[r[1]][r[2] + 1] = <<r[1], r[2]>> /\ Len(m_queues[r[1]]) = GroupItemCount
      BY <2>1, FilledQueue, RefParts
    <2> QED
      BY <2>1, <2>2, RefParts
  <1>5. Blocks!WritesStay
    BY DEF Blocks!Init, Blocks!WritesStay
  <1> QED
    BY <1>1, <1>2, <1>3, <1>4, <1>5 DEF BlockInv, BlockPlaces

\* Two blocks that share a byte of their own are one: n is the number of blocks in a
\* group, w the size of a block.
LEMMA BlocksApart ==
  ASSUME NEW n \in Nat \ {0}, NEW w \in Nat \ {0},
         NEW a \in Nat, NEW b \in 0 .. n - 1, NEW c \in Nat, NEW d \in 0 .. n - 1,
         NEW x \in 0 .. w - 1, NEW y \in 0 .. w - 1,
         a * n * w + b * w + x = c * n * w + d * w + y
  PROVE  a = c /\ b = d
  <1>1. PICK k \in Nat : k = a * n + b
    OBVIOUS
  <1>2. PICK l \in Nat : l = c * n + d
    OBVIOUS
  <1>3. a * n * w + b * w = k * w /\ c * n * w + d * w = l * w
    BY <1>1, <1>2
  <1>4. k * w + x = l * w + y
    BY <1>3
  <1>5. ~(k < l)
    <2> SUFFICES ASSUME k < l PROVE FALSE
      OBVIOUS
    <2>1. PICK e \in Nat : l = k + 1 + e
      BY <1>1, <1>2
    <2>2. l * w = k * w + w + e * w /\ e * w \in Nat /\ k * w \in Nat
      BY <2>1
    <2> QED
      BY <1>4, <2>2
  <1>6. ~(l < k)
    <2> SUFFICES ASSUME l < k PROVE FALSE
      OBVIOUS
    <2>1. PICK e \in Nat : k = l + 1 + e
      BY <1>1, <1>2
    <2>2. k * w = l * w + w + e * w /\ e * w \in Nat /\ l * w \in Nat
      BY <2>1
    <2> QED
      BY <1>4, <2>2
  <1>7. a * n + b = c * n + d
    BY <1>1, <1>2, <1>5, <1>6
  <1>8. ~(a < c)
    <2> SUFFICES ASSUME a < c PROVE FALSE
      OBVIOUS
    <2>1. PICK e \in Nat : c = a + 1 + e
      OBVIOUS
    <2>2. c * n = a * n + n + e * n /\ e * n \in Nat /\ a * n \in Nat
      BY <2>1
    <2> QED
      BY <1>7, <2>2
  <1>9. ~(c < a)
    <2> SUFFICES ASSUME c < a PROVE FALSE
      OBVIOUS
    <2>1. PICK e \in Nat : a = c + 1 + e
      OBVIOUS
    <2>2. a * n = c * n + n + e * n /\ e * n \in Nat /\ c * n \in Nat
      BY <2>1
    <2> QED
      BY <1>7, <2>2
  <1>10. a = c
    BY <1>8, <1>9
  <1>11. a * n \in Nat
    OBVIOUS
  <1> QED
    BY <1>7, <1>10, <1>11

\* The same of the blocks of the buffer: a byte at an offset below ItemSize of two
\* blocks makes them one.
LEMMA RefsApart ==
  ASSUME Blocks!BufferAssumption, NEW r \in Blocks!Refs, NEW s \in Blocks!Refs,
         NEW b \in Int,
         b - Blocks!get_mem_item(r) \in 0 .. ItemSize - 1,
         b - Blocks!get_mem_item(s) \in 0 .. ItemSize - 1
  PROVE  r = s
  <1>1. /\ r[1] \in Nat /\ s[1] \in Nat
        /\ r[2] \in 0 .. GroupItemCount - 1 /\ s[2] \in 0 .. GroupItemCount - 1
        /\ r = <<r[1], r[2]>> /\ s = <<s[1], s[2]>>
        /\ GroupItemCount \in Nat \ {0} /\ ItemSize \in Nat \ {0}
    BY RefParts DEF Blocks!Groups, Blocks!BufferAssumption
  <1>2. PICK k \in Int : k = r[1] * GroupItemCount * ItemSize + r[2] * ItemSize
    BY <1>1
  <1>3. PICK l \in Int : l = s[1] * GroupItemCount * ItemSize + s[2] * ItemSize
    BY <1>1
  <1>4. b - k \in 0 .. ItemSize - 1 /\ b - l \in 0 .. ItemSize - 1
    BY <1>2, <1>3 DEF Blocks!get_mem_item
  <1>5. k + (b - k) = l + (b - l)
    OBVIOUS
  <1>6. r[1] * GroupItemCount * ItemSize + r[2] * ItemSize + (b - k)
          = s[1] * GroupItemCount * ItemSize + s[2] * ItemSize + (b - l)
    BY <1>2, <1>3, <1>5
  <1>7. r[1] = s[1] /\ r[2] = s[2]
    BY ONLY <1>1, <1>4, <1>6, BlocksApart
  <1> QED
    BY <1>1, <1>7

\* Where a block begins is a number.
LEMMA ItemInt ==
  ASSUME Blocks!BufferAssumption, NEW r \in Blocks!Refs
  PROVE  Blocks!get_mem_item(r) \in Int
  <1>1. r[1] \in Int /\ r[2] \in Int /\ GroupItemCount \in Int /\ ItemSize \in Int
    BY RefParts DEF Blocks!Groups, Blocks!BufferAssumption
  <1>2. PICK k \in Int : k = r[1] * GroupItemCount
    BY <1>1
  <1>3. k * ItemSize \in Int /\ r[2] * ItemSize \in Int
    BY <1>1
  <1> QED
    BY <1>2, <1>3 DEF Blocks!get_mem_item

\* A write changes the bytes of the writer's own block only.
LEMMA WriteStays ==
  ASSUME Blocks!BufferAssumption, BlockInv, NEW u \in Users, NEW len \in Lens,
         Blocks!Write(u, len)
  PROVE  BlockInv'
  <1> USE DEF Blocks!BufferAssumption
  <1>0. ItemSize \in Nat /\ len \in Nat /\ len < ItemSize
    BY Zenon DEF Blocks!Write, Blocks!Fits
  <1>1. len \in 0 .. ItemSize - 1 /\ ItemSize \in Nat
    BY ONLY <1>0
  <1>2. /\ wrote' = [wrote EXCEPT ![u] = len] /\ upc[u] = "hold"
        /\ UNCHANGED <<m_queues, m_buffer, upc, group, ref>>
    BY DEF Blocks!Write
  <1>3. BlockTypes'
    BY <1>1, <1>2 DEF BlockInv, BlockTypes
  <1>4. BlockPlaces'
    BY <1>2 DEF BlockInv, BlockPlaces, QueuesRight, HeldOnce, NoneLost
  <1>5. ASSUME NEW v \in Users, ref[v] # None, NEW b \in Blocks!Bytes,
               b - Blocks!get_mem_item(ref[v]) \in 0 .. wrote'[v] - 1
        PROVE  mem'[b] = v
    <2>1. ref[u] \in Blocks!Refs /\ ref[v] \in Blocks!Refs
      BY <1>2, <1>5 DEF BlockInv, BlockTypes
    <2>2. mem'[b] = IF b - Blocks!get_mem_item(ref[u]) \in 0 .. len - 1
                    THEN u ELSE mem[b]
      BY DEF Blocks!Write
    <2>3. CASE v = u
      BY <1>2, <1>5, <2>2, <2>3 DEF BlockInv, BlockTypes
    <2>4. CASE v # u
      <3>1. wrote'[v] = wrote[v] /\ wrote[v] \in 0 .. ItemSize - 1
        BY <1>2, <2>4 DEF BlockInv, BlockTypes
      <3>2. mem[b] = v
        BY <1>5, <3>1 DEF BlockInv, Blocks!WritesStay
      <3>3. ref[u] # ref[v]
        BY <1>5, <2>4 DEF BlockInv, BlockPlaces, HeldOnce
      <3>4. b \in Int
        BY DEF Blocks!Bytes
      <3>5. /\ Blocks!get_mem_item(ref[u]) \in Int
            /\ Blocks!get_mem_item(ref[v]) \in Int
        BY <2>1, ItemInt
      <3>6. b - Blocks!get_mem_item(ref[v]) \in 0 .. ItemSize - 1
        BY <1>1, <1>5, <3>1, <3>4, <3>5
      <3>7. b - Blocks!get_mem_item(ref[u]) \notin 0 .. ItemSize - 1
        BY <2>1, <3>3, <3>4, <3>6, RefsApart
      <3>8. b - Blocks!get_mem_item(ref[u]) \notin 0 .. len - 1
        BY <1>1, <3>4, <3>5, <3>7
      <3> QED
        BY <2>2, <3>2, <3>8
    <2> QED
      BY <2>3, <2>4
  <1>6. Blocks!WritesStay'
    BY <1>2, <1>5 DEF Blocks!WritesStay, Blocks!get_mem_item, Blocks!Bytes
  <1> QED
    BY <1>3, <1>4, <1>6 DEF BlockInv

\* A block goes from the head of its queue to one user.
LEMMA TakeKeepsBlocks ==
  ASSUME Blocks!BufferAssumption, BlockInv, NEW u \in Users, Blocks!PopTake(u)
  PROVE  BlockInv'
  <1> DEFINE g == group[u]
             q == m_queues[g]
             h == Head(q)
  <1>1. /\ g \in Blocks!Groups /\ q \in Seq(Blocks!Refs) /\ q # <<>>
        /\ upc[u] = "pop" /\ ref[u] = None
    BY DEF BlockInv, BlockTypes, Blocks!PopTake
  <1>2. /\ ref' = [ref EXCEPT ![u] = h] /\ upc' = [upc EXCEPT ![u] = "set"]
        /\ m_queues' = [m_queues EXCEPT ![g] = Tail(q)]
        /\ UNCHANGED <<m_buffer, mem, group, wrote>>
    BY DEF Blocks!PopTake, Blocks!Goto
  <1>3. /\ Len(q) \in Nat \ {0} /\ h = q[1] /\ h \in Blocks!Refs
        /\ Tail(q) \in Seq(Blocks!Refs) /\ Len(Tail(q)) = Len(q) - 1
        /\ \A i \in 1 .. Len(Tail(q)) : Tail(q)[i] = q[i + 1]
    BY <1>1, HeadTailProperties, LenProperties
  <1>4. None \notin Blocks!Refs
    BY DEF Blocks!BufferAssumption
  <1>5. /\ m_queues'[g] = Tail(q)
        /\ \A k \in Blocks!Groups : k # g => m_queues'[k] = m_queues[k]
        /\ ref'[u] = h /\ \A v \in Users : v # u => ref'[v] = ref[v]
    BY <1>1, <1>2 DEF BlockInv, BlockTypes
  <1> HIDE DEF g, q, h
  <1>6. BlockTypes'
    <2>1. m_queues' \in [Blocks!Groups -> Seq(Blocks!Refs)]
      BY <1>1, <1>2, <1>3 DEF BlockInv, BlockTypes
    <2>2. /\ ref' \in [Users -> Blocks!Refs \cup {None}]
          /\ upc' \in [Users -> {"idle", "pop", "asleep", "set", "hold", "signal"}]
      BY <1>2, <1>3 DEF BlockInv, BlockTypes
    <2>3. /\ \A v \in Users : upc'[v] \in {"set", "hold"} <=> ref'[v] # None
          /\ \A v \in Users : upc'[v] = "hold" => ref'[v] \in m_buffer'
          /\ \A v \in Users : ref'[v] = None => wrote'[v] = 0
      BY <1>2, <1>3, <1>4 DEF BlockInv, BlockTypes
    <2> QED
      BY <1>2, <2>1, <2>2, <2>3 DEF BlockInv, BlockTypes
  <1>7. QueuesRight'
    <2>1. ASSUME NEW k \in Blocks!Groups, NEW i \in 1 .. Len(m_queues'[k])
          PROVE  m_queues'[k][i][1] = k
      <3>1. CASE k = g
        <4>1. i + 1 \in 1 .. Len(q) /\ m_queues'[k][i] = q[i + 1]
          BY <1>3, <1>5, <2>1, <3>1
        <4> QED
          BY <1>1, <3>1, <4>1 DEF BlockInv, BlockPlaces, QueuesRight, q
      <3>2. CASE k # g
        BY <1>5, <2>1, <3>2 DEF BlockInv, BlockPlaces, QueuesRight
      <3> QED
        BY <3>1, <3>2
    <2>2. ASSUME NEW k \in Blocks!Groups, NEW i \in 1 .. Len(m_queues'[k]),
                 NEW j \in 1 .. Len(m_queues'[k]), m_queues'[k][i] = m_queues'[k][j]
          PROVE  i = j
      <3>1. CASE k = g
        <4>1. i + 1 \in 1 .. Len(q) /\ j + 1 \in 1 .. Len(q)
          BY <1>3, <1>5, <2>2, <3>1
        <4>2. q[i + 1] = q[j + 1]
          BY <1>3, <1>5, <2>2, <3>1
        <4>3. i + 1 = j + 1
          BY <1>1, <4>1, <4>2 DEF BlockInv, BlockPlaces, QueuesRight, q
        <4> QED
          BY <1>3, <1>5, <2>2, <3>1, <4>3
      <3>2. CASE k # g
        BY <1>5, <2>2, <3>2 DEF BlockInv, BlockPlaces, QueuesRight
      <3> QED
        BY <3>1, <3>2
    <2> QED
      BY <2>1, <2>2 DEF QueuesRight
  <1>8. HeldOnce'
    <2>1. \A v \in Users : ref[v] # h
      BY <1>1, <1>3 DEF BlockInv, BlockPlaces, HeldOnce, q
    <2>2. \A v, w \in Users : ref'[v] # None /\ ref'[v] = ref'[w] => v = w
      BY <1>5, <2>1 DEF BlockInv, BlockPlaces, HeldOnce
    <2>3. ASSUME NEW k \in Blocks!Groups, NEW i \in 1 .. Len(m_queues'[k])
          PROVE  /\ m_queues'[k][i] # h
                 /\ \A v \in Users : m_queues'[k][i] # ref[v]
      <3>1. CASE k = g
        <4>1. i + 1 \in 1 .. Len(q) /\ m_queues'[k][i] = q[i + 1] /\ 1 \in 1 .. Len(q)
              /\ i + 1 # 1
          BY <1>3, <1>5, <2>3, <3>1, SMTT(30)
        <4> QED
          BY <1>1, <1>3, <4>1 DEF BlockInv, BlockPlaces, QueuesRight, HeldOnce, q
      <3>2. CASE k # g
        <4>1. h[1] = g
          BY <1>1, <1>3 DEF BlockInv, BlockPlaces, QueuesRight, q
        <4>2. m_queues'[k][i][1] = k /\ m_queues'[k][i] = m_queues[k][i]
          BY <1>5, <2>3, <3>2 DEF BlockInv, BlockPlaces, QueuesRight
        <4>3. m_queues'[k][i] # h
          BY <3>2, <4>1, <4>2
        <4> QED
          BY <1>5, <2>3, <3>2, <4>2, <4>3 DEF BlockInv, BlockPlaces, HeldOnce
      <3> QED
        BY <3>1, <3>2
    <2> QED
      BY <1>5, <2>2, <2>3 DEF HeldOnce
  <1>9. NoneLost'
    <2> SUFFICES ASSUME NEW r \in Blocks!Refs
                 PROVE  \/ \E v \in Users : ref'[v] = r
                        \/ \E i \in 1 .. Len(m_queues'[r[1]]) : m_queues'[r[1]][i] = r
      BY DEF NoneLost, Blocks!Refs, Blocks!Groups
    <2>1. CASE \E v \in Users : ref[v] = r
      BY <1>1, <1>4, <1>5, <2>1
    <2>2. ASSUME NEW i \in 1 .. Len(m_queues[r[1]]), m_queues[r[1]][i] = r
          PROVE  \/ \E v \in Users : ref'[v] = r
                 \/ \E j \in 1 .. Len(m_queues'[r[1]]) : m_queues'[r[1]][j] = r
      <3>1. CASE r[1] # g
        BY <1>5, <2>2, <3>1, RefParts
      <3>2. CASE r[1] = g /\ i = 1
        BY <1>3, <1>5, <2>2, <3>2 DEF q
      <3>3. CASE r[1] = g /\ i # 1
        <4>1. i - 1 \in 1 .. Len(Tail(q)) /\ (i - 1) + 1 = i
          BY <1>3, <2>2, <3>3 DEF q
        <4>2. Tail(q)[i - 1] = r
          BY <1>3, <2>2, <3>3, <4>1 DEF q
        <4> QED
          BY <1>5, <3>3, <4>1, <4>2
      <3> QED
        BY <3>1, <3>2, <3>3
    <2> QED
      BY <2>1, <2>2 DEF BlockInv, BlockPlaces, NoneLost
  <1>10. Blocks!WritesStay'
    <2> SUFFICES ASSUME NEW v \in Users, ref'[v] # None, NEW b \in Blocks!Bytes,
                        b - Blocks!get_mem_item(ref'[v]) \in 0 .. wrote[v] - 1
                 PROVE  mem[b] = v
      BY <1>2 DEF Blocks!WritesStay, Blocks!get_mem_item, Blocks!Bytes
    <2>1. CASE v # u
      BY <1>5, <2>1 DEF BlockInv, Blocks!WritesStay
    <2>2. CASE v = u
      <3>1. wrote[u] = 0
        BY <1>1 DEF BlockInv, BlockTypes
      <3> QED
        BY <2>2, <3>1, <1>5, <1>3, ItemInt DEF Blocks!Bytes
    <2> QED
      BY <2>1, <2>2
  <1> QED
    BY <1>6, <1>7, <1>8, <1>9, <1>10 DEF BlockInv, BlockPlaces

\* A block goes from its user back to the end of its group's queue.
LEMMA PullKeepsBlocks ==
  ASSUME Blocks!BufferAssumption, BlockInv, NEW u \in Users, Blocks!PullBack(u)
  PROVE  BlockInv'
  <1> DEFINE r == ref[u]
             g == r[1]
             q == m_queues[g]
  <1>1. None \notin Blocks!Refs /\ ItemSize \in Nat \ {0}
    BY DEF Blocks!BufferAssumption
  <1>2. upc[u] = "hold" /\ r \in Blocks!Refs /\ r # None
    BY <1>1 DEF BlockInv, BlockTypes, Blocks!PullBack
  <1>3. g \in Blocks!Groups /\ q \in Seq(Blocks!Refs)
    BY <1>2, RefParts DEF BlockInv, BlockTypes
  <1>4. /\ ref' = [ref EXCEPT ![u] = None] /\ upc' = [upc EXCEPT ![u] = "signal"]
        /\ wrote' = [wrote EXCEPT ![u] = 0] /\ group' = [group EXCEPT ![u] = g]
        /\ m_queues' = [m_queues EXCEPT ![g] = Append(q, r)]
        /\ UNCHANGED <<m_buffer, mem>>
    BY DEF Blocks!PullBack, Blocks!Goto
  <1>5. /\ Append(q, r) \in Seq(Blocks!Refs) /\ Len(q) \in Nat
        /\ Len(Append(q, r)) = Len(q) + 1 /\ Append(q, r)[Len(q) + 1] = r
        /\ \A i \in 1 .. Len(q) : Append(q, r)[i] = q[i]
    BY <1>2, <1>3, AppendProperties, LenProperties
  <1>6. /\ m_queues'[g] = Append(q, r)
        /\ \A k \in Blocks!Groups : k # g => m_queues'[k] = m_queues[k]
        /\ ref'[u] = None /\ \A v \in Users : v # u => ref'[v] = ref[v]
        /\ wrote'[u] = 0 /\ \A v \in Users : v # u => wrote'[v] = wrote[v]
    BY <1>3, <1>4 DEF BlockInv, BlockTypes
  <1>7. \A k \in Blocks!Groups : \A i \in 1 .. Len(m_queues[k]) : m_queues[k][i] # r
    BY DEF BlockInv, BlockPlaces, HeldOnce
  \* What is in a queue now was there before, or is the block pulled back.
  <1>8. ASSUME NEW k \in Blocks!Groups, NEW i \in 1 .. Len(m_queues'[k])
        PROVE  \/ i \in 1 .. Len(m_queues[k]) /\ m_queues'[k][i] = m_queues[k][i]
               \/ k = g /\ i = Len(q) + 1 /\ m_queues'[k][i] = r
    <2> HIDE DEF g, r
    <2>1. CASE k # g
      BY <1>6, <1>8, <2>1
    <2>2. CASE k = g
      <3> HIDE DEF q
      <3>1. i \in 1 .. Len(q) + 1 /\ m_queues'[k][i] = Append(q, r)[i]
        BY <1>5, <1>6, <1>8, <2>2
      <3>2. CASE i = Len(q) + 1
        BY <1>5, <2>2, <3>1, <3>2
      <3>3. CASE i \in 1 .. Len(q)
        BY <1>5, <2>2, <3>1, <3>3 DEF q
      <3> QED
        BY <1>5, <3>1, <3>2, <3>3
    <2> QED
      BY <2>1, <2>2
  <1> HIDE DEF g, q, r
  <1>9. BlockTypes'
    <2>1. m_queues' \in [Blocks!Groups -> Seq(Blocks!Refs)]
      BY <1>3, <1>4, <1>5 DEF BlockInv, BlockTypes
    <2>2. /\ ref' \in [Users -> Blocks!Refs \cup {None}]
          /\ upc' \in [Users -> {"idle", "pop", "asleep", "set", "hold", "signal"}]
          /\ wrote' \in [Users -> 0 .. ItemSize - 1]
          /\ group' \in [Users -> Blocks!Groups]
      BY <1>1, <1>3, <1>4 DEF BlockInv, BlockTypes
    <2>3. /\ \A v \in Users : upc'[v] \in {"set", "hold"} <=> ref'[v] # None
          /\ \A v \in Users : upc'[v] = "hold" => ref'[v] \in m_buffer'
          /\ \A v \in Users : ref'[v] = None => wrote'[v] = 0
      BY <1>4, <1>6 DEF BlockInv, BlockTypes
    <2> QED
      BY <1>4, <2>1, <2>2, <2>3 DEF BlockInv, BlockTypes
  <1>10. QueuesRight'
    <2>1. \A k \in Blocks!Groups : \A i \in 1 .. Len(m_queues'[k]) :
             m_queues'[k][i][1] = k
      BY <1>8 DEF BlockInv, BlockPlaces, QueuesRight, g
    <2>2. ASSUME NEW k \in Blocks!Groups, NEW i \in 1 .. Len(m_queues'[k]),
                 NEW j \in 1 .. Len(m_queues'[k]), m_queues'[k][i] = m_queues'[k][j]
          PROVE  i = j
      BY <1>7, <1>8, <2>2 DEF BlockInv, BlockPlaces, QueuesRight
    <2> QED
      BY <2>1, <2>2 DEF QueuesRight
  <1>11. HeldOnce'
    <2>1. \A v, w \in Users : ref'[v] # None /\ ref'[v] = ref'[w] => v = w
      BY <1>6 DEF BlockInv, BlockPlaces, HeldOnce
    <2>2. ASSUME NEW v \in Users, NEW k \in Blocks!Groups,
                 NEW i \in 1 .. Len(m_queues'[k])
          PROVE  m_queues'[k][i] # ref'[v]
      <3>1. CASE v = u
        <4>1. m_queues'[k][i] \in Blocks!Refs
          BY <1>9, <2>2, ElementOfSeq DEF BlockTypes
        <4> QED
          BY <1>1, <1>6, <3>1, <4>1
      <3>2. CASE v # u
        <4>1. ref[v] # r
          BY <1>2, <3>2 DEF BlockInv, BlockPlaces, HeldOnce, r
        <4> QED
          BY <1>6, <1>8, <2>2, <3>2, <4>1 DEF BlockInv, BlockPlaces, HeldOnce
      <3> QED
        BY <3>1, <3>2
    <2> QED
      BY <2>1, <2>2 DEF HeldOnce
  <1>12. NoneLost'
    <2> SUFFICES ASSUME NEW s \in Blocks!Refs
                 PROVE  \/ \E v \in Users : ref'[v] = s
                        \/ \E i \in 1 .. Len(m_queues'[s[1]]) : m_queues'[s[1]][i] = s
      BY DEF NoneLost, Blocks!Refs, Blocks!Groups
    <2>1. CASE s = r
      <3>1. Len(q) + 1 \in 1 .. Len(m_queues'[g]) /\ m_queues'[g][Len(q) + 1] = r
        BY <1>5, <1>6
      <3> QED
        BY <2>1, <3>1 DEF g
    <2>2. ASSUME s # r, NEW v \in Users, ref[v] = s
          PROVE  \E w \in Users : ref'[w] = s
      BY <1>6, <2>2 DEF r
    <2>3. ASSUME NEW i \in 1 .. Len(m_queues[s[1]]), m_queues[s[1]][i] = s
          PROVE  \E j \in 1 .. Len(m_queues'[s[1]]) : m_queues'[s[1]][j] = s
      <3>1. CASE s[1] = g
        <4>1. i \in 1 .. Len(m_queues'[s[1]]) /\ m_queues'[s[1]][i] = s
          BY <1>5, <1>6, <2>3, <3>1, SMTT(30) DEF q
        <4> QED
          BY <4>1
      <3>2. CASE s[1] # g
        BY <1>6, <2>3, <3>2, RefParts
      <3> QED
        BY <3>1, <3>2
    <2> QED
      BY <2>1, <2>2, <2>3 DEF BlockInv, BlockPlaces, NoneLost
  <1>13. Blocks!WritesStay'
    BY <1>4, <1>6 DEF BlockInv, Blocks!WritesStay, Blocks!get_mem_item, Blocks!Bytes
  <1> QED
    BY <1>9, <1>10, <1>11, <1>12, <1>13 DEF BlockInv, BlockPlaces

\* The steps that only move users: no block, no byte changes.
LEMMA OthersKeepBlocks ==
  ASSUME BlockInv, BlockTypes', UNCHANGED <<m_queues, mem, ref, wrote>>
  PROVE  BlockInv'
  BY SMTT(30) DEF BlockInv, BlockPlaces, QueuesRight, HeldOnce, NoneLost, Blocks!WritesStay,
         Blocks!get_mem_item, Blocks!Bytes, Blocks!Refs, Blocks!Groups

\* Every step of every user keeps BlockInv.
LEMMA BlockNextInv ==
  ASSUME Blocks!BufferAssumption, BlockInv, [Blocks!Next]_blockVars
  PROVE  BlockInv'
  <1> USE DEF Blocks!Goto
  <1>0. BlockTypes /\ None \notin Blocks!Refs
    BY DEF BlockInv, Blocks!BufferAssumption
  <1>1. ASSUME NEW u \in Users, NEW g \in Blocks!Groups, Blocks!Pop(u, g)
        PROVE  BlockInv'
    <2>1. BlockTypes'
      BY <1>0, <1>1 DEF Blocks!Pop, BlockTypes
    <2> QED
      BY <1>1, <2>1, OthersKeepBlocks DEF Blocks!Pop
  <1>2. ASSUME NEW u \in Users, Blocks!PopWait(u) \/ Blocks!SpuriousWakeup(u)
        PROVE  BlockInv'
    <2>1. BlockTypes'
      BY <1>0, <1>2 DEF Blocks!PopWait, Blocks!SpuriousWakeup, BlockTypes
    <2> QED
      BY <1>2, <2>1, OthersKeepBlocks DEF Blocks!PopWait, Blocks!SpuriousWakeup
  <1>3. ASSUME NEW u \in Users, Blocks!SetBuffer(u)
        PROVE  BlockInv'
    <2>1. ref[u] \in Blocks!Refs
      BY <1>0, <1>3 DEF Blocks!SetBuffer, BlockTypes
    <2>2. BlockTypes'
      BY <1>0, <1>3, <2>1 DEF Blocks!SetBuffer, BlockTypes
    <2> QED
      BY <1>3, <2>2, OthersKeepBlocks DEF Blocks!SetBuffer
  <1>4. ASSUME NEW u \in Users, Blocks!Signal(u)
        PROVE  BlockInv'
    <2>1. BlockTypes'
      BY <1>0, <1>4 DEF Blocks!Signal, Blocks!Asleep, BlockTypes
    <2> QED
      BY <1>4, <2>1, OthersKeepBlocks DEF Blocks!Signal
  <1>5. CASE UNCHANGED blockVars
    BY <1>0, <1>5, OthersKeepBlocks DEF blockVars, BlockTypes
  <1> QED
    BY <1>1, <1>2, <1>3, <1>4, <1>5, WriteStays, TakeKeepsBlocks, PullKeepsBlocks
    DEF Blocks!Next, Blocks!Working

\* The instance has the number of elements of the standard module.
LEMMA BlockCardinality == \A S : Blocks!Cardinality(S) = Cardinality(S)
  BY DEF Blocks!Cardinality, Cardinality

\* With its place known, a block is counted once.
LEMMA BlockInvOwned ==
  ASSUME BlockInv, Blocks!BufferAssumption
  PROVE  BlocksOwned
  <1>1. Blocks!TypeOK
    BY ElementOfSeq DEF BlockInv, BlockTypes, Blocks!TypeOK
  <1>2. ASSUME NEW r \in Blocks!Refs
        PROVE  Cardinality(Blocks!HeldBy(r))
                 + Cardinality({i \in 1 .. Len(m_queues[r[1]]) : m_queues[r[1]][i] = r}) = 1
    <2> DEFINE C == {i \in 1 .. Len(m_queues[r[1]]) : m_queues[r[1]][i] = r}
    <2>0. r[1] \in Blocks!Groups /\ r # None
      BY RefParts DEF Blocks!BufferAssumption
    <2>1. ASSUME NEW u \in Users, ref[u] = r
          PROVE  Cardinality(Blocks!HeldBy(r)) = 1 /\ Cardinality(C) = 0
      <3>1. Blocks!HeldBy(r) = {u}
        BY <2>0, <2>1 DEF Blocks!HeldBy, BlockInv, BlockPlaces, HeldOnce
      <3>2. C = {}
        BY <2>0, <2>1 DEF BlockInv, BlockPlaces, HeldOnce
      <3> HIDE DEF C
      <3> QED
        BY <3>1, <3>2, FS_Singleton, FS_EmptySet
    <2>2. ASSUME \A u \in Users : ref[u] # r
          PROVE  Cardinality(Blocks!HeldBy(r)) = 0 /\ Cardinality(C) = 1
      <3>1. Blocks!HeldBy(r) = {}
        BY <2>2 DEF Blocks!HeldBy
      <3>2. PICK i \in 1 .. Len(m_queues[r[1]]) : m_queues[r[1]][i] = r
        BY <2>2 DEF BlockInv, BlockPlaces, NoneLost
      <3>3. C = {i}
        BY <2>0, <3>2 DEF BlockInv, BlockPlaces, QueuesRight
      <3> HIDE DEF C
      <3> QED
        BY <3>1, <3>3, FS_Singleton, FS_EmptySet
    <2> HIDE DEF C
    <2>3. Cardinality(Blocks!HeldBy(r)) + Cardinality(C) = 1
      BY <2>1, <2>2
    <2> QED
      BY <2>3 DEF C
  <1>3. Blocks!BlocksConserved
    BY <1>2, BlockCardinality DEF Blocks!BlocksConserved
  <1> QED
    BY <1>1, <1>3 DEF BlockInv, BlocksOwned

\* RollFixBuffer: for any groups, blocks and users, no block is lost or given out
\* twice, and what a user wrote stays in its block.
THEOREM BlocksStay ==
  ASSUME Blocks!BufferAssumption
  PROVE  Blocks!Spec => []BlocksOwned
  <1>1. Blocks!Init => BlockInv
    BY BlockInitInv
  <1>2. BlockInv /\ [Blocks!Next]_(Blocks!vars) => BlockInv'
    BY BlockNextInv DEF Blocks!vars, blockVars
  <1>3. BlockInv => BlocksOwned
    BY BlockInvOwned
  <1> QED
    BY <1>1, <1>2, <1>3, PTL DEF Blocks!Spec

\* The same for the behaviours of the composed specification.
THEOREM BlocksAlways == ThreadsSpec => []BlocksOwned
  <1>0. Blocks!BufferAssumption
    BY PartAssumptions
  <1>1. ThreadsInit => BlockInv
    BY <1>0, BlockInitInv DEF ThreadsInit
  <1>2. BlockInv /\ [ThreadsNext]_allVars => BlockInv'
    BY <1>0, BlockNextInv DEF ThreadsNext, allVars, blockVars
  <1>3. BlockInv => BlocksOwned
    BY <1>0, BlockInvOwned
  <1> QED
    BY <1>1, <1>2, <1>3, PTL DEF ThreadsSpec

-----------------------------------------------------------------------------
(* ThreadPool *)

\* A child that said that it runs; one on its way out; one that Init has not
\* created; one that Init is done with, whose status says unused only if it is on
\* its way out.
Runs(t)  == child[t] \notin {"none", "args", "son"}
Out(t)   == child[t] \in {"exiting", "ended"}
Blank(t) == child[t] = "none" /\ m_pinfos[t].cs = CS_UNUSED /\ ~m_pinfos[t].valid
Whole(t) == Runs(t) /\ m_pinfos[t].valid /\ (m_pinfos[t].cs = CS_UNUSED => Out(t))

\* How far Init is: the children below the index are whole, those above it are
\* blank, and the one at it is where Init's own steps put it.  The flag is set only
\* for the child Init waits for.
Created(t) ==
    LET p == t[1] k == t[2] IN
    /\ parent[p] = "made" => Blank(t)
    /\ parent[p] \in {"create", "wait", "store", "status", "threw"} =>
          (k < at[p] => Whole(t)) /\ (k > at[p] => Blank(t))
    /\ parent[p] \in {"create", "threw"} /\ k = at[p] => Blank(t)
    /\ parent[p] = "wait" /\ k = at[p] =>
          ~m_pinfos[t].valid /\ child[t] # "none" /\ (Runs(t) <=> s_uChildCreated = 1)
    /\ parent[p] = "store" /\ k = at[p] => Runs(t) /\ ~m_pinfos[t].valid
    /\ parent[p] = "status" /\ k = at[p] => Runs(t) /\ m_pinfos[t].valid
    /\ parent[p] = "inited" => Whole(t)

\* How far the end is: who is still to be joined has a valid thread.
Released(t) ==
    LET p == t[1] k == t[2] IN
    /\ parent[p] \in {"join", "joined", "free", "freejoin", "freed"} =>
          child[t] \notin {"args", "son"}
    /\ parent[p] = "join" /\ k >= at[p] => m_pinfos[t].valid
    /\ parent[p] \in {"free", "freejoin"} =>
          (m_pinfos[t].cs = CS_UNUSED => Out(t) \/ child[t] = "none")
    /\ parent[p] \in {"free", "freejoin"} /\ k >= at[p] =>
          (m_pinfos[t].cs # CS_UNUSED => m_pinfos[t].valid)
    /\ parent[p] = "freejoin" /\ k = at[p] => m_pinfos[t].valid

\* Of the pool: where its index is, whether the arguments are there, and that the
\* flag is reset whenever Init is not waiting.
Owned(p) ==
    /\ parent[p] \in {"wait", "store", "status", "freejoin"} => at[p] < ChildCount
    /\ parent[p] \in {"create", "wait", "store", "status"} => parr[p]
    /\ parent[p] # "wait" => s_uChildCreated = 0

ThreadInv == /\ TypeOK /\ badArg = {} /\ badJoin = {}
             /\ \A p \in Pools : Owned(p)
             /\ \A t \in Threads : Created(t)
             /\ \A t \in Threads : Released(t)

\* The handshake's flag is shared by all pools of the process: what follows is about
\* a process that has one.
OnePool == \A p, q \in Pools : p = q

\* A thread is a pool and a number.
LEMMA ThreadParts ==
  ASSUME NEW t \in Threads
  PROVE  t[1] \in Pools /\ t[2] \in Children /\ t = <<t[1], t[2]>>
  BY DEF Threads

LEMMA ThreadOf ==
  ASSUME NEW p \in Pools, NEW k \in Children
  PROVE  /\ <<p, k>> \in Threads /\ <<p, k>>[1] = p /\ <<p, k>>[2] = k
         /\ \A t \in Threads : t[1] = p /\ t[2] = k => t = <<p, k>>
  BY DEF Threads

\* Before Init there is no child.
LEMMA ThreadInitInv ==
  ASSUME Init
  PROVE  ThreadInv
  <1>1. TypeOK
    <2>1. ChildCount \in Nat /\ 0 \in 0 .. ChildCount
      BY PoolAssumption
    <2> QED
      BY <2>1 DEF Init, TypeOK, CS_UNUSED, CS_IDLE, CS_BUSY
  <1>2. \A p \in Pools : Owned(p)
    BY DEF Init, Owned
  <1>3. ASSUME NEW t \in Threads PROVE Created(t) /\ Released(t)
    BY <1>3, ThreadParts DEF Init, Created, Released, Blank
  <1> QED
    BY <1>1, <1>2, <1>3 DEF Init, ThreadInv

\* A child that has not said that it runs is the one Init waits for.
LEMMA ChildAwaited ==
  ASSUME ThreadInv, NEW c \in Threads, child[c] \in {"args", "son"}
  PROVE  parent[c[1]] = "wait"
  <1> DEFINE p == c[1]
             k == c[2]
  <1>1. /\ p \in Pools /\ k \in Int /\ at[p] \in Int
        /\ parent[p] \in {"made", "create", "wait", "store", "status", "inited",
                           "threw", "join", "joined", "free", "freejoin", "freed"}
    BY ThreadParts, PoolAssumption DEF ThreadInv, TypeOK, Children
  <1>2. k < at[p] \/ k = at[p] \/ k > at[p]
    BY <1>1
  <1>3. ~Runs(c) /\ ~Blank(c) /\ ~Whole(c)
    BY DEF Runs, Blank, Whole
  <1>4. Created(c) /\ Released(c)
    BY DEF ThreadInv
  <1> QED
    BY <1>1, <1>2, <1>3, <1>4 DEF Created, Released

\* The steps of a child keep ThreadInv: it reads its arguments only while Init waits.
LEMMA ChildKeeps ==
  ASSUME OnePool, ThreadInv, NEW c \in Threads,
         Beginning(c) \/ ChildEnds(c) \/ BeforeThreadExit(c) \/ Cancelled(c)
  PROVE  ThreadInv'
  <1> USE PoolAssumption DEF OnePool, CS_UNUSED, CS_IDLE, CS_BUSY, Step, Goto, shared, Children
  <1>1. CASE ReadArgs(c)
    <2>0. parent[c[1]] = "wait"
      BY <1>1, ChildAwaited DEF ReadArgs
    <2>1. TypeOK'
      BY <1>1 DEF ThreadInv, TypeOK, ReadArgs
    <2>2. \A p \in Pools : Owned(p)'
      BY <1>1 DEF ThreadInv, TypeOK, Owned, ReadArgs
    <2>3. ASSUME NEW t \in Threads PROVE Created(t)'
      BY <1>1, <2>3, ThreadParts DEF ThreadInv, TypeOK, Owned, ReadArgs, Created, Runs, Out, Blank, Whole
    <2>4. ASSUME NEW t \in Threads PROVE Released(t)'
      BY <1>1, <2>4, ThreadParts DEF ThreadInv, TypeOK, ReadArgs, Created, Released, Runs, Out, Blank, Whole
    <2>5. badArg' = {}
      BY <1>1, <2>0, ThreadParts DEF ThreadInv, ReadArgs, Owned
    <2> QED
      BY <1>1, <2>1, <2>2, <2>3, <2>4, <2>5 DEF ThreadInv, ReadArgs
  <1>2. CASE SonRun(c)
    <2>0. parent[c[1]] = "wait"
      BY <1>2, ChildAwaited DEF SonRun
    <2>1. TypeOK'
      BY <1>2 DEF ThreadInv, TypeOK, SonRun
    <2>2. \A p \in Pools : Owned(p)'
      BY <1>2, <2>0, ThreadParts DEF ThreadInv, Owned, SonRun
    <2>3. ASSUME NEW t \in Threads PROVE Created(t)'
      BY <1>2, <2>3, ThreadParts DEF ThreadInv, TypeOK, Owned, SonRun, Created, Runs, Out, Blank, Whole
    <2>4. ASSUME NEW t \in Threads PROVE Released(t)'
      BY <1>2, <2>4, ThreadParts DEF ThreadInv, TypeOK, SonRun, Created, Released, Runs, Out, Blank, Whole
    <2> QED
      BY <1>2, <2>1, <2>2, <2>3, <2>4 DEF ThreadInv, SonRun
  <1>3. CASE SetBusy(c)
    <2>1. TypeOK'
      BY <1>3 DEF ThreadInv, TypeOK, SetBusy
    <2>2. \A p \in Pools : Owned(p)'
      BY <1>3 DEF ThreadInv, TypeOK, Owned, SetBusy
    <2>3. ASSUME NEW t \in Threads PROVE Created(t)'
      BY <1>3, <2>3, ThreadParts DEF ThreadInv, TypeOK, Owned, SetBusy, Created, Runs, Out, Blank, Whole
    <2>4. ASSUME NEW t \in Threads PROVE Released(t)'
      BY <1>3, <2>4, ThreadParts DEF ThreadInv, TypeOK, SetBusy, Created, Released, Runs, Out, Blank, Whole
    <2> QED
      BY <1>3, <2>1, <2>2, <2>3, <2>4 DEF ThreadInv, SetBusy
  <1>4. CASE ChildEnds(c)
    <2>1. TypeOK'
      BY <1>4 DEF ThreadInv, TypeOK, ChildEnds
    <2>2. \A p \in Pools : Owned(p)'
      BY <1>4 DEF ThreadInv, TypeOK, Owned, ChildEnds
    <2>3. ASSUME NEW t \in Threads PROVE Created(t)'
      BY <1>4, <2>3, ThreadParts DEF ThreadInv, TypeOK, Owned, ChildEnds, Created, Runs, Out, Blank, Whole
    <2>4. ASSUME NEW t \in Threads PROVE Released(t)'
      BY <1>4, <2>4, ThreadParts DEF ThreadInv, TypeOK, ChildEnds, Created, Released, Runs, Out, Blank, Whole
    <2> QED
      BY <1>4, <2>1, <2>2, <2>3, <2>4 DEF ThreadInv, ChildEnds
  <1>5. CASE BeforeThreadExit(c)
    <2>1. TypeOK'
      BY <1>5 DEF ThreadInv, TypeOK, BeforeThreadExit
    <2>2. \A p \in Pools : Owned(p)'
      BY <1>5 DEF ThreadInv, TypeOK, Owned, BeforeThreadExit
    <2>3. ASSUME NEW t \in Threads PROVE Created(t)'
      BY <1>5, <2>3, ThreadParts DEF ThreadInv, TypeOK, Owned, BeforeThreadExit, Created, Runs, Out, Blank, Whole
    <2>4. ASSUME NEW t \in Threads PROVE Released(t)'
      BY <1>5, <2>4, ThreadParts DEF ThreadInv, TypeOK, BeforeThreadExit, Created, Released, Runs, Out, Blank, Whole
    <2> QED
      BY <1>5, <2>1, <2>2, <2>3, <2>4 DEF ThreadInv, BeforeThreadExit
  <1>6. CASE Cancelled(c)
    <2>1. TypeOK'
      BY <1>6 DEF ThreadInv, TypeOK, Cancelled
    <2>2. \A p \in Pools : Owned(p)'
      BY <1>6 DEF ThreadInv, TypeOK, Owned, Cancelled
    <2>3. ASSUME NEW t \in Threads PROVE Created(t)'
      BY <1>6, <2>3, ThreadParts DEF ThreadInv, TypeOK, Owned, Cancelled, Created, Runs, Out, Blank, Whole
    <2>4. ASSUME NEW t \in Threads PROVE Released(t)'
      BY <1>6, <2>4, ThreadParts DEF ThreadInv, TypeOK, Cancelled, Created, Released, Runs, Out, Blank, Whole
    <2> QED
      BY <1>6, <2>1, <2>2, <2>3, <2>4 DEF ThreadInv, Cancelled
  <1> QED
    BY <1>1, <1>2, <1>3, <1>4, <1>5, <1>6 DEF Beginning

\* The steps of Init keep ThreadInv.
LEMMA InitKeeps ==
  ASSUME OnePool, ThreadInv, NEW o \in Pools,
         Starting(o) \/ Create(o) \/ CreateFails(o) \/ SpuriousWakeup(o)
  PROVE  ThreadInv'
  <1> USE PoolAssumption DEF OnePool, CS_UNUSED, CS_IDLE, CS_BUSY, Step, Goto, shared, Children
  <1>1. CASE InitBegin(o)
    <2>1. TypeOK'
      <3>1. at' \in [Pools -> 0 .. ChildCount] /\ 0 \in 0 .. ChildCount
        BY <1>1 DEF ThreadInv, TypeOK, InitBegin
      <3>2. CASE ChildCount = 0
        BY <1>1, <3>1, <3>2 DEF ThreadInv, TypeOK, InitBegin
      <3>3. CASE ChildCount # 0
        BY <1>1, <3>1, <3>3 DEF ThreadInv, TypeOK, InitBegin
      <3> QED
        BY <3>2, <3>3
    <2>2. \A p \in Pools : Owned(p)'
      BY <1>1 DEF ThreadInv, TypeOK, Owned, InitBegin
    <2>3. ASSUME NEW t \in Threads PROVE Created(t)'
      BY <1>1, <2>3, ThreadParts DEF ThreadInv, TypeOK, Owned, InitBegin, Created, Runs, Out, Blank, Whole
    <2>4. ASSUME NEW t \in Threads PROVE Released(t)'
      BY <1>1, <2>4, ThreadParts DEF ThreadInv, TypeOK, InitBegin, Created, Released, Runs, Out, Blank, Whole
    <2> QED
      BY <1>1, <2>1, <2>2, <2>3, <2>4 DEF ThreadInv, InitBegin
  <1>2. CASE Create(o)
    <2>0. at[o] \in Children /\ <<o, at[o]>> \in Threads
      BY <1>2, ThreadOf DEF ThreadInv, TypeOK, Owned, Create
    <2>1. TypeOK'
      BY <1>2, <2>0 DEF ThreadInv, TypeOK, Create
    <2>2. \A p \in Pools : Owned(p)'
      BY <1>2, <2>0 DEF ThreadInv, TypeOK, Owned, Create
    <2>3. ASSUME NEW t \in Threads PROVE Created(t)'
      BY <1>2, <2>0, <2>3, ThreadParts DEF ThreadInv, TypeOK, Owned, Create, Created, Runs, Out, Blank, Whole
    <2>4. ASSUME NEW t \in Threads PROVE Released(t)'
      BY <1>2, <2>0, <2>4, ThreadParts DEF ThreadInv, TypeOK, Create, Created, Released, Runs, Out, Blank, Whole
    <2> QED
      BY <1>2, <2>1, <2>2, <2>3, <2>4 DEF ThreadInv, Create
  <1>3. CASE CreateFails(o)
    <2>1. TypeOK'
      BY <1>3 DEF ThreadInv, TypeOK, CreateFails
    <2>2. \A p \in Pools : Owned(p)'
      BY <1>3 DEF ThreadInv, TypeOK, Owned, CreateFails
    <2>3. ASSUME NEW t \in Threads PROVE Created(t)'
      BY <1>3, <2>3, ThreadParts DEF ThreadInv, TypeOK, Owned, CreateFails, Created, Runs, Out, Blank, Whole
    <2>4. ASSUME NEW t \in Threads PROVE Released(t)'
      BY <1>3, <2>4, ThreadParts DEF ThreadInv, TypeOK, CreateFails, Created, Released, Runs, Out, Blank, Whole
    <2> QED
      BY <1>3, <2>1, <2>2, <2>3, <2>4 DEF ThreadInv, CreateFails
  <1>4. CASE WaitSonRun(o)
    <2>1. TypeOK'
      BY <1>4 DEF ThreadInv, TypeOK, WaitSonRun
    <2>2. \A p \in Pools : Owned(p)'
      BY <1>4 DEF ThreadInv, TypeOK, Owned, WaitSonRun
    <2>3. ASSUME NEW t \in Threads PROVE Created(t)'
      BY <1>4, <2>3, ThreadParts DEF ThreadInv, TypeOK, Owned, WaitSonRun, Created, Runs, Out, Blank, Whole
    <2>4. ASSUME NEW t \in Threads PROVE Released(t)'
      BY <1>4, <2>4, ThreadParts DEF ThreadInv, TypeOK, WaitSonRun, Created, Released, Runs, Out, Blank, Whole
    <2> QED
      BY <1>4, <2>1, <2>2, <2>3, <2>4 DEF ThreadInv, WaitSonRun
  <1>5. CASE SpuriousWakeup(o)
    <2>1. TypeOK'
      BY <1>5 DEF ThreadInv, TypeOK, SpuriousWakeup
    <2>2. \A p \in Pools : Owned(p)'
      BY <1>5 DEF ThreadInv, TypeOK, Owned, SpuriousWakeup
    <2>3. ASSUME NEW t \in Threads PROVE Created(t)'
      BY <1>5, <2>3, ThreadParts DEF ThreadInv, TypeOK, Owned, SpuriousWakeup, Created, Runs, Out, Blank, Whole
    <2>4. ASSUME NEW t \in Threads PROVE Released(t)'
      BY <1>5, <2>4, ThreadParts DEF ThreadInv, TypeOK, SpuriousWakeup, Created, Released, Runs, Out, Blank, Whole
    <2> QED
      BY <1>5, <2>1, <2>2, <2>3, <2>4 DEF ThreadInv, SpuriousWakeup
  <1>6. CASE StoreThread(o)
    <2>0. at[o] \in Children /\ <<o, at[o]>> \in Threads
      BY <1>6, ThreadOf DEF ThreadInv, TypeOK, Owned, StoreThread
    <2>1. TypeOK'
      BY <1>6, <2>0, ZenonT(30) DEF ThreadInv, TypeOK, StoreThread
    <2>2. \A p \in Pools : Owned(p)'
      BY <1>6, <2>0 DEF ThreadInv, TypeOK, Owned, StoreThread
    <2>3. ASSUME NEW t \in Threads PROVE Created(t)'
      BY <1>6, <2>0, <2>3, ThreadParts DEF ThreadInv, TypeOK, Owned, StoreThread, Created, Runs, Out, Blank, Whole
    <2>4. ASSUME NEW t \in Threads PROVE Released(t)'
      BY <1>6, <2>0, <2>4, ThreadParts DEF ThreadInv, TypeOK, StoreThread, Created, Released, Runs, Out, Blank, Whole
    <2> QED
      BY <1>6, <2>1, <2>2, <2>3, <2>4 DEF ThreadInv, StoreThread
  <1>7. CASE StoreStatus(o)
    <2>0. at[o] \in Children /\ <<o, at[o]>> \in Threads
      BY <1>7, ThreadOf DEF ThreadInv, TypeOK, Owned, StoreStatus
    <2>1. TypeOK'
      BY <1>7, <2>0 DEF ThreadInv, TypeOK, StoreStatus
    <2>2. \A p \in Pools : Owned(p)'
      BY <1>7, <2>0 DEF ThreadInv, TypeOK, Owned, StoreStatus
    <2>3. ASSUME NEW t \in Threads PROVE Created(t)'
      <3>1. t[1] = o /\ t[2] \in Int /\ at[o] \in Int /\ t = <<t[1], t[2]>>
        BY <2>0, ThreadParts
      <3>2. /\ parent[o] = "status" /\ parent'[o] = "create" /\ at'[o] = at[o] + 1
            /\ child' = child
        BY <1>7 DEF ThreadInv, TypeOK, StoreStatus
      <3>3. CASE t[2] = at[o]
        <4>1. m_pinfos'[t] = [m_pinfos[t] EXCEPT !.cs = CS_IDLE] /\ m_pinfos[t] \in [cs : {CS_UNUSED, CS_IDLE, CS_BUSY}, valid : BOOLEAN]
          BY <1>7, <3>1, <3>3, ZenonT(30) DEF ThreadInv, TypeOK, StoreStatus
        <4>2. m_pinfos'[t].cs = CS_IDLE /\ m_pinfos'[t].valid = m_pinfos[t].valid
          BY <4>1
        <4>3. Runs(t) /\ m_pinfos[t].valid
          BY <3>1, <3>2, <3>3 DEF ThreadInv, Created
        <4>4. Whole(t)'
          BY <3>2, <4>2, <4>3 DEF Whole, Runs
        <4> QED
          BY <3>1, <3>2, <3>3, <4>4 DEF Created
      <3>4. CASE t[2] # at[o]
        <4>1. m_pinfos'[t] = m_pinfos[t]
          BY <1>7, <3>1, <3>4 DEF ThreadInv, TypeOK, StoreStatus
        <4>2. (t[2] < at[o] => Whole(t)') /\ (t[2] > at[o] => Blank(t)')
          BY <3>1, <3>2, <4>1 DEF ThreadInv, Created, Whole, Blank, Runs, Out
        <4> QED
          BY <3>1, <3>2, <3>4, <4>2 DEF Created
      <3> QED
        BY <3>3, <3>4
    <2>4. ASSUME NEW t \in Threads PROVE Released(t)'
      BY <1>7, <2>0, <2>4, ThreadParts DEF ThreadInv, TypeOK, StoreStatus, Created, Released, Runs, Out, Blank, Whole
    <2> QED
      BY <1>7, <2>1, <2>2, <2>3, <2>4 DEF ThreadInv, StoreStatus
  <1>8. CASE InitEnd(o)
    <2>1. TypeOK'
      BY <1>8 DEF ThreadInv, TypeOK, InitEnd
    <2>2. \A p \in Pools : Owned(p)'
      BY <1>8 DEF ThreadInv, TypeOK, Owned, InitEnd
    <2>3. ASSUME NEW t \in Threads PROVE Created(t)'
      BY <1>8, <2>3, ThreadParts DEF ThreadInv, TypeOK, Owned, InitEnd, Created, Runs, Out, Blank, Whole
    <2>4. ASSUME NEW t \in Threads PROVE Released(t)'
      BY <1>8, <2>4, ThreadParts DEF ThreadInv, TypeOK, InitEnd, Created, Released, Runs, Out, Blank, Whole
    <2> QED
      BY <1>8, <2>1, <2>2, <2>3, <2>4 DEF ThreadInv, InitEnd
  <1> QED
    BY <1>1, <1>2, <1>3, <1>4, <1>5, <1>6, <1>7, <1>8 DEF Starting

\* The steps of JoinAll and of the destructor keep ThreadInv, if no pool is destroyed
\* after JoinAll: every thread they join is valid.
LEMMA EndKeeps ==
  ASSUME OnePool, ThreadInv, NEW o \in Pools,
         ~DestroyAfterJoin, JoinAll(o) \/ Destroy(o) \/ Freeing(o)
  PROVE  ThreadInv'
  <1> USE PoolAssumption DEF OnePool, CS_UNUSED, CS_IDLE, CS_BUSY, Step, Goto, shared, Children
  <1>1. CASE JoinAll(o)
    <2>1. TypeOK'
      BY <1>1 DEF ThreadInv, TypeOK, JoinAll
    <2>2. \A p \in Pools : Owned(p)'
      BY <1>1 DEF ThreadInv, TypeOK, Owned, JoinAll
    <2>3. ASSUME NEW t \in Threads PROVE Created(t)'
      BY <1>1, <2>3, ThreadParts DEF ThreadInv, TypeOK, Owned, JoinAll, Created, Runs, Out, Blank, Whole
    <2>4. ASSUME NEW t \in Threads PROVE Released(t)'
      BY <1>1, <2>4, ThreadParts DEF ThreadInv, TypeOK, JoinAll, Created, Released, Runs, Out, Blank, Whole
    <2> QED
      BY <1>1, <2>1, <2>2, <2>3, <2>4 DEF ThreadInv, JoinAll
  <1>2. CASE JoinNext(o)
    <2>0. at[o] \in Children /\ <<o, at[o]>> \in Threads
      BY <1>2, ThreadOf DEF ThreadInv, TypeOK, Owned, JoinNext
    <2>1. TypeOK'
      <3>1. m_pinfos' \in [Threads -> [cs : {CS_UNUSED, CS_IDLE, CS_BUSY}, valid : BOOLEAN]]
        BY <1>2, <2>0, ZenonT(30) DEF ThreadInv, TypeOK, JoinNext
      <3>2. at' \in [Pools -> 0 .. ChildCount]
        BY <1>2, <2>0 DEF ThreadInv, TypeOK, JoinNext
      <3> QED
        BY <1>2, <3>1, <3>2 DEF ThreadInv, TypeOK, JoinNext
    <2>2. \A p \in Pools : Owned(p)'
      BY <1>2, <2>0 DEF ThreadInv, TypeOK, Owned, JoinNext
    <2>3. ASSUME NEW t \in Threads PROVE Created(t)'
      BY <1>2, <2>0, <2>3, ThreadParts DEF ThreadInv, TypeOK, Owned, JoinNext, Created, Runs, Out, Blank, Whole
    <2>4. ASSUME NEW t \in Threads PROVE Released(t)'
      BY <1>2, <2>0, <2>4, ThreadParts DEF ThreadInv, TypeOK, JoinNext, Created, Released, Runs, Out, Blank, Whole
    <2>5. badJoin' = {}
      BY <1>2, <2>0, ThreadOf DEF ThreadInv, TypeOK, JoinNext, Released
    <2> QED
      BY <1>2, <2>1, <2>2, <2>3, <2>4, <2>5 DEF ThreadInv, JoinNext
  <1>3. CASE JoinEnd(o)
    <2>1. TypeOK'
      BY <1>3 DEF ThreadInv, TypeOK, JoinEnd
    <2>2. \A p \in Pools : Owned(p)'
      BY <1>3 DEF ThreadInv, TypeOK, Owned, JoinEnd
    <2>3. ASSUME NEW t \in Threads PROVE Created(t)'
      BY <1>3, <2>3, ThreadParts DEF ThreadInv, TypeOK, Owned, JoinEnd, Created, Runs, Out, Blank, Whole
    <2>4. ASSUME NEW t \in Threads PROVE Released(t)'
      BY <1>3, <2>4, ThreadParts DEF ThreadInv, TypeOK, JoinEnd, Created, Released, Runs, Out, Blank, Whole
    <2> QED
      BY <1>3, <2>1, <2>2, <2>3, <2>4 DEF ThreadInv, JoinEnd
  <1>4. CASE Destroy(o)
    <2>1. TypeOK'
      BY <1>4 DEF ThreadInv, TypeOK, Destroy
    <2>2. \A p \in Pools : Owned(p)'
      BY <1>4 DEF ThreadInv, TypeOK, Owned, Destroy
    <2>3. ASSUME NEW t \in Threads PROVE Created(t)'
      BY <1>4, <2>3, ThreadParts DEF ThreadInv, TypeOK, Owned, Destroy, Created, Runs, Out, Blank, Whole
    <2>4. ASSUME NEW t \in Threads PROVE Released(t)'
      <3>1. t[1] = o /\ t[2] \in Int /\ at[o] \in Int
        BY ThreadParts DEF ThreadInv, TypeOK
      <3>2. /\ parent[o] \in {"inited", "threw"} /\ parent'[o] = "free"
            /\ child' = child /\ m_pinfos' = m_pinfos
        BY <1>4 DEF ThreadInv, TypeOK, Destroy
      <3>3. t[2] < at[o] \/ t[2] = at[o] \/ t[2] > at[o]
        BY <3>1
      <3>4. Whole(t) \/ Blank(t)
        BY <3>1, <3>2, <3>3 DEF ThreadInv, Created
      <3> QED
        BY <3>1, <3>2, <3>4 DEF Released, Whole, Blank, Runs, Out
    <2> QED
      BY <1>4, <2>1, <2>2, <2>3, <2>4 DEF ThreadInv, Destroy
  <1>5. CASE FreeCancel(o)
    <2>0. at[o] \in Children /\ <<o, at[o]>> \in Threads
      BY <1>5, ThreadOf DEF ThreadInv, TypeOK, Owned, FreeCancel
    <2>1. TypeOK'
      BY <1>5, <2>0 DEF ThreadInv, TypeOK, FreeCancel
    <2>2. \A p \in Pools : Owned(p)'
      BY <1>5, <2>0 DEF ThreadInv, TypeOK, Owned, FreeCancel
    <2>3. ASSUME NEW t \in Threads PROVE Created(t)'
      BY <1>5, <2>0, <2>3, ThreadParts DEF ThreadInv, TypeOK, Owned, FreeCancel, Created, Runs, Out, Blank, Whole
    <2>4. ASSUME NEW t \in Threads PROVE Released(t)'
      BY <1>5, <2>0, <2>4, ThreadParts DEF ThreadInv, TypeOK, FreeCancel, Created, Released, Runs, Out, Blank, Whole
    <2> QED
      BY <1>5, <2>1, <2>2, <2>3, <2>4 DEF ThreadInv, FreeCancel
  <1>6. CASE FreeJoin(o)
    <2>0. at[o] \in Children /\ <<o, at[o]>> \in Threads
      BY <1>6, ThreadOf DEF ThreadInv, TypeOK, Owned, FreeJoin
    <2>1. TypeOK'
      <3>1. m_pinfos' \in [Threads -> [cs : {CS_UNUSED, CS_IDLE, CS_BUSY}, valid : BOOLEAN]]
        BY <1>6, <2>0, ZenonT(30) DEF ThreadInv, TypeOK, FreeJoin
      <3>2. at' \in [Pools -> 0 .. ChildCount]
        BY <1>6, <2>0 DEF ThreadInv, TypeOK, FreeJoin
      <3> QED
        BY <1>6, <3>1, <3>2 DEF ThreadInv, TypeOK, FreeJoin
    <2>2. \A p \in Pools : Owned(p)'
      BY <1>6, <2>0 DEF ThreadInv, TypeOK, Owned, FreeJoin
    <2>3. ASSUME NEW t \in Threads PROVE Created(t)'
      BY <1>6, <2>0, <2>3, ThreadParts DEF ThreadInv, TypeOK, Owned, FreeJoin, Created, Runs, Out, Blank, Whole
    <2>4. ASSUME NEW t \in Threads PROVE Released(t)'
      <3>1. t[1] = o /\ t[2] \in Int /\ at[o] \in Int /\ t = <<t[1], t[2]>>
        BY <2>0, ThreadParts
      <3>2. /\ parent[o] = "freejoin" /\ parent'[o] = "free" /\ at'[o] = at[o] + 1
            /\ child' = child
        BY <1>6 DEF ThreadInv, TypeOK, FreeJoin
      <3>3. m_pinfos'[t].cs = m_pinfos[t].cs /\ (t[2] # at[o] => m_pinfos'[t] = m_pinfos[t])
        BY <1>6, <3>1 DEF ThreadInv, TypeOK, FreeJoin
      <3> QED
        BY <3>1, <3>2, <3>3 DEF ThreadInv, Released, Out
    <2>5. badJoin' = {}
      BY <1>6, <2>0, ThreadOf DEF ThreadInv, TypeOK, FreeJoin, Released
    <2> QED
      BY <1>6, <2>1, <2>2, <2>3, <2>4, <2>5 DEF ThreadInv, FreeJoin
  <1>7. CASE FreeEnd(o)
    <2>1. TypeOK'
      BY <1>7 DEF ThreadInv, TypeOK, FreeEnd
    <2>2. \A p \in Pools : Owned(p)'
      BY <1>7 DEF ThreadInv, TypeOK, Owned, FreeEnd
    <2>3. ASSUME NEW t \in Threads PROVE Created(t)'
      BY <1>7, <2>3, ThreadParts DEF ThreadInv, TypeOK, Owned, FreeEnd, Created, Runs, Out, Blank, Whole
    <2>4. ASSUME NEW t \in Threads PROVE Released(t)'
      BY <1>7, <2>4, ThreadParts DEF ThreadInv, TypeOK, FreeEnd, Created, Released, Runs, Out, Blank, Whole
    <2> QED
      BY <1>7, <2>1, <2>2, <2>3, <2>4 DEF ThreadInv, FreeEnd
  <1> QED
    BY <1>1, <1>2, <1>3, <1>4, <1>5, <1>6, <1>7 DEF Freeing

\* Every step of the pool's owner and of its children keeps ThreadInv.
LEMMA ThreadNextInv ==
  ASSUME OnePool, ~DestroyAfterJoin, ThreadInv, [Next]_vars
  PROVE  ThreadInv'
  <1>1. CASE UNCHANGED vars
    BY <1>1 DEF vars, ThreadInv, TypeOK, Owned, Created, Released, Runs, Out, Blank, Whole
  <1> QED
    BY <1>1, ChildKeeps, InitKeeps, EndKeeps DEF Next

\* What the run checks follows from ThreadInv.
LEMMA ThreadInvSafe ==
  ASSUME ThreadInv
  PROVE  ThreadsSafe
  <1>1. TypeOK /\ ArgsAlive /\ JoinsValid
    BY DEF ThreadInv, ArgsAlive, JoinsValid
  <1>2. HandshakeOwn
    <2> SUFFICES ASSUME NEW p \in Pools, parent[p] \in {"store", "status"}
                 PROVE  Runs(<<p, at[p]>>)
      BY DEF HandshakeOwn, Runs
    <2>1. at[p] \in Children
      BY PoolAssumption DEF ThreadInv, TypeOK, Owned, Children
    <2> QED
      BY <2>1, ThreadOf DEF ThreadInv, Created
  <1>3. UnusedIsOut
    <2> SUFFICES ASSUME NEW t \in Threads, m_pinfos[t].cs = CS_UNUSED,
                        parent[t[1]] \in {"inited", "threw", "free", "freejoin"}
                 PROVE  Out(t) \/ child[t] = "none"
      BY DEF UnusedIsOut, Out
    <2>1. t[2] \in Int /\ at[t[1]] \in Int
      BY ThreadParts, PoolAssumption DEF ThreadInv, TypeOK, Children
    <2>2. t[2] < at[t[1]] \/ t[2] = at[t[1]] \/ t[2] > at[t[1]]
      BY <2>1
    <2>3. Created(t) /\ Released(t)
      BY DEF ThreadInv
    <2> QED
      BY <2>2, <2>3 DEF Created, Released, Blank, Whole
  <1> QED
    BY <1>1, <1>2, <1>3 DEF ThreadsSafe

\* HThreadPool, for any number of children and any way they end, in a process with
\* one pool that is not destroyed after JoinAll: the handshake is with the child
\* just created, its arguments are alive, a child taken for unused is on its way
\* out, and no thread is joined twice.
THEOREM PoolSafe ==
  ASSUME OnePool, ~DestroyAfterJoin
  PROVE  Spec => []ThreadsSafe
  <1>1. Init => ThreadInv
    BY ThreadInitInv
  <1>2. ThreadInv /\ [Next]_vars => ThreadInv'
    BY ThreadNextInv
  <1>3. ThreadInv => ThreadsSafe
    BY ThreadInvSafe
  <1> QED
    BY <1>1, <1>2, <1>3, PTL DEF Spec

\* The same for the behaviours of the composed specification.
THEOREM ThreadsAlways ==
  ASSUME OnePool, ~DestroyAfterJoin
  PROVE  ThreadsSpec => []ThreadsSafe
  <1>1. ThreadsInit => ThreadInv
    BY ThreadInitInv DEF ThreadsInit
  <1>2. ThreadInv /\ [ThreadsNext]_allVars => ThreadInv'
    BY ThreadNextInv DEF ThreadsNext, allVars
  <1>3. ThreadInv => ThreadsSafe
    BY ThreadInvSafe
  <1> QED
    BY <1>1, <1>2, <1>3, PTL DEF ThreadsSpec

-----------------------------------------------------------------------------
(* MultiThreadJobMng *)

\* Workers that have not counted themselves out.
Counting == {w \in Workers : pc[w] # "ended"}

\* The counter and every value of it that a worker has loaded and not yet stored
\* is at least the number of workers still counting: a lost update leaves it too
\* high, never too low.
CountSafe ==
    /\ m_nWorking \in 0 .. Cardinality(Workers) /\ reg \in [Workers -> Int]
    /\ Cardinality(Counting) <= m_nWorking
    /\ \A w \in Workers : pc[w] = "store" =>
          reg[w] \in 0 .. Cardinality(Workers) /\ Cardinality(Counting) <= reg[w]

\* A job pushed is in the pool, in the hands of a worker, or done, until the pool
\* is destroyed.
JobsKept ==
    owner # "destroyed" =>
      \A j \in pushed : \/ j \in JobMng!Range(m_jobs) \/ j \in done
                        \/ \E w \in Workers : pc[w] = "do" /\ job[w] = j

\* Where the owner is, and what Finish has said.
OwnerKnows ==
    /\ owner \in {"init", "idle", "count", "destroyed"} /\ before \subseteq pushed
    /\ owner = "init" => ~finished /\ \A w \in Workers : pc[w] = "none"
    /\ owner = "count" => (\A w \in Workers : pc[w] = "ended")
    /\ JobMng!FinishSound

JobTypes ==
    /\ m_jobs \in Seq(pushed) /\ done \subseteq pushed
    /\ pc \in [Workers -> {"none", "get", "do", "load", "store", "ended"}]
    /\ job \in [Workers -> pushed \cup {NoJob}]
    /\ \A w \in Workers : pc[w] = "do" => job[w] \in pushed

JobInv == JobTypes /\ CountSafe /\ JobsKept /\ OwnerKnows

\* The instance has the number of elements of the standard module.
LEMMA JobCardinality == \A S : JobMng!Cardinality(S) = Cardinality(S)
  BY DEF JobMng!Cardinality, Cardinality

LEMMA WorkersFinite == IsFiniteSet(Workers) /\ Cardinality(Workers) \in Nat
  <1>1. IsFiniteSet(Workers)
    BY PartAssumptions DEF JobMng!WorkersAssumption, JobMng!IsFiniteSet, IsFiniteSet
  <1> QED
    BY <1>1, FS_CardinalityType

\* How many workers still count.
LEMMA CountingSize ==
  /\ IsFiniteSet(Counting) /\ Cardinality(Counting) \in Nat
  /\ Cardinality(Counting) <= Cardinality(Workers)
  BY WorkersFinite, FS_Subset, FS_CardinalityType DEF Counting

\* Before InitJobSummer nobody counts out.
LEMMA JobInitInv ==
  ASSUME JobMng!Init
  PROVE  JobInv
  <1>1. JobTypes
    BY EmptySeq DEF JobMng!Init, JobTypes
  <1>2. CountSafe
    BY CountingSize, WorkersFinite, JobCardinality DEF JobMng!Init, CountSafe
  <1>3. JobsKept
    BY DEF JobMng!Init, JobsKept
  <1>4. OwnerKnows
    BY DEF JobMng!Init, OwnerKnows, JobMng!FinishSound
  <1> QED
    BY <1>1, <1>2, <1>3, <1>4 DEF JobInv

\* What is in a sequence, by its indices.
LEMMA InRange ==
  ASSUME NEW S, NEW s \in Seq(S), NEW x
  PROVE  x \in JobMng!Range(s) <=> \E i \in 1 .. Len(s) : s[i] = x
  BY LenProperties DEF JobMng!Range

LEMMA RangeAppend ==
  ASSUME NEW S, NEW s \in Seq(S), NEW y \in S
  PROVE  \A x : x \in JobMng!Range(Append(s, y)) <=> x \in JobMng!Range(s) \/ x = y
  <1>1. /\ Append(s, y) \in Seq(S) /\ Len(Append(s, y)) = Len(s) + 1 /\ Len(s) \in Nat
        /\ Append(s, y)[Len(s) + 1] = y
        /\ \A i \in 1 .. Len(s) : Append(s, y)[i] = s[i]
    BY AppendProperties, LenProperties
  <1>5. /\ \A x : x \in JobMng!Range(s) <=> \E i \in 1 .. Len(s) : s[i] = x
        /\ \A x : x \in JobMng!Range(Append(s, y))
                    <=> \E i \in 1 .. Len(Append(s, y)) : Append(s, y)[i] = x
    BY <1>1, InRange, Zenon
  <1> SUFFICES ASSUME NEW x
               PROVE  (\E i \in 1 .. Len(Append(s, y)) : Append(s, y)[i] = x)
                        <=> (\E i \in 1 .. Len(s) : s[i] = x) \/ x = y
    BY <1>5, Zenon
  <1>2. ASSUME NEW i \in 1 .. Len(Append(s, y)), Append(s, y)[i] = x
        PROVE  (\E j \in 1 .. Len(s) : s[j] = x) \/ x = y
    <2>1. i \in 1 .. Len(s) \/ i = Len(s) + 1
      BY <1>1
    <2> QED
      BY <1>1, <1>2, <2>1
  <1>3. ASSUME NEW i \in 1 .. Len(s), s[i] = x
        PROVE  i \in 1 .. Len(Append(s, y)) /\ Append(s, y)[i] = x
    BY <1>1, <1>3
  <1>4. Len(s) + 1 \in 1 .. Len(Append(s, y))
    BY <1>1
  <1> QED
    BY <1>1, <1>2, <1>3, <1>4

LEMMA RangeTail ==
  ASSUME NEW S, NEW s \in Seq(S), s # <<>>
  PROVE  \A x : x \in JobMng!Range(s) <=> x \in JobMng!Range(Tail(s)) \/ x = Head(s)
  <1>1. /\ Tail(s) \in Seq(S) /\ Len(Tail(s)) = Len(s) - 1 /\ Len(s) \in Nat \ {0}
        /\ Head(s) = s[1] /\ \A i \in 1 .. Len(Tail(s)) : Tail(s)[i] = s[i + 1]
    BY HeadTailProperties, LenProperties
  <1>5. /\ \A x : x \in JobMng!Range(s) <=> \E i \in 1 .. Len(s) : s[i] = x
        /\ \A x : x \in JobMng!Range(Tail(s))
                    <=> \E i \in 1 .. Len(Tail(s)) : Tail(s)[i] = x
    BY <1>1, InRange, Zenon
  <1> SUFFICES ASSUME NEW x
               PROVE  (\E i \in 1 .. Len(s) : s[i] = x)
                        <=> (\E i \in 1 .. Len(Tail(s)) : Tail(s)[i] = x) \/ x = s[1]
    BY <1>1, <1>5, Zenon
  <1>2. ASSUME NEW i \in 1 .. Len(s), s[i] = x, i # 1
        PROVE  i - 1 \in 1 .. Len(Tail(s)) /\ Tail(s)[i - 1] = x
    <2>1. i - 1 \in 1 .. Len(Tail(s)) /\ (i - 1) + 1 = i
      BY <1>1, <1>2
    <2> QED
      BY <1>1, <1>2, <2>1
  <1>3. ASSUME NEW i \in 1 .. Len(Tail(s)), Tail(s)[i] = x
        PROVE  i + 1 \in 1 .. Len(s) /\ s[i + 1] = x
    BY <1>1, <1>3
  <1>4. 1 \in 1 .. Len(s)
    BY <1>1
  <1> QED
    BY <1>1, <1>2, <1>3, <1>4

\* A worker that counts itself out is one fewer; other moves change nothing.
LEMMA CountedOut ==
  ASSUME pc \in [Workers -> {"none", "get", "do", "load", "store", "ended"}],
         NEW w \in Workers, pc[w] # "ended", pc' = [pc EXCEPT ![w] = "ended"]
  PROVE  Cardinality(Counting') = Cardinality(Counting) - 1
  <1>1. Counting' = Counting \ {w} /\ w \in Counting
    BY DEF Counting
  <1> QED
    BY <1>1, CountingSize, FS_RemoveElement

LEMMA CountedIn ==
  ASSUME pc \in [Workers -> {"none", "get", "do", "load", "store", "ended"}],
         NEW w \in Workers, pc[w] # "ended", NEW s, s # "ended",
         pc' = [pc EXCEPT ![w] = s]
  PROVE  Counting' = Counting
  BY DEF Counting

\* Every step of a worker keeps JobInv.
LEMMA WorkerKeeps ==
  ASSUME JobInv, NEW w \in Workers, JobMng!WorkerStep(w)
  PROVE  JobInv'
  <1> USE DEF JobMng!Goto
  <1>0. JobTypes /\ CountSafe /\ JobsKept /\ OwnerKnows
    BY DEF JobInv
  <1>1. CASE JobMng!GetJob(w) /\ m_jobs # <<>>
    <2>1. /\ pc[w] = "get" /\ pc' = [pc EXCEPT ![w] = "do"] /\ m_jobs' = Tail(m_jobs)
          /\ job' = [job EXCEPT ![w] = Head(m_jobs)]
          /\ UNCHANGED <<m_nWorking, reg, owner, finished, pushed, done, before, early>>
      BY <1>1 DEF JobMng!GetJob
    <2>2. Head(m_jobs) \in pushed /\ Tail(m_jobs) \in Seq(pushed)
      BY <1>0, <1>1, HeadTailProperties DEF JobTypes
    <2>3. JobTypes'
      BY <1>0, <2>1, <2>2 DEF JobTypes
    <2>4. Counting' = Counting
      BY <1>0, <2>1, CountedIn DEF JobTypes
    <2>5. CountSafe'
      BY <1>0, <2>1, <2>4 DEF CountSafe, JobTypes
    <2>6. JobsKept'
      <3> SUFFICES ASSUME owner # "destroyed", NEW j \in pushed
                   PROVE  \/ j \in JobMng!Range(Tail(m_jobs)) \/ j \in done
                          \/ \E v \in Workers : pc'[v] = "do" /\ job'[v] = j
        BY <2>1 DEF JobsKept, JobMng!Range
      <3>1. CASE j \in JobMng!Range(m_jobs)
        <4>1. j \in JobMng!Range(Tail(m_jobs)) \/ j = Head(m_jobs)
          BY <1>0, <1>1, <3>1, RangeTail DEF JobTypes
        <4>2. pc'[w] = "do" /\ job'[w] = Head(m_jobs)
          BY <1>0, <2>1 DEF JobTypes
        <4> QED
          BY <4>1, <4>2
      <3>2. ASSUME NEW v \in Workers, pc[v] = "do", job[v] = j
            PROVE  pc'[v] = "do" /\ job'[v] = j
        BY <1>0, <2>1, <3>2 DEF JobTypes
      <3> QED
        BY <1>0, <3>1, <3>2 DEF JobsKept
    <2>7. OwnerKnows'
      BY <1>0, <2>1 DEF OwnerKnows, JobMng!FinishSound
    <2> QED
      BY <2>3, <2>5, <2>6, <2>7 DEF JobInv
  <1>2. CASE JobMng!GetJob(w) /\ m_jobs = <<>>
    <2>1. /\ pc[w] = "get" /\ pc' = [pc EXCEPT ![w] = "load"]
          /\ UNCHANGED <<m_jobs, job, m_nWorking, reg, owner, finished, pushed, done,
                         before, early>>
      BY <1>2 DEF JobMng!GetJob
    <2>3. JobTypes'
      BY <1>0, <2>1 DEF JobTypes
    <2>4. Counting' = Counting
      BY <1>0, <2>1, CountedIn DEF JobTypes
    <2>5. CountSafe'
      BY <1>0, <2>1, <2>4 DEF CountSafe, JobTypes
    <2>6. JobsKept'
      BY <1>0, <2>1 DEF JobsKept, JobTypes, JobMng!Range
    <2>7. OwnerKnows'
      BY <1>0, <2>1 DEF OwnerKnows, JobMng!FinishSound
    <2> QED
      BY <2>3, <2>5, <2>6, <2>7 DEF JobInv
  <1>3. CASE JobMng!DoJob(w)
    <2>1. /\ pc[w] = "do" /\ pc' = [pc EXCEPT ![w] = "get"]
          /\ done' = done \cup {job[w]} /\ job' = [job EXCEPT ![w] = NoJob]
          /\ UNCHANGED <<m_jobs, m_nWorking, reg, owner, finished, pushed, before, early>>
      BY <1>3 DEF JobMng!DoJob
    <2>3. JobTypes'
      BY <1>0, <2>1 DEF JobTypes
    <2>4. Counting' = Counting
      BY <1>0, <2>1, CountedIn DEF JobTypes
    <2>5. CountSafe'
      BY <1>0, <2>1, <2>4 DEF CountSafe, JobTypes
    <2>6. JobsKept'
      <3> SUFFICES ASSUME owner # "destroyed", NEW j \in pushed
                   PROVE  \/ j \in JobMng!Range(m_jobs) \/ j \in done'
                          \/ \E v \in Workers : pc'[v] = "do" /\ job'[v] = j
        BY <2>1 DEF JobsKept, JobMng!Range
      <3>1. ASSUME NEW v \in Workers, pc[v] = "do", job[v] = j, v # w
            PROVE  pc'[v] = "do" /\ job'[v] = j
        BY <1>0, <2>1, <3>1 DEF JobTypes
      <3> QED
        BY <1>0, <2>1, <3>1 DEF JobsKept
    <2>7. OwnerKnows'
      BY <1>0, <2>1 DEF OwnerKnows, JobMng!FinishSound
    <2> QED
      BY <2>3, <2>5, <2>6, <2>7 DEF JobInv
  <1>4. CASE JobMng!LoadCount(w)
    <2>1. /\ pc[w] = "load" /\ pc' = [pc EXCEPT ![w] = "store"]
          /\ reg' = [reg EXCEPT ![w] = m_nWorking]
          /\ UNCHANGED <<m_jobs, m_nWorking, job, owner, finished, pushed, done, before, early>>
      BY <1>4 DEF JobMng!LoadCount
    <2>3. JobTypes'
      BY <1>0, <2>1 DEF JobTypes
    <2>4. Counting' = Counting
      BY <1>0, <2>1, CountedIn DEF JobTypes
    <2>5. CountSafe'
      BY <1>0, <2>1, <2>4 DEF CountSafe, JobTypes
    <2>6. JobsKept'
      BY <1>0, <2>1 DEF JobsKept, JobTypes, JobMng!Range
    <2>7. OwnerKnows'
      BY <1>0, <2>1 DEF OwnerKnows, JobMng!FinishSound
    <2> QED
      BY <2>3, <2>5, <2>6, <2>7 DEF JobInv
  <1>5. CASE JobMng!StoreCount(w)
    <2>1. /\ pc[w] = "store" /\ pc' = [pc EXCEPT ![w] = "ended"]
          /\ m_nWorking' = reg[w] - 1
          /\ UNCHANGED <<m_jobs, job, reg, owner, finished, pushed, done, before, early>>
      BY <1>5 DEF JobMng!StoreCount
    <2>3. JobTypes'
      BY <1>0, <2>1 DEF JobTypes
    <2>4. Cardinality(Counting') = Cardinality(Counting) - 1
      BY <1>0, <2>1, CountedOut DEF JobTypes
    <2>5. CountSafe'
      <3>1. Cardinality(Counting) \in Nat /\ Cardinality(Workers) \in Nat
        BY CountingSize, WorkersFinite
      <3>2. w \in Counting /\ IsFiniteSet(Counting)
        BY <2>1, CountingSize DEF Counting
      <3>3. Cardinality(Counting) # 0
        BY <3>2, FS_EmptySet
      <3>4. m_nWorking' \in 0 .. Cardinality(Workers) /\ Cardinality(Counting') <= m_nWorking'
        BY <1>0, <2>1, <2>4, <3>1, <3>3 DEF CountSafe
      <3>5. ASSUME NEW v \in Workers, pc'[v] = "store"
            PROVE  reg[v] \in 0 .. Cardinality(Workers) /\ Cardinality(Counting') <= reg[v]
        <4>1. pc[v] = "store"
          BY <1>0, <2>1, <3>5 DEF JobTypes
        <4> QED
          BY <1>0, <2>4, <3>1, <4>1 DEF CountSafe
      <3> QED
        BY <1>0, <2>1, <3>4, <3>5 DEF CountSafe
    <2>6. JobsKept'
      BY <1>0, <2>1 DEF JobsKept, JobTypes, JobMng!Range
    <2>7. OwnerKnows'
      BY <1>0, <2>1 DEF OwnerKnows, JobMng!FinishSound
    <2> QED
      BY <2>3, <2>5, <2>6, <2>7 DEF JobInv
  <1> QED
    BY <1>1, <1>2, <1>3, <1>4, <1>5 DEF JobMng!WorkerStep, JobMng!GetJob

\* Every step of the owner, and every push, keeps JobInv.
LEMMA OwnerKeeps ==
  ASSUME JobInv,
         \/ \E j \in Jobs : JobMng!PushJob(j)
         \/ JobMng!InitJobSummer \/ JobMng!FinishCount \/ JobMng!FinishEmpty
         \/ JobMng!Destroy
  PROVE  JobInv'
  <1>0. JobTypes /\ CountSafe /\ JobsKept /\ OwnerKnows
    BY DEF JobInv
  <1> USE DEF JobMng!workerVars
  <1>1. ASSUME NEW j \in Jobs, JobMng!PushJob(j)
        PROVE  JobInv'
    <2>1. /\ m_jobs' = Append(m_jobs, j) /\ pushed' = pushed \cup {j}
          /\ owner # "destroyed"
          /\ UNCHANGED <<m_nWorking, pc, job, reg, done, owner, finished, before, early>>
      BY <1>1 DEF JobMng!PushJob
    <2>2. m_jobs \in Seq(pushed')
      BY <1>0, <2>1, SeqMonotonic DEF JobTypes
    <2>3. JobTypes'
      <3>1. m_jobs' \in Seq(pushed')
        BY <2>1, <2>2, AppendProperties
      <3> QED
        BY <1>0, <2>1, <3>1 DEF JobTypes
    <2>4. CountSafe'
      BY <1>0, <2>1 DEF CountSafe, Counting
    <2>5. JobsKept'
      <3>1. \A x : x \in JobMng!Range(Append(m_jobs, j)) <=> x \in JobMng!Range(m_jobs) \/ x = j
        BY <2>1, <2>2, RangeAppend
      <3>2. JobMng!Range(m_jobs)' = JobMng!Range(Append(m_jobs, j))
        BY <2>1 DEF JobMng!Range
      <3> QED
        BY <1>0, <2>1, <3>1, <3>2 DEF JobsKept
    <2>6. OwnerKnows'
      BY <1>0, <2>1 DEF OwnerKnows, JobMng!FinishSound
    <2> QED
      BY <2>3, <2>4, <2>5, <2>6 DEF JobInv
  <1>2. CASE JobMng!InitJobSummer
    <2>1. /\ owner = "init" /\ owner' = "idle" /\ pc' = [w \in Workers |-> "get"]
          /\ UNCHANGED <<m_jobs, m_nWorking, job, reg, finished, pushed, done, before>>
          /\ ~finished /\ \A w \in Workers : pc[w] = "none"
      BY <1>0, <1>2 DEF JobMng!InitJobSummer, OwnerKnows
    <2>2. Counting' = Counting
      BY <2>1 DEF Counting
    <2>3. JobTypes'
      BY <1>0, <2>1 DEF JobTypes
    <2>4. CountSafe'
      BY <1>0, <2>1, <2>2 DEF CountSafe
    <2>5. JobsKept'
      BY <1>0, <2>1 DEF JobsKept, JobMng!Range
    <2>6. OwnerKnows'
      BY <1>0, <2>1 DEF OwnerKnows, JobMng!FinishSound
    <2> QED
      BY <2>3, <2>4, <2>5, <2>6 DEF JobInv
  <1>3. CASE JobMng!FinishCount
    <2>1. /\ owner = "idle" /\ before' = pushed /\ finished' = FALSE
          /\ owner' = IF m_nWorking = 0 THEN "count" ELSE "idle"
          /\ UNCHANGED <<m_jobs, m_nWorking, pc, job, reg, done, pushed, early>>
      BY <1>3 DEF JobMng!FinishCount
    <2>2. m_nWorking = 0 => \A w \in Workers : pc[w] = "ended"
      <3>1. m_nWorking = 0 => Cardinality(Counting) = 0
        BY <1>0, CountingSize DEF CountSafe
      <3>2. m_nWorking = 0 => Counting = {}
        BY <3>1, CountingSize, FS_EmptySet
      <3> QED
        BY <3>2 DEF Counting
    <2>3. JobTypes'
      BY <1>0, <2>1 DEF JobTypes
    <2>4. CountSafe'
      BY <1>0, <2>1 DEF CountSafe, Counting
    <2>5. JobsKept'
      BY <1>0, <2>1 DEF JobsKept, JobMng!Range
    <2>6. OwnerKnows'
      BY <1>0, <2>1, <2>2 DEF OwnerKnows, JobMng!FinishSound
    <2> QED
      BY <2>3, <2>4, <2>5, <2>6 DEF JobInv
  <1>4. CASE JobMng!FinishEmpty
    <2>1. /\ owner = "count" /\ owner' = "idle" /\ finished' = (m_jobs = <<>>)
          /\ UNCHANGED <<m_jobs, m_nWorking, pc, job, reg, done, pushed, before, early>>
      BY <1>4 DEF JobMng!FinishEmpty
    <2>2. \A w \in Workers : pc[w] = "ended"
      BY <1>0, <2>1 DEF OwnerKnows
    <2>3. m_jobs = <<>> => before \subseteq done
      <3>1. m_jobs = <<>> => \A j : j \notin JobMng!Range(m_jobs)
        BY DEF JobMng!Range
      <3>2. m_jobs = <<>> => \A j \in pushed : j \in done
        BY <1>0, <2>1, <2>2, <3>1 DEF JobsKept
      <3> QED
        BY <1>0, <3>2 DEF OwnerKnows
    <2>4. JobTypes'
      BY <1>0, <2>1 DEF JobTypes
    <2>5. CountSafe'
      BY <1>0, <2>1 DEF CountSafe, Counting
    <2>6. JobsKept'
      BY <1>0, <2>1 DEF JobsKept, JobMng!Range
    <2>7. OwnerKnows'
      BY <1>0, <2>1, <2>2, <2>3 DEF OwnerKnows, JobMng!FinishSound
    <2> QED
      BY <2>4, <2>5, <2>6, <2>7 DEF JobInv
  <1>5. CASE JobMng!Destroy
    <2>1. /\ owner = "idle" /\ owner' = "destroyed" /\ m_jobs' = <<>>
          /\ UNCHANGED <<m_nWorking, pc, job, reg, done, finished, pushed, before, early>>
      BY <1>5 DEF JobMng!Destroy
    <2>2. JobTypes'
      BY <1>0, <2>1, EmptySeq DEF JobTypes
    <2>3. CountSafe'
      BY <1>0, <2>1 DEF CountSafe, Counting
    <2>4. JobsKept'
      BY <2>1 DEF JobsKept
    <2>5. OwnerKnows'
      BY <1>0, <2>1 DEF OwnerKnows, JobMng!FinishSound
    <2> QED
      BY <2>2, <2>3, <2>4, <2>5 DEF JobInv
  <1> QED
    BY <1>1, <1>2, <1>3, <1>4, <1>5

LEMMA JobNextInv ==
  ASSUME JobInv, [JobMng!Next]_jobVars
  PROVE  JobInv'
  <1>1. CASE UNCHANGED jobVars
    BY <1>1 DEF jobVars, JobInv, JobTypes, CountSafe, Counting, JobsKept, OwnerKnows,
                JobMng!FinishSound, JobMng!Range
  <1> QED
    BY <1>1, OwnerKeeps, WorkerKeeps DEF JobMng!Next

LEMMA JobInvExact ==
  ASSUME JobInv
  PROVE  JobMng!TypeOK /\ JobMng!FinishSound
  <1>1. JobMng!Range(m_jobs) \subseteq pushed
    <2>1. \A x : x \in JobMng!Range(m_jobs) <=> \E i \in 1 .. Len(m_jobs) : m_jobs[i] = x
      BY InRange DEF JobInv, JobTypes
    <2> QED
      BY <2>1, ElementOfSeq DEF JobInv, JobTypes
  <1>2. Cardinality({w \in Workers : pc[w] # "ended"}) <= m_nWorking
    BY DEF JobInv, CountSafe, Counting
  <1> QED
    BY <1>1, <1>2, JobCardinality
    DEF JobInv, JobTypes, CountSafe, OwnerKnows, JobMng!TypeOK

\* MultiThreadJobMng, for any number of workers and jobs, although the counter is a
\* plain int whose updates may be lost: when Finish says yes, every job pushed
\* before it was called is done and every worker has left.
THEOREM FinishRight == JobMng!Spec => [](JobMng!TypeOK /\ JobMng!FinishSound)
  <1>1. JobMng!Init => JobInv
    BY JobInitInv
  <1>2. JobInv /\ [JobMng!Next]_(JobMng!vars) => JobInv'
    BY JobNextInv DEF JobMng!vars, jobVars
  <1>3. JobInv => JobMng!TypeOK /\ JobMng!FinishSound
    BY JobInvExact
  <1> QED
    BY <1>1, <1>2, <1>3, PTL DEF JobMng!Spec

-----------------------------------------------------------------------------
(* SummerWorkerMng *)

\* The places of exit jobs in a queue, and the workers that hold one.
ExitsIn(q) == {i \in 1 .. Len(q) : q[i] = ExitJob}
Leaving == {w \in Summers : sjob[w] = ExitJob}

SummerTypes ==
    /\ queue \in Seq(Jobs \cup {ExitJob})
    /\ spushed \in Seq(Jobs \cup {ExitJob})
    /\ taken \in Seq(Jobs \cup {ExitJob})
    /\ spc \in [Summer!Threads -> {"pop", "popall", "idle", "signal", "pop_asleep",
                                   "popall_asleep"}]
    /\ sjob \in [Summers -> Jobs \cup {ExitJob, NoJob}]
    /\ ended \subseteq Summers /\ sdone \subseteq Jobs /\ due \subseteq Jobs
    /\ exits \in 0 .. Cardinality(Summers)
    /\ sowner \in {"working", "pushing", "joined"}

\* A worker in the queue has no job and has not ended; who has ended has no job.
WorkerPlaces ==
    /\ \A w \in Summers : spc[w] # "idle" => sjob[w] = NoJob /\ w \notin ended
    /\ \A w \in Summers : w \in ended => sjob[w] = NoJob

\* A job is in the queue once or with one worker, and was pushed before.
JobsOnce ==
    /\ \A i, k \in 1 .. Len(queue) : queue[i] = queue[k] /\ queue[i] # ExitJob => i = k
    /\ \A w \in Summers : \A i \in 1 .. Len(queue) : queue[i] = sjob[w] => sjob[w] = ExitJob
    /\ \A v, w \in Summers : v # w /\ sjob[v] = sjob[w] => sjob[v] \in {NoJob, ExitJob}
    /\ \A i \in 1 .. Len(queue) : queue[i] \in JobMng!Range(spushed)
    /\ \A w \in Summers : sjob[w] # NoJob => sjob[w] \in JobMng!Range(spushed)

\* A job pushed is in the queue, with a worker, or done.
PushedKept ==
    \A j \in JobMng!Range(spushed) : \/ j = ExitJob \/ j \in sdone
                                     \/ \E i \in 1 .. Len(queue) : queue[i] = j
                                     \/ \E w \in Summers : sjob[w] = j

\* The jobs pushed before ExitWork are ahead of its exit jobs: none is behind an
\* exit job in the queue, and none is in the queue once an exit job was taken.
DueFirst ==
    /\ due \subseteq JobMng!Range(spushed)
    /\ sowner = "working" => exits = 0 /\ due = {} /\ ExitJob \notin JobMng!Range(spushed)
    /\ \A i, k \in 1 .. Len(queue) : i < k /\ queue[i] = ExitJob => queue[k] \notin due
    /\ ended # {} \/ Leaving # {} => \A i \in 1 .. Len(queue) : queue[i] \notin due
    /\ sowner = "joined" => ended = Summers

ExitsCounted ==
    Cardinality(ended) + Cardinality(Leaving) + Cardinality(ExitsIn(queue)) = exits

SummerInv == SummerTypes /\ WorkerPlaces /\ JobsOnce /\ PushedKept /\ DueFirst /\ ExitsCounted

\* Assumed of the workers: they and the producers are different threads, and exit
\* jobs are not jobs.
LEMMA SummerAssumed ==
  /\ IsFiniteSet(Summers) /\ Cardinality(Summers) \in Nat
  /\ Summers \cap Producers = {} /\ Owner \notin Summers \cup Producers
  /\ ExitJob \notin Jobs /\ NoJob \notin Jobs /\ NoJob # ExitJob
  <1>1. IsFiniteSet(Summers)
    BY PartAssumptions DEF Summer!WorkerAssumption, Summer!IsFiniteSet, IsFiniteSet
  <1> QED
    BY <1>1, FS_CardinalityType, PartAssumptions DEF Summer!WorkerAssumption

LEMMA SummerCardinality == \A S : Summer!Cardinality(S) = Cardinality(S)
  BY DEF Summer!Cardinality, Cardinality

LEMMA SummerRange == \A s : Summer!Range(s) = JobMng!Range(s)
  BY DEF Summer!Range, JobMng!Range

\* How many exit jobs a queue has, after a push and after a take.
LEMMA ExitsFinite ==
  ASSUME NEW S, NEW q \in Seq(S)
  PROVE  IsFiniteSet(ExitsIn(q)) /\ Cardinality(ExitsIn(q)) \in Nat
  <1>1. Len(q) \in Nat
    BY LenProperties
  <1>2. IsFiniteSet(1 .. Len(q)) /\ ExitsIn(q) \subseteq 1 .. Len(q)
    BY <1>1, FS_Interval DEF ExitsIn
  <1> QED
    BY <1>2, FS_Subset, FS_CardinalityType

LEMMA ExitsAppend ==
  ASSUME NEW S, NEW q \in Seq(S), NEW y \in S
  PROVE  Cardinality(ExitsIn(Append(q, y)))
           = Cardinality(ExitsIn(q)) + IF y = ExitJob THEN 1 ELSE 0
  <1>1. /\ Len(Append(q, y)) = Len(q) + 1 /\ Len(q) \in Nat
        /\ Append(q, y)[Len(q) + 1] = y
        /\ \A i \in 1 .. Len(q) : Append(q, y)[i] = q[i]
    BY AppendProperties, LenProperties
  <1>2. CASE y = ExitJob
    <2>1. ExitsIn(Append(q, y)) = ExitsIn(q) \cup {Len(q) + 1} /\ Len(q) + 1 \notin ExitsIn(q)
      BY <1>1, <1>2 DEF ExitsIn
    <2> QED
      BY <1>2, <2>1, ExitsFinite, FS_AddElement
  <1>3. CASE y # ExitJob
    <2>1. ExitsIn(Append(q, y)) = ExitsIn(q)
      BY <1>1, <1>3 DEF ExitsIn
    <2>2. Cardinality(ExitsIn(q)) \in Nat
      BY ExitsFinite
    <2> QED
      BY <1>3, <2>1, <2>2
  <1> QED
    BY <1>2, <1>3

LEMMA ExitsTail ==
  ASSUME NEW S, NEW q \in Seq(S), q # <<>>
  PROVE  Cardinality(ExitsIn(Tail(q)))
           = Cardinality(ExitsIn(q)) - IF Head(q) = ExitJob THEN 1 ELSE 0
  <1>1. /\ Tail(q) \in Seq(S) /\ Len(Tail(q)) = Len(q) - 1 /\ Len(q) \in Nat \ {0}
        /\ Head(q) = q[1] /\ \A i \in 1 .. Len(Tail(q)) : Tail(q)[i] = q[i + 1]
    BY HeadTailProperties, LenProperties
  <1> DEFINE A == ExitsIn(Tail(q))
             B == ExitsIn(q) \ {1}
             f == [i \in A |-> i + 1]
  <1>2. f \in [A -> B] /\ \A i, k \in A : f[i] = f[k] => i = k
    BY <1>1 DEF ExitsIn
  <1>3. ASSUME NEW b \in B PROVE \E a \in A : f[a] = b
    <2>1. b - 1 \in 1 .. Len(Tail(q)) /\ (b - 1) + 1 = b /\ q[b] = ExitJob
      BY <1>1, <1>3 DEF ExitsIn
    <2>2. b - 1 \in A
      BY <1>1, <2>1 DEF ExitsIn
    <2> QED
      BY <2>1, <2>2
  <1>4. f \in Bijection(A, B)
    BY <1>2, <1>3 DEF Bijection, Injection, Surjection, IsInjective
  <1>5. IsFiniteSet(A) /\ Cardinality(A) = Cardinality(B)
    <2>1. IsFiniteSet(A)
      BY <1>1, ExitsFinite
    <2>2. ExistsBijection(A, B)
      BY <1>4 DEF ExistsBijection
    <2> HIDE DEF A, B, f
    <2> QED
      BY <2>1, <2>2, FS_Bijection
  <1>6. IsFiniteSet(ExitsIn(q)) /\ Cardinality(ExitsIn(q)) \in Nat
    BY ExitsFinite
  <1>7. CASE Head(q) = ExitJob
    <2>1. 1 \in ExitsIn(q)
      BY <1>1, <1>7 DEF ExitsIn
    <2>2. Cardinality(B) = Cardinality(ExitsIn(q)) - 1
      BY <1>6, <2>1, FS_RemoveElement
    <2> QED
      BY <1>5, <1>7, <2>2
  <1>8. CASE Head(q) # ExitJob
    <2>1. B = ExitsIn(q)
      BY <1>1, <1>8 DEF ExitsIn
    <2>2. Cardinality(B) = Cardinality(ExitsIn(q))
      BY ONLY <2>1, Zenon
    <2> QED
      BY <1>5, <1>6, <1>8, <2>2
  <1> QED
    BY <1>7, <1>8

\* Before anybody pushes, every worker is idle.
LEMMA SummerInitInv ==
  ASSUME Summer!Init
  PROVE  SummerInv
  <1> USE DEF Summer!Init, Summer!JobQueue!Init
  <1>1. SummerTypes
    <2>1. <<>> \in Seq(Jobs \cup {ExitJob}) /\ 0 \in 0 .. Cardinality(Summers)
      BY EmptySeq, SummerAssumed
    <2> QED
      BY <2>1 DEF SummerTypes
  <1>2. queue = <<>> /\ Len(queue) = 0 /\ JobMng!Range(spushed) = {}
    BY EmptySeq DEF JobMng!Range
  <1>3. WorkerPlaces /\ JobsOnce /\ PushedKept /\ DueFirst
    <2>1. \A w \in Summers : spc[w] = "idle" /\ sjob[w] = NoJob
      BY DEF Summer!Threads
    <2>2. Leaving = {}
      BY <2>1, SummerAssumed DEF Leaving
    <2> QED
      BY <1>2, <2>1, <2>2 DEF WorkerPlaces, JobsOnce, PushedKept, DueFirst
  <1>4. ExitsCounted
    <2>1. Leaving = {} /\ ended = {} /\ ExitsIn(queue) = {}
      BY <1>2, SummerAssumed DEF Leaving, ExitsIn
    <2>2. Cardinality(ended) = 0 /\ Cardinality(Leaving) = 0 /\ Cardinality(ExitsIn(queue)) = 0
      BY ONLY <2>1, FS_EmptySet, Zenon
    <2>3. exits = 0
      OBVIOUS
    <2> QED
      BY ONLY <2>2, <2>3 DEF ExitsCounted
  <1> QED
    BY <1>1, <1>3, <1>4 DEF SummerInv

\* What a push does, of a producer's job or of an exit job.
SummerPush(t, y) ==
    /\ queue' = Append(queue, y) /\ spushed' = Append(spushed, y)
    /\ spc' = [spc EXCEPT ![t] = "signal"]
    /\ UNCHANGED <<taken, sjob, ended, sdone, due, sowner>>

LEMMA PushPlaces ==
  ASSUME SummerInv, NEW t \in Producers \cup {Owner}, NEW y \in Jobs \cup {ExitJob},
         y = ExitJob \/ y \notin JobMng!Range(spushed), SummerPush(t, y)
  PROVE  /\ queue' \in Seq(Jobs \cup {ExitJob}) /\ spushed' \in Seq(Jobs \cup {ExitJob})
         /\ spc' \in [Summer!Threads -> {"pop", "popall", "idle", "signal", "pop_asleep",
                                         "popall_asleep"}]
         /\ WorkerPlaces' /\ JobsOnce' /\ PushedKept'
         /\ \A x : x \in JobMng!Range(spushed') <=> x \in JobMng!Range(spushed) \/ x = y
         /\ \A i, k \in 1 .. Len(queue') : i < k /\ queue'[i] = ExitJob => queue'[k] \notin due
         /\ ended # {} \/ Leaving # {} => \A i \in 1 .. Len(queue') : queue'[i] \notin due
  <1> DEFINE V == Jobs \cup {ExitJob}
             R == JobMng!Range(spushed)
  <1>0. SummerTypes /\ WorkerPlaces /\ JobsOnce /\ PushedKept /\ DueFirst
    BY DEF SummerInv
  <1>1. /\ queue' = Append(queue, y) /\ spushed' = Append(spushed, y)
        /\ spc' = [spc EXCEPT ![t] = "signal"]
        /\ UNCHANGED <<taken, sjob, ended, sdone, due, sowner>>
    BY DEF SummerPush
  <1>2. /\ queue' \in Seq(V) /\ spushed' \in Seq(V) /\ Len(queue) \in Nat
        /\ Len(queue') = Len(queue) + 1 /\ queue'[Len(queue) + 1] = y
        /\ \A i \in 1 .. Len(queue) : queue'[i] = queue[i]
    BY <1>0, <1>1, AppendProperties, LenProperties DEF SummerTypes
  \* An index is an old one or the new one.
  <1>3. \A i \in 1 .. Len(queue') : \/ i \in 1 .. Len(queue) /\ queue'[i] = queue[i]
                                    \/ i = Len(queue) + 1 /\ queue'[i] = y
    BY <1>2
  <1>4. \A i \in 1 .. Len(queue) : i \in 1 .. Len(queue') /\ queue'[i] = queue[i]
    BY <1>2
  <1>5. \A x : x \in JobMng!Range(Append(spushed, y)) <=> x \in R \/ x = y
    BY <1>0, RangeAppend DEF SummerTypes
  <1>6. JobMng!Range(spushed') = JobMng!Range(Append(spushed, y))
    BY <1>1
  <1>7. \A x : x \in JobMng!Range(spushed') <=> x \in R \/ x = y
    BY <1>5, <1>6
  <1>8. \A i \in 1 .. Len(queue) : queue[i] \in R
    BY <1>0 DEF JobsOnce
  <1>9. \A w \in Summers : sjob[w] # NoJob => sjob[w] \in R
    BY <1>0 DEF JobsOnce
  <1>10. ExitJob \notin Jobs /\ NoJob \notin V /\ ExitJob \notin due /\ due \subseteq R
    BY <1>0, SummerAssumed DEF SummerTypes, DueFirst
  <1> HIDE DEF V, R
  <1>11. WorkerPlaces'
    <2>1. \A w \in Summers : spc'[w] = spc[w]
      BY <1>0, <1>1, SummerAssumed DEF SummerTypes
    <2> QED
      BY <1>0, <1>1, <2>1 DEF WorkerPlaces
  <1>12. JobsOnce'
    <2>1. ASSUME NEW i \in 1 .. Len(queue'), NEW k \in 1 .. Len(queue'),
                 queue'[i] = queue'[k], queue'[i] # ExitJob
          PROVE  i = k
      BY <1>0, <1>3, <1>8, <2>1 DEF JobsOnce, R
    <2>2. ASSUME NEW w \in Summers, NEW i \in 1 .. Len(queue'), queue'[i] = sjob[w]
          PROVE  sjob[w] = ExitJob
      <3>1. CASE i \in 1 .. Len(queue) /\ queue'[i] = queue[i]
        BY <1>0, <2>2, <3>1 DEF JobsOnce
      <3>2. CASE queue'[i] = y
        BY <1>9, <1>10, <2>2, <3>2 DEF R, V
      <3> QED
        BY <1>3, <3>1, <3>2
    <2>3. \A i \in 1 .. Len(queue') : queue'[i] \in JobMng!Range(spushed')
      BY <1>3, <1>7, <1>8
    <2>4. \A w \in Summers : sjob[w] # NoJob => sjob[w] \in JobMng!Range(spushed')
      BY <1>7, <1>9
    <2>5. \A v, w \in Summers : v # w /\ sjob[v] = sjob[w] => sjob[v] \in {NoJob, ExitJob}
      BY <1>0 DEF JobsOnce
    <2>6. JobMng!Range(spushed)' = JobMng!Range(spushed')
      OBVIOUS
    <2> QED
      BY <1>1, <2>1, <2>2, <2>3, <2>4, <2>5, <2>6 DEF JobsOnce
  <1>13. PushedKept'
    <2> SUFFICES ASSUME NEW x \in JobMng!Range(spushed')
                 PROVE  \/ x = ExitJob \/ x \in sdone
                        \/ \E i \in 1 .. Len(queue') : queue'[i] = x
                        \/ \E w \in Summers : sjob[w] = x
      BY <1>1 DEF PushedKept
    <2>1. CASE x = y
      <3>1. Len(queue) + 1 \in 1 .. Len(queue')
        BY <1>2
      <3> QED
        BY <1>2, <2>1, <3>1
    <2>2. CASE x \in R
      BY <1>0, <1>4, <2>2 DEF PushedKept, R
    <2> QED
      BY <1>7, <2>1, <2>2
  <1>14. ASSUME NEW i \in 1 .. Len(queue'), NEW k \in 1 .. Len(queue'), i < k,
                queue'[i] = ExitJob
         PROVE  queue'[k] \notin due
    <2>1. CASE k \in 1 .. Len(queue) /\ queue'[k] = queue[k]
      <3>1. i \in 1 .. Len(queue) /\ queue'[i] = queue[i]
        BY <1>2, <1>14, <2>1
      <3> QED
        BY <1>0, <1>14, <2>1, <3>1 DEF DueFirst
    <2>2. CASE queue'[k] = y
      BY <1>10, <2>2 DEF R
    <2> QED
      BY <1>3, <2>1, <2>2
  <1>15. ASSUME ended # {} \/ Leaving # {}, NEW i \in 1 .. Len(queue')
         PROVE  queue'[i] \notin due
    <2>1. CASE i \in 1 .. Len(queue) /\ queue'[i] = queue[i]
      BY <1>0, <1>15, <2>1 DEF DueFirst
    <2>2. CASE queue'[i] = y
      BY <1>10, <2>2 DEF R
    <2> QED
      BY <1>3, <2>1, <2>2
  <1>16. spc' \in [Summer!Threads -> {"pop", "popall", "idle", "signal", "pop_asleep",
                                      "popall_asleep"}]
    BY <1>0, <1>1 DEF SummerTypes
  <1> QED
    BY <1>2, <1>7, <1>11, <1>12, <1>13, <1>14, <1>15, <1>16 DEF V, R

\* A producer pushes a job.
LEMMA PushJobKeeps ==
  ASSUME SummerInv, NEW t \in Producers, NEW j \in Jobs, Summer!PushJob(t, j)
  PROVE  SummerInv'
  <1>1. /\ SummerPush(t, j) /\ j \notin JobMng!Range(spushed) /\ UNCHANGED exits
    BY SummerRange
    DEF Summer!PushJob, Summer!JobQueue!Push, Summer!JobQueue!Goto, Summer!wVars, SummerPush
  <1>2. /\ queue' \in Seq(Jobs \cup {ExitJob}) /\ spushed' \in Seq(Jobs \cup {ExitJob})
        /\ spc' \in [Summer!Threads -> {"pop", "popall", "idle", "signal", "pop_asleep",
                                        "popall_asleep"}]
        /\ WorkerPlaces' /\ JobsOnce' /\ PushedKept'
        /\ \A x : x \in JobMng!Range(spushed') <=> x \in JobMng!Range(spushed) \/ x = j
        /\ \A i, k \in 1 .. Len(queue') : i < k /\ queue'[i] = ExitJob => queue'[k] \notin due
        /\ ended # {} \/ Leaving # {} => \A i \in 1 .. Len(queue') : queue'[i] \notin due
    BY <1>1, PushPlaces
  <1>3. SummerTypes'
    BY <1>1, <1>2 DEF SummerInv, SummerTypes, SummerPush
  <1>4. DueFirst'
    <2>1. Leaving' = Leaving
      BY <1>1 DEF Leaving, SummerPush
    <2>2. j # ExitJob
      BY SummerAssumed
    <2>3. due' \subseteq JobMng!Range(spushed')
      BY <1>1, <1>2 DEF SummerInv, DueFirst, SummerPush
    <2>4. sowner' = "working" => exits' = 0 /\ due' = {} /\ ExitJob \notin JobMng!Range(spushed')
      BY <1>1, <1>2, <2>2 DEF SummerInv, DueFirst, SummerPush
    <2>5. /\ sowner' = "joined" => ended' = Summers
          /\ due' = due /\ ended' = ended
      BY <1>1 DEF SummerInv, DueFirst, SummerPush
    <2> QED
      BY <1>2, <2>1, <2>3, <2>4, <2>5 DEF DueFirst
  <1>5. ExitsCounted'
    <2>1. Cardinality(ExitsIn(Append(queue, j))) = Cardinality(ExitsIn(queue))
      <3>1. j \in Jobs \cup {ExitJob} /\ j # ExitJob
        BY SummerAssumed
      <3>2. Cardinality(ExitsIn(queue)) \in Nat
        BY ExitsFinite DEF SummerInv, SummerTypes
      <3>3. Cardinality(ExitsIn(Append(queue, j)))
              = Cardinality(ExitsIn(queue)) + IF j = ExitJob THEN 1 ELSE 0
        BY <3>1, ExitsAppend DEF SummerInv, SummerTypes
      <3> QED
        BY <3>1, <3>2, <3>3
    <2>2. /\ ExitsIn(queue)' = ExitsIn(Append(queue, j)) /\ Leaving' = Leaving
          /\ ended' = ended /\ exits' = exits
      BY <1>1 DEF SummerPush, ExitsIn, Leaving
    <2> QED
      BY <2>1, <2>2 DEF SummerInv, ExitsCounted
  <1> QED
    BY <1>2, <1>3, <1>4, <1>5 DEF SummerInv

\* All but where the threads are.
summerOwn == <<queue, spushed, taken, sjob, ended, sowner, exits, sdone, due>>

LEMMA SummerCounts ==
  ASSUME SummerInv
  PROVE  /\ IsFiniteSet(ended) /\ IsFiniteSet(Leaving)
         /\ Cardinality(ExitsIn(queue)) \in Nat /\ Cardinality(ended) \in Nat
         /\ Cardinality(Leaving) \in Nat
  <1>1. IsFiniteSet(ended) /\ IsFiniteSet(Leaving)
    BY SummerAssumed, FS_Subset DEF SummerInv, SummerTypes, Leaving
  <1>2. Cardinality(ExitsIn(queue)) \in Nat
    BY ExitsFinite DEF SummerInv, SummerTypes
  <1> QED
    BY <1>1, <1>2, FS_CardinalityType

\* ExitWork pushes an exit job.
LEMMA PushExitKeeps ==
  ASSUME SummerInv, Summer!PushExit
  PROVE  SummerInv'
  <1>1. /\ SummerPush(Owner, ExitJob) /\ exits' = exits + 1
        /\ sowner = "pushing" /\ exits < Cardinality(Summers)
    BY SummerCardinality
    DEF Summer!PushExit, Summer!WorkerCount, Summer!JobQueue!Push, Summer!JobQueue!Goto,
        SummerPush
  <1>2. /\ queue' \in Seq(Jobs \cup {ExitJob}) /\ spushed' \in Seq(Jobs \cup {ExitJob})
        /\ spc' \in [Summer!Threads -> {"pop", "popall", "idle", "signal", "pop_asleep",
                                        "popall_asleep"}]
        /\ WorkerPlaces' /\ JobsOnce' /\ PushedKept'
        /\ \A x : x \in JobMng!Range(spushed') <=> x \in JobMng!Range(spushed) \/ x = ExitJob
        /\ \A i, k \in 1 .. Len(queue') : i < k /\ queue'[i] = ExitJob => queue'[k] \notin due
        /\ ended # {} \/ Leaving # {} => \A i \in 1 .. Len(queue') : queue'[i] \notin due
    BY <1>1, PushPlaces
  <1>3. SummerTypes'
    <2>1. exits' \in 0 .. Cardinality(Summers)
      BY <1>1, SummerAssumed DEF SummerInv, SummerTypes
    <2> QED
      BY <1>1, <1>2, <2>1 DEF SummerInv, SummerTypes, SummerPush
  <1>4. DueFirst'
    <2>1. Leaving' = Leaving
      BY <1>1 DEF Leaving, SummerPush
    <2>2. due' \subseteq JobMng!Range(spushed')
      BY <1>1, <1>2 DEF SummerInv, DueFirst, SummerPush
    <2>3. sowner' = "pushing" /\ due' = due /\ ended' = ended
      BY <1>1 DEF SummerPush
    <2> QED
      BY <1>2, <2>1, <2>2, <2>3 DEF DueFirst
  <1>5. ExitsCounted'
    <2>1. Cardinality(ExitsIn(Append(queue, ExitJob))) = Cardinality(ExitsIn(queue)) + 1
      <3>1. ExitJob \in Jobs \cup {ExitJob}
        OBVIOUS
      <3>2. Cardinality(ExitsIn(Append(queue, ExitJob)))
              = Cardinality(ExitsIn(queue)) + IF ExitJob = ExitJob THEN 1 ELSE 0
        BY <3>1, ExitsAppend DEF SummerInv, SummerTypes
      <3> QED
        BY <3>2
    <2>2. /\ ExitsIn(queue)' = ExitsIn(Append(queue, ExitJob)) /\ Leaving' = Leaving
          /\ ended' = ended /\ exits' = exits + 1
      BY <1>1 DEF SummerPush, ExitsIn, Leaving
    <2>3. /\ Cardinality(ExitsIn(queue)) \in Nat /\ Cardinality(ended) \in Nat
          /\ Cardinality(Leaving) \in Nat
      BY SummerCounts
    <2> QED
      BY <2>1, <2>2, <2>3 DEF SummerInv, ExitsCounted
  <1> QED
    BY <1>2, <1>3, <1>4, <1>5 DEF SummerInv

\* The steps in which threads only move in the queue's operations.
LEMMA MovesKeep ==
  ASSUME SummerInv, summerOwn' = summerOwn,
         spc' \in [Summer!Threads -> {"pop", "popall", "idle", "signal", "pop_asleep",
                                      "popall_asleep"}],
         \A w \in Summers : \/ spc'[w] = "idle" \/ spc[w] # "idle"
                            \/ sjob[w] = NoJob /\ w \notin ended
  PROVE  SummerInv'
  <1>1. SummerTypes'
    BY DEF SummerInv, SummerTypes, summerOwn
  <1>2. WorkerPlaces'
    BY DEF SummerInv, WorkerPlaces, summerOwn
  <1>3. JobsOnce' /\ PushedKept'
    BY DEF SummerInv, JobsOnce, PushedKept, summerOwn, JobMng!Range
  <1>4. DueFirst' /\ ExitsCounted'
    BY DEF SummerInv, DueFirst, ExitsCounted, ExitsIn, Leaving, summerOwn, JobMng!Range
  <1> QED
    BY <1>1, <1>2, <1>3, <1>4 DEF SummerInv

LEMMA InQueueKeeps ==
  ASSUME SummerInv, NEW t \in Summer!Threads, Summer!InQueue(t) \/ Summer!Spurious(t)
  PROVE  SummerInv'
  <1> USE DEF Summer!JobQueue!Goto
  <1>0. /\ spc \in [Summer!Threads -> {"pop", "popall", "idle", "signal", "pop_asleep",
                                       "popall_asleep"}]
        /\ Summers \subseteq Summer!Threads
    BY DEF SummerInv, SummerTypes, Summer!Threads
  <1>1. summerOwn' = summerOwn
    BY DEF Summer!InQueue, Summer!Spurious, Summer!wVars, summerOwn, Summer!JobQueue!Signal,
           Summer!JobQueue!Wait, Summer!JobQueue!SpuriousWakeup
  <1>2. CASE Summer!JobQueue!Signal(t)
    <2>1. /\ spc' \in [Summer!Threads -> {"pop", "popall", "idle", "signal", "pop_asleep",
                                          "popall_asleep"}]
          /\ \A w \in Summers : spc'[w] = "idle" \/ spc[w] # "idle"
      BY <1>0, <1>2
      DEF Summer!JobQueue!Signal, Summer!JobQueue!Asleep, Summer!JobQueue!WakesIn
    <2> QED
      BY <1>1, <2>1, MovesKeep
  <1>3. CASE Summer!JobQueue!Wait(t) \/ Summer!JobQueue!SpuriousWakeup(t)
    <2>1. /\ spc' \in [Summer!Threads -> {"pop", "popall", "idle", "signal", "pop_asleep",
                                          "popall_asleep"}]
          /\ \A w \in Summers : spc'[w] = "idle" \/ spc[w] # "idle"
      BY <1>0, <1>3
      DEF Summer!JobQueue!Wait, Summer!JobQueue!Awake, Summer!JobQueue!Pops,
          Summer!JobQueue!SleepsIn, Summer!JobQueue!SpuriousWakeup, Summer!JobQueue!Asleep,
          Summer!JobQueue!WakesIn
    <2> QED
      BY <1>1, <2>1, MovesKeep
  <1> QED
    BY <1>2, <1>3 DEF Summer!InQueue, Summer!Spurious

LEMMA BeginPopKeeps ==
  ASSUME SummerInv, NEW w \in Summers, Summer!BeginPop(w)
  PROVE  SummerInv'
  <1>1. /\ sjob[w] = NoJob /\ w \notin ended /\ spc' = [spc EXCEPT ![w] = "pop"]
        /\ summerOwn' = summerOwn
    BY DEF Summer!BeginPop, Summer!JobQueue!Pop, Summer!JobQueue!Goto, Summer!wVars, summerOwn
  <1>2. /\ spc' \in [Summer!Threads -> {"pop", "popall", "idle", "signal", "pop_asleep",
                                        "popall_asleep"}]
        /\ \A v \in Summers : v # w => spc'[v] = spc[v]
    BY <1>1 DEF SummerInv, SummerTypes, Summer!Threads
  <1> QED
    BY <1>1, <1>2, MovesKeep

\* A worker takes the first job of the queue.
LEMMA TakeJobKeeps ==
  ASSUME SummerInv, NEW w \in Summers, Summer!TakeJob(w)
  PROVE  SummerInv'
  <1> DEFINE V == Jobs \cup {ExitJob}
             h == Head(queue)
             q == Tail(queue)
  <1>0. /\ SummerTypes /\ WorkerPlaces /\ JobsOnce /\ PushedKept /\ DueFirst
        /\ ExitsCounted /\ w \in Summer!Threads
    BY DEF SummerInv, Summer!Threads
  <1>1. /\ spc[w] = "pop" /\ queue # <<>> /\ queue' = q /\ taken' = Append(taken, h)
        /\ spc' = [spc EXCEPT ![w] = "idle"] /\ sjob' = [sjob EXCEPT ![w] = h]
        /\ UNCHANGED <<spushed, ended, sowner, exits, sdone, due>>
    BY DEF Summer!TakeJob, Summer!JobQueue!TakeOne, Summer!JobQueue!Goto
  <1>2. sjob[w] = NoJob /\ w \notin ended
    BY <1>0, <1>1 DEF WorkerPlaces
  <1>3. /\ Len(queue) \in Nat \ {0} /\ h = queue[1] /\ h \in V /\ q \in Seq(V)
        /\ Len(q) = Len(queue) - 1 /\ \A i \in 1 .. Len(q) : q[i] = queue[i + 1]
    BY <1>0, <1>1, HeadTailProperties, LenProperties DEF SummerTypes
  <1>4. \A i \in 1 .. Len(q) : i + 1 \in 2 .. Len(queue) /\ q[i] = queue[i + 1]
    BY <1>3
  <1>5. 1 \in 1 .. Len(queue)
    BY <1>3
  <1>6. /\ sjob'[w] = h /\ \A v \in Summers : v # w => sjob'[v] = sjob[v]
        /\ spc'[w] = "idle" /\ \A v \in Summers : v # w => spc'[v] = spc[v]
    BY <1>0, <1>1 DEF SummerTypes, Summer!Threads
  <1>7. NoJob \notin V /\ ExitJob \notin Jobs
    BY SummerAssumed
  <1> HIDE DEF V, h, q
  <1>8. SummerTypes'
    <2>1. taken' \in Seq(V)
      BY <1>0, <1>1, <1>3, AppendProperties DEF SummerTypes, V
    <2>2. sjob' \in [Summers -> Jobs \cup {ExitJob, NoJob}]
      BY <1>0, <1>1, <1>3 DEF SummerTypes, V
    <2>3. spc' \in [Summer!Threads -> {"pop", "popall", "idle", "signal", "pop_asleep",
                                       "popall_asleep"}]
      BY <1>0, <1>1 DEF SummerTypes
    <2> QED
      BY <1>0, <1>1, <1>3, <2>1, <2>2, <2>3 DEF SummerTypes, V
  <1>9. WorkerPlaces'
    BY <1>0, <1>1, <1>2, <1>6 DEF WorkerPlaces
  <1>10. JobsOnce'
    <2>1. ASSUME NEW i \in 1 .. Len(q), NEW k \in 1 .. Len(q), q[i] = q[k], q[i] # ExitJob
          PROVE  i = k
      <3>1. i + 1 = k + 1
        BY <1>0, <1>3, <1>4, <2>1 DEF JobsOnce
      <3> QED
        BY <1>3, <3>1
    <2>2. ASSUME NEW v \in Summers, NEW i \in 1 .. Len(q), q[i] = sjob'[v]
          PROVE  sjob'[v] = ExitJob
      <3>0. i + 1 \in 1 .. Len(queue) /\ q[i] = queue[i + 1] /\ i + 1 # 1
        BY <1>3, <2>2
      <3>1. CASE v = w
        <4>1. queue[i + 1] = queue[1]
          BY <1>3, <1>6, <2>2, <3>0, <3>1
        <4>2. queue[1] = ExitJob
          BY <1>0, <1>5, <3>0, <4>1 DEF JobsOnce
        <4> QED
          BY <1>3, <1>6, <3>1, <4>2
      <3>2. CASE v # w
        BY <1>0, <1>6, <2>2, <3>0, <3>2 DEF JobsOnce
      <3> QED
        BY <3>1, <3>2
    <2>3. ASSUME NEW v \in Summers, v # w, sjob[v] = h
          PROVE  h = ExitJob
      BY <1>0, <1>3, <1>5, <2>3 DEF JobsOnce
    <2>4. \A u, v \in Summers : u # v /\ sjob'[u] = sjob'[v] => sjob'[u] \in {NoJob, ExitJob}
      BY <1>0, <1>6, <2>3 DEF JobsOnce
    <2>5. \A i \in 1 .. Len(q) : q[i] \in JobMng!Range(spushed)
      <3>1. \A i \in 1 .. Len(q) : i + 1 \in 1 .. Len(queue)
        BY <1>3
      <3> QED
        BY <1>0, <1>4, <3>1 DEF JobsOnce
    <2>6. \A v \in Summers : sjob'[v] # NoJob => sjob'[v] \in JobMng!Range(spushed)
      BY <1>0, <1>3, <1>5, <1>6 DEF JobsOnce
    <2>7. JobMng!Range(spushed)' = JobMng!Range(spushed)
      BY <1>1
    <2> QED
      BY <1>1, <2>1, <2>2, <2>4, <2>5, <2>6, <2>7 DEF JobsOnce
  <1>11. PushedKept'
    <2> SUFFICES ASSUME NEW x \in JobMng!Range(spushed)
                 PROVE  \/ x = ExitJob \/ x \in sdone
                        \/ \E i \in 1 .. Len(q) : q[i] = x
                        \/ \E v \in Summers : sjob'[v] = x
      BY <1>1 DEF PushedKept
    <2>1. ASSUME NEW i \in 1 .. Len(queue), queue[i] = x
          PROVE  x = h \/ \E k \in 1 .. Len(q) : q[k] = x
      <3>1. CASE i = 1
        BY <1>3, <2>1, <3>1
      <3>2. CASE i # 1
        <4>1. i - 1 \in 1 .. Len(q) /\ (i - 1) + 1 = i
          BY <1>3, <2>1, <3>2
        <4> QED
          BY <1>3, <2>1, <4>1
      <3> QED
        BY <3>1, <3>2
    <2>2. ASSUME NEW v \in Summers, sjob[v] = x
          PROVE  x = NoJob \/ sjob'[v] = x
      BY <1>2, <1>6, <2>2
    <2>3. x # NoJob
      <3>1. \A y : y \in JobMng!Range(spushed) <=> \E i \in 1 .. Len(spushed) : spushed[i] = y
        BY <1>0, InRange DEF SummerTypes
      <3> QED
        BY <1>0, <1>7, <3>1, ElementOfSeq DEF SummerTypes, V
    <2> QED
      BY <1>0, <1>6, <2>1, <2>2, <2>3 DEF PushedKept
  <1>12. Leaving' = IF h = ExitJob THEN Leaving \cup {w} ELSE Leaving
    BY <1>2, <1>6, <1>7 DEF Leaving, V
  <1>13. w \notin Leaving
    BY <1>2, <1>7 DEF Leaving, V
  <1>14. DueFirst'
    <2>1. ASSUME NEW i \in 1 .. Len(q), NEW k \in 1 .. Len(q), i < k, q[i] = ExitJob
          PROVE  q[k] \notin due
      <3>1. i + 1 \in 1 .. Len(queue) /\ k + 1 \in 1 .. Len(queue) /\ i + 1 < k + 1
        BY <1>3, <2>1
      <3> QED
        BY <1>0, <1>4, <2>1, <3>1 DEF DueFirst
    <2>2. ASSUME ended # {} \/ Leaving' # {}, NEW i \in 1 .. Len(q)
          PROVE  q[i] \notin due
      <3>1. i + 1 \in 1 .. Len(queue) /\ 1 < i + 1 /\ q[i] = queue[i + 1]
        BY <1>3, <2>2
      <3>2. CASE h = ExitJob
        BY <1>0, <1>3, <1>5, <3>1, <3>2 DEF DueFirst
      <3>3. CASE h # ExitJob
        BY <1>0, <1>12, <2>2, <3>1, <3>3 DEF DueFirst
      <3> QED
        BY <3>2, <3>3
    <2>3. /\ due' \subseteq JobMng!Range(spushed')
          /\ sowner' = "working" => exits' = 0 /\ due' = {} /\ ExitJob \notin JobMng!Range(spushed')
          /\ sowner' = "joined" => ended' = Summers
      BY <1>0, <1>1 DEF DueFirst
    <2>4. due' = due /\ ended' = ended /\ queue' = q
      BY <1>1
    <2> QED
      BY <2>1, <2>2, <2>3, <2>4 DEF DueFirst
  <1>15. ExitsCounted'
    <2>1. Cardinality(ExitsIn(q)) = Cardinality(ExitsIn(queue)) - IF h = ExitJob THEN 1 ELSE 0
      BY <1>0, <1>1, ExitsTail DEF SummerTypes, h, q
    <2>2. ExitsIn(queue)' = ExitsIn(q) /\ ended' = ended /\ exits' = exits
      BY <1>1 DEF ExitsIn
    <2>3. /\ Cardinality(ExitsIn(queue)) \in Nat /\ Cardinality(ended) \in Nat
          /\ Cardinality(Leaving) \in Nat /\ IsFiniteSet(Leaving)
      BY SummerCounts
    <2>4. CASE h = ExitJob
      <3>1. Cardinality(Leaving') = Cardinality(Leaving) + 1
        BY <1>12, <1>13, <2>3, <2>4, FS_AddElement
      <3> QED
        BY <1>0, <2>1, <2>2, <2>3, <2>4, <3>1 DEF ExitsCounted
    <2>5. CASE h # ExitJob
      BY <1>0, <1>12, <2>1, <2>2, <2>3, <2>5 DEF ExitsCounted
    <2> QED
      BY <2>4, <2>5
  <1> QED
    BY <1>8, <1>9, <1>10, <1>11, <1>14, <1>15 DEF SummerInv

\* A worker does its job, which may end it.
LEMMA DoJobKeeps ==
  ASSUME SummerInv, NEW w \in Summers, Summer!DoJob(w)
  PROVE  SummerInv'
  <1>0. /\ SummerTypes /\ WorkerPlaces /\ JobsOnce /\ PushedKept /\ DueFirst
        /\ ExitsCounted
    BY DEF SummerInv
  <1>1. /\ sjob[w] # NoJob /\ sjob' = [sjob EXCEPT ![w] = NoJob]
        /\ UNCHANGED <<queue, spc, spushed, taken, sowner, exits, due>>
    BY DEF Summer!DoJob, Summer!bqVars
  <1>2. w \notin ended /\ spc[w] = "idle"
    BY <1>0, <1>1 DEF WorkerPlaces
  <1>3. /\ sjob'[w] = NoJob /\ \A v \in Summers : v # w => sjob'[v] = sjob[v]
        /\ NoJob \notin Jobs /\ NoJob # ExitJob
    BY <1>0, <1>1, SummerAssumed DEF SummerTypes
  <1>4. \A i \in 1 .. Len(queue) : queue[i] # NoJob
    BY <1>0, SummerAssumed, ElementOfSeq DEF SummerTypes
  <1>5. JobsOnce'
    <2>1. JobMng!Range(spushed)' = JobMng!Range(spushed)
      BY <1>1
    <2> QED
      BY <1>0, <1>1, <1>3, <1>4, <2>1 DEF JobsOnce
  <1>6. CASE sjob[w] = ExitJob
    <2>1. ended' = ended \cup {w} /\ sdone' = sdone
      BY <1>6 DEF Summer!DoJob
    <2>2. SummerTypes'
      BY <1>0, <1>1, <1>3, <2>1 DEF SummerTypes
    <2>3. WorkerPlaces'
      BY <1>0, <1>1, <1>2, <1>3, <2>1 DEF WorkerPlaces
    <2>4. PushedKept'
      <3>1. \A x : (\E v \in Summers : sjob[v] = x) => x = ExitJob \/ \E v \in Summers : sjob'[v] = x
        BY <1>3, <1>6
      <3> QED
        BY <1>0, <1>1, <2>1, <3>1 DEF PushedKept
    <2>5. Leaving' = Leaving \ {w} /\ w \in Leaving
      BY <1>3, <1>6 DEF Leaving
    <2>6. DueFirst'
      BY <1>0, <1>1, <2>1, <2>5 DEF DueFirst, SummerTypes
    <2>7. ExitsCounted'
      <3>1. /\ Cardinality(ExitsIn(queue)) \in Nat /\ Cardinality(ended) \in Nat
            /\ Cardinality(Leaving) \in Nat /\ IsFiniteSet(Leaving) /\ IsFiniteSet(ended)
        BY SummerCounts
      <3>2. Cardinality(Leaving') = Cardinality(Leaving) - 1
        BY <2>5, <3>1, FS_RemoveElement
      <3>3. Cardinality(ended') = Cardinality(ended) + 1
        BY <1>2, <2>1, <3>1, FS_AddElement
      <3>4. ExitsIn(queue)' = ExitsIn(queue) /\ exits' = exits
        BY <1>1 DEF ExitsIn
      <3> QED
        BY <1>0, <3>1, <3>2, <3>3, <3>4 DEF ExitsCounted
    <2> QED
      BY <1>5, <2>2, <2>3, <2>4, <2>6, <2>7 DEF SummerInv
  <1>7. CASE sjob[w] # ExitJob
    <2>1. ended' = ended /\ sdone' = sdone \cup {sjob[w]} /\ sjob[w] \in Jobs
      BY <1>0, <1>1, <1>7 DEF Summer!DoJob, SummerTypes
    <2>2. SummerTypes'
      BY <1>0, <1>1, <1>3, <2>1 DEF SummerTypes
    <2>3. WorkerPlaces'
      BY <1>0, <1>1, <1>2, <1>3, <2>1 DEF WorkerPlaces
    <2>4. PushedKept'
      <3>1. \A x : (\E v \in Summers : sjob[v] = x) => x \in sdone' \/ \E v \in Summers : sjob'[v] = x
        BY <1>3, <2>1
      <3> QED
        BY <1>0, <1>1, <2>1, <3>1 DEF PushedKept
    <2>5. Leaving' = Leaving
      BY <1>3, <1>7 DEF Leaving
    <2>6. DueFirst'
      BY <1>0, <1>1, <2>1, <2>5 DEF DueFirst
    <2>7. ExitsCounted'
      BY <1>0, <1>1, <2>1, <2>5 DEF ExitsCounted, ExitsIn
    <2> QED
      BY <1>5, <2>2, <2>3, <2>4, <2>6, <2>7 DEF SummerInv
  <1> QED
    BY <1>6, <1>7

\* ExitWork begins: what was pushed so far is due, and no exit job is anywhere.
LEMMA ExitWorkKeeps ==
  ASSUME SummerInv, Summer!ExitWork
  PROVE  SummerInv'
  <1>0. /\ SummerTypes /\ WorkerPlaces /\ JobsOnce /\ PushedKept /\ DueFirst
        /\ ExitsCounted
    BY DEF SummerInv
  <1>1. /\ sowner = "working" /\ sowner' = "pushing" /\ due' = JobMng!Range(spushed)
        /\ UNCHANGED <<queue, spc, spushed, taken, sjob, ended, exits, sdone>>
    BY SummerRange DEF Summer!ExitWork, Summer!bqVars
  <1>2. exits = 0 /\ ExitJob \notin JobMng!Range(spushed)
    BY <1>0, <1>1 DEF DueFirst
  <1>3. ended = {} /\ Leaving = {}
    <2>1. Cardinality(ended) = 0 /\ Cardinality(Leaving) = 0
      BY <1>0, <1>2, SummerCounts DEF ExitsCounted
    <2> QED
      BY <2>1, SummerCounts, FS_EmptySet
  <1>4. due' \subseteq Jobs
    <2>1. \A y : y \in JobMng!Range(spushed) <=> \E i \in 1 .. Len(spushed) : spushed[i] = y
      BY <1>0, InRange DEF SummerTypes
    <2>2. \A y \in JobMng!Range(spushed) : y \in Jobs \cup {ExitJob}
      BY <1>0, <2>1, ElementOfSeq DEF SummerTypes
    <2> QED
      BY <1>1, <1>2, <2>2
  <1>5. SummerTypes'
    BY <1>0, <1>1, <1>4 DEF SummerTypes
  <1>6. WorkerPlaces' /\ JobsOnce' /\ PushedKept'
    BY <1>0, <1>1 DEF WorkerPlaces, JobsOnce, PushedKept, JobMng!Range
  <1>7. DueFirst'
    <2>1. \A i \in 1 .. Len(queue) : queue[i] # ExitJob
      BY <1>0, <1>2 DEF JobsOnce
    <2>2. Leaving' = {} /\ ended' = {}
      BY <1>1, <1>3 DEF Leaving
    <2>3. JobMng!Range(spushed)' = JobMng!Range(spushed)
      BY <1>1
    <2> QED
      BY <1>1, <2>1, <2>2, <2>3 DEF DueFirst
  <1>8. ExitsCounted'
    BY <1>0, <1>1 DEF ExitsCounted, ExitsIn, Leaving
  <1> QED
    BY <1>5, <1>6, <1>7, <1>8 DEF SummerInv

\* JoinAll returns.
LEMMA JoinAllKeeps ==
  ASSUME SummerInv, Summer!JoinAll
  PROVE  SummerInv'
  <1>1. /\ sowner' = "joined" /\ ended = Summers
        /\ UNCHANGED <<queue, spc, spushed, taken, sjob, ended, exits, sdone, due>>
    BY DEF Summer!JoinAll, Summer!bqVars
  <1>2. SummerTypes' /\ WorkerPlaces' /\ JobsOnce' /\ PushedKept'
    BY <1>1 DEF SummerInv, SummerTypes, WorkerPlaces, JobsOnce, PushedKept, JobMng!Range
  <1>3. DueFirst' /\ ExitsCounted'
    BY <1>1 DEF SummerInv, DueFirst, ExitsCounted, ExitsIn, Leaving, JobMng!Range
  <1> QED
    BY <1>2, <1>3 DEF SummerInv

\* Every step of a worker, of a producer and of the owner keeps SummerInv.
LEMMA SummerNextInv ==
  ASSUME SummerInv, [Summer!Next]_summerVars
  PROVE  SummerInv'
  <1>1. CASE UNCHANGED summerVars
    <2>1. summerOwn' = summerOwn /\ spc' = spc
      BY <1>1 DEF summerVars, summerOwn
    <2>2. spc' \in [Summer!Threads -> {"pop", "popall", "idle", "signal", "pop_asleep",
                                       "popall_asleep"}]
      BY <2>1 DEF SummerInv, SummerTypes
    <2>3. \A w \in Summers : \/ spc'[w] = "idle" \/ spc[w] # "idle"
                             \/ sjob[w] = NoJob /\ w \notin ended
      BY <2>1
    <2> QED
      BY <2>1, <2>2, <2>3, MovesKeep
  <1>2. /\ Summers \subseteq Summer!Threads /\ Producers \subseteq Summer!Threads
        /\ Owner \in Summer!Threads
    BY DEF Summer!Threads
  <1>3. ASSUME NEW w \in Summers, Summer!WorkerStep(w) \/ Summer!Spurious(w)
        PROVE  SummerInv'
    BY <1>2, <1>3, InQueueKeeps, BeginPopKeeps, TakeJobKeeps, DoJobKeeps
    DEF Summer!WorkerStep
  <1>4. ASSUME NEW t \in Producers,
               Summer!InQueue(t) \/ \E j \in Jobs : Summer!PushJob(t, j)
        PROVE  SummerInv'
    BY <1>2, <1>4, InQueueKeeps, PushJobKeeps
  <1>5. CASE Summer!ExitWork \/ Summer!OwnerStep
    BY <1>2, <1>5, InQueueKeeps, ExitWorkKeeps, PushExitKeeps, JoinAllKeeps
    DEF Summer!OwnerStep
  <1> QED
    BY <1>1, <1>3, <1>4, <1>5 DEF Summer!Next

\* What the run checks follows, if there is a worker at all.
LEMMA SummerInvExact ==
  ASSUME SummerInv, Summers # {}
  PROVE  Summer!TypeOK /\ Summer!DoneWhenExited /\ Summer!OneExitEach
  <1>0. /\ SummerTypes /\ WorkerPlaces /\ JobsOnce /\ PushedKept /\ DueFirst
        /\ ExitsCounted
    BY DEF SummerInv
  <1>1. Summer!TypeOK
    BY <1>0, SummerCardinality
    DEF Summer!TypeOK, Summer!JobQueue!TypeOK, Summer!JobQueue!Pops, Summer!WorkerCount,
        SummerTypes, JobsOnce
  <1>2. Summer!DoneWhenExited
    <2> SUFFICES ASSUME sowner = "joined", NEW j \in due
                 PROVE  j \in sdone
      BY DEF Summer!DoneWhenExited
    <2>1. ended = Summers /\ ended # {}
      BY <1>0 DEF DueFirst
    <2>2. j \in JobMng!Range(spushed) /\ j \in Jobs /\ j # ExitJob /\ j # NoJob
      BY <1>0, SummerAssumed DEF DueFirst, SummerTypes
    <2>3. \A i \in 1 .. Len(queue) : queue[i] # j
      BY <1>0, <2>1 DEF DueFirst
    <2>4. \A w \in Summers : sjob[w] # j
      BY <1>0, <2>1, <2>2 DEF WorkerPlaces
    <2> QED
      BY <1>0, <2>2, <2>3, <2>4 DEF PushedKept
  <1>3. Summer!OneExitEach
    BY <1>0, SummerCardinality DEF Summer!OneExitEach, ExitsCounted, Leaving, ExitsIn
  <1> QED
    BY <1>1, <1>2, <1>3

\* SummerWorkerMng, for any workers, producers and jobs: when ExitWork returns, every
\* job pushed before it was called is done, and each exit job ends one worker,
\* whoever pushes on meanwhile.
THEOREM ExitRight ==
  ASSUME Summers # {}
  PROVE  Summer!Spec => [](Summer!TypeOK /\ Summer!DoneWhenExited /\ Summer!OneExitEach)
  <1>1. Summer!Init => SummerInv
    BY SummerInitInv
  <1>2. SummerInv /\ [Summer!Next]_(Summer!vars) => SummerInv'
    BY SummerNextInv DEF Summer!vars, Summer!bqVars, Summer!wVars, summerVars
  <1>3. SummerInv => Summer!TypeOK /\ Summer!DoneWhenExited /\ Summer!OneExitEach
    BY SummerInvExact
  <1> QED
    BY <1>1, <1>2, <1>3, PTL DEF Summer!Spec

\* Both managers, in the behaviours of the composed specification.
THEOREM ExitsAlways ==
  ASSUME Summers # {}
  PROVE  ThreadsSpec => []ExitExact
  <1>1. ThreadsInit => JobInv /\ SummerInv
    BY JobInitInv, SummerInitInv DEF ThreadsInit
  <1>2. JobInv /\ SummerInv /\ [ThreadsNext]_allVars => JobInv' /\ SummerInv'
    <2>1. [ThreadsNext]_allVars => [JobMng!Next]_jobVars /\ [Summer!Next]_summerVars
      BY DEF ThreadsNext, allVars
    <2> QED
      BY <2>1, JobNextInv, SummerNextInv
  <1>3. JobInv /\ SummerInv => ExitExact
    BY JobInvExact, SummerInvExact DEF ExitExact
  <1> QED
    BY <1>1, <1>2, <1>3, PTL DEF ThreadsSpec
=============================================================================
