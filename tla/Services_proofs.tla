-------------------------- MODULE Services_proofs ---------------------------
(***************************************************************************)
(* What MCServices checks of the services on a small instance, for any     *)
(* threads, processes, messages, tables and files: the log, the System V   *)
(* queue and shared memory, database connections, results and their        *)
(* configuration, the Redis client and the data stream.                    *)
(***************************************************************************)
EXTENDS Services, FiniteSets, Sequences, FiniteSetTheorems, SequenceTheorems,
        WellFoundedInduction, TLAPS

-----------------------------------------------------------------------------
(* Numbers and sequences *)

\* A set of natural numbers that is not empty has a least element.
LEMMA Least ==
  ASSUME NEW S, S \subseteq Nat, S # {}
  PROVE  \E m \in S : \A k \in S : m <= k
  <1> DEFINE R == OpToRel(<, Nat)
  <1>1. IsWellFoundedOn(R, Nat)
    BY NatLessThanWellFounded, Zenon
  <1>2. \A x, y \in Nat : <<y, x>> \in R <=> y < x
    BY DEF OpToRel
  <1> HIDE DEF R
  <1>3. \E x \in S : \A y \in S : ~ (<<y, x>> \in R)
    BY <1>1, WFMin, Zenon
  <1>4. PICK m \in S : \A y \in S : ~ (<<y, m>> \in R)
    BY <1>3
  <1>5. ASSUME NEW k \in S PROVE m <= k
    <2>1. ~(k < m)
      BY <1>2, <1>4, Zenon
    <2> QED
      BY <2>1
  <1> QED
    BY <1>5

\* RemoveAt takes one element out and moves those behind it.
LEMMA CutAt ==
  ASSUME NEW S, NEW s \in Seq(S), NEW p \in 1 .. Len(s)
  PROVE  LET t == SubSeq(s, 1, p - 1) \o SubSeq(s, p + 1, Len(s))
         IN  /\ t \in Seq(S) /\ Len(t) = Len(s) - 1
             /\ \A m \in 1 .. Len(s) - 1 : t[m] = IF m < p THEN s[m] ELSE s[m + 1]
  <1> DEFINE front == SubSeq(s, 1, p - 1)
             rest  == SubSeq(s, p + 1, Len(s))
  <1>1. /\ front \in Seq(S) /\ Len(front) = p - 1
        /\ \A m \in 1 .. p - 1 : front[m] = s[m]
    <2>1. \A m \in 1 .. p - 1 : s[m] \in S
      OBVIOUS
    <2>2. /\ front \in Seq(S) /\ Len(front) = IF 1 <= p - 1 THEN p - 1 - 1 + 1 ELSE 0
          /\ \A m \in 1 .. p - 1 - 1 + 1 : front[m] = s[1 + m - 1]
      BY <2>1, SubSeqProperties
    <2> QED
      BY <2>2
  <1>2. /\ rest \in Seq(S) /\ Len(rest) = Len(s) - p
        /\ \A m \in 1 .. Len(s) - p : rest[m] = s[p + m]
    <2>1. /\ \A m \in p + 1 .. Len(s) : s[m] \in S
          /\ p + 1 \in Int /\ Len(s) \in Int
      OBVIOUS
    <2>2. /\ rest \in Seq(S) /\ Len(rest) = IF p + 1 <= Len(s) THEN Len(s) - (p + 1) + 1 ELSE 0
          /\ \A m \in 1 .. Len(s) - (p + 1) + 1 : rest[m] = s[p + 1 + m - 1]
      BY <2>1, SubSeqProperties
    <2> QED
      BY <2>2
  <1> HIDE DEF front, rest
  <1>3. /\ front \o rest \in Seq(S) /\ Len(front \o rest) = Len(front) + Len(rest)
        /\ \A m \in 1 .. Len(front) + Len(rest) :
              (front \o rest)[m] = IF m <= Len(front) THEN front[m] ELSE rest[m - Len(front)]
    BY <1>1, <1>2, ConcatProperties, Zenon
  <1>4. ASSUME NEW m \in 1 .. Len(s) - 1
        PROVE  (front \o rest)[m] = IF m < p THEN s[m] ELSE s[m + 1]
    <2>1. CASE m < p
      BY <1>1, <1>2, <1>3, <2>1
    <2>2. CASE ~(m < p)
      <3>1. PICK k \in 1 .. Len(s) - p : k = m - (p - 1)
        BY <2>2
      <3>2. (front \o rest)[m] = rest[k] /\ p + k = m + 1
        <4>1. m \in 1 .. Len(front) + Len(rest) /\ ~(m <= Len(front)) /\ m - Len(front) = k
          <5>1. Len(front) = p - 1 /\ Len(rest) = Len(s) - p /\ Len(s) \in Nat
            BY <1>1, <1>2
          <5> QED
            BY ONLY <2>2, <3>1, <5>1, p \in 1 .. Len(s), m \in 1 .. Len(s) - 1
        <4>2. (front \o rest)[m] = rest[k]
          BY <1>3, <4>1, Zenon
        <4>3. p + k = m + 1
          BY <3>1
        <4> QED
          BY <4>2, <4>3
      <3>3. rest[k] = s[p + k]
        BY <1>2, <3>1, Zenon
      <3> QED
        BY <2>2, <3>2, <3>3
    <2> QED
      BY <2>1, <2>2, Zenon
  <1>5. Len(front) + Len(rest) = Len(s) - 1
    BY <1>1, <1>2
  <1>6. front \o rest = SubSeq(s, 1, p - 1) \o SubSeq(s, p + 1, Len(s))
    BY DEF front, rest
  <1> QED
    BY <1>3, <1>4, <1>5, <1>6, Zenon

\* The elements of a sequence; whether no two are the same.
Elems(s)    == {s[k] : k \in DOMAIN s}
Distinct(s) == \A a, b \in DOMAIN s : s[a] = s[b] => a = b

\* One element more at the end of a sequence, and one less at its front.
LEMMA ElemsMore ==
  ASSUME NEW S, NEW s \in Seq(S), NEW x \in S
  PROVE  /\ Append(s, x) \in Seq(S) /\ Elems(Append(s, x)) = Elems(s) \cup {x}
         /\ Distinct(s) /\ x \notin Elems(s) => Distinct(Append(s, x))
  <1> DEFINE t == Append(s, x)
  <1>1. /\ t \in Seq(S) /\ Len(s) \in Nat /\ DOMAIN s = 1 .. Len(s)
        /\ DOMAIN t = 1 .. Len(s) + 1 /\ t[Len(s) + 1] = x
        /\ \A k \in 1 .. Len(s) : t[k] = s[k]
    OBVIOUS
  <1> HIDE DEF t
  <1>2. Elems(t) = Elems(s) \cup {x}
    BY <1>1 DEF Elems
  <1>3. ASSUME Distinct(s), x \notin Elems(s) PROVE Distinct(t)
    BY <1>1, <1>3 DEF Distinct, Elems
  <1> QED
    BY <1>1, <1>2, <1>3 DEF t

LEMMA ElemsLess ==
  ASSUME NEW S, NEW s \in Seq(S), s # <<>>
  PROVE  /\ Tail(s) \in Seq(S) /\ Head(s) \in S /\ Elems(s) = Elems(Tail(s)) \cup {Head(s)}
         /\ Distinct(s) => Distinct(Tail(s)) /\ Head(s) \notin Elems(Tail(s))
  <1> DEFINE t == Tail(s)
  <1>1. /\ t \in Seq(S) /\ Len(s) \in Nat \ {0} /\ DOMAIN s = 1 .. Len(s)
        /\ DOMAIN t = 1 .. Len(s) - 1 /\ Head(s) = s[1] /\ s[1] \in S
        /\ \A k \in 1 .. Len(s) - 1 : t[k] = s[k + 1]
    OBVIOUS
  <1> HIDE DEF t
  <1>2. \A k \in DOMAIN t : k + 1 \in DOMAIN s /\ k + 1 # 1 /\ t[k] = s[k + 1]
    BY <1>1
  <1>3. \A k \in DOMAIN s : k # 1 => k - 1 \in DOMAIN t /\ t[k - 1] = s[k]
    <2>1. ASSUME NEW k \in DOMAIN s, k # 1 PROVE k - 1 \in DOMAIN t /\ t[k - 1] = s[k]
      <3>1. k - 1 \in 1 .. Len(s) - 1 /\ k - 1 + 1 = k
        BY <1>1, <2>1
      <3> QED
        BY <1>1, <3>1
    <2> QED
      BY <2>1
  <1>4. Elems(s) = Elems(t) \cup {s[1]}
    <2>1. ASSUME NEW x \in Elems(s) PROVE x \in Elems(t) \cup {s[1]}
      BY <1>1, <1>3 DEF Elems
    <2>2. ASSUME NEW x \in Elems(t) PROVE x \in Elems(s)
      BY <1>2 DEF Elems
    <2>3. s[1] \in Elems(s)
      BY <1>1 DEF Elems
    <2> QED
      BY <2>1, <2>2, <2>3
  <1>5. ASSUME Distinct(s) PROVE Distinct(t) /\ s[1] \notin Elems(t)
    <2>1. Distinct(t)
      <3>1. ASSUME NEW a \in DOMAIN t, NEW b \in DOMAIN t, t[a] = t[b] PROVE a = b
        <4>1. a + 1 = b + 1 /\ a \in Nat /\ b \in Nat
          BY <1>1, <1>2, <1>5, <3>1 DEF Distinct
        <4> QED
          BY ONLY <4>1
      <3> QED
        BY <3>1 DEF Distinct
    <2>2. 1 \in DOMAIN s
      BY <1>1
    <2>3. \A k \in DOMAIN t : t[k] # s[1]
      BY <1>2, <1>5, <2>2 DEF Distinct
    <2> QED
      BY <2>1, <2>3 DEF Elems
  <1> QED
    BY <1>1, <1>4, <1>5 DEF t

-----------------------------------------------------------------------------
(* MessageQueue *)

Msgs == [n : Nat, type : Types, len : Nat, size : Nat]

\* What the recursive sums are: a function with this recurrence, ...
Summing(F, q) == /\ F[0] = 0
                 /\ \A k \in 1 .. Len(q) : F[k] = F[k - 1] + q[k].len
IsSums(F, q)  == F \in [0 .. Len(q) -> Nat] /\ Summing(F, q)

LEMMA SumsExist ==
  ASSUME NEW q \in Seq(Msgs)
  PROVE  \E F : IsSums(F, q)
  <1> DEFINE D(k) == q[k].len
             Upto(F, m) == /\ F \in [0 .. m -> Nat]
                           /\ F[0] = 0
                           /\ \A k \in 1 .. m : F[k] = F[k - 1] + D(k)
             None == {m \in 0 .. Len(q) : ~\E F : Upto(F, m)}
  <1>1. Len(q) \in Nat
    OBVIOUS
  <1>2. \A k \in 1 .. Len(q) : D(k) \in Nat
    <2> TAKE k \in 1 .. Len(q)
    <2>1. q[k] \in Msgs
      BY <1>1
    <2> QED
      BY <2>1 DEF Msgs
  <1> HIDE DEF D
  <1>3. SUFFICES ASSUME None # {} PROVE FALSE
    <2>1. Len(q) \in 0 .. Len(q)
      BY <1>1
    <2>2. None = {} => \E F : Upto(F, Len(q))
      BY <2>1, Zenon
    <2> QED
      BY <1>3, <2>2, Zenon DEF IsSums, Summing, D
  <1>4. PICK m \in None : \A j \in None : m <= j
    <2>1. None \subseteq Nat
      BY <1>1
    <2> QED
      BY <1>3, <2>1, Least, Zenon
  <1>5. m \in 0 .. Len(q) /\ ~\E F : Upto(F, m)
    BY <1>4
  <1>6. CASE m = 0
    <2>1. Upto([k \in 0 .. 0 |-> 0], 0)
      OBVIOUS
    <2> QED
      BY <1>5, <1>6, <2>1, Zenon
  <1>7. CASE m # 0
    <2>1. m - 1 \in 0 .. Len(q) /\ ~(m <= m - 1)
      BY <1>1, <1>5, <1>7
    <2>2. m - 1 \notin None
      BY <1>4, <2>1, Zenon
    <2>3. PICK F : Upto(F, m - 1)
      BY <2>1, <2>2, Zenon
    <2> DEFINE G == [k \in 0 .. m |-> IF k < m THEN F[k] ELSE F[m - 1] + D(m)]
    <2>4. m \in Nat /\ m \in 1 .. Len(q)
      BY <1>1, <1>5, <1>7
    <2>5. F[m - 1] \in Nat /\ D(m) \in Nat
      BY <1>2, <2>3, <2>4
    <2>6. G \in [0 .. m -> Nat]
      BY <2>3, <2>4, <2>5
    <2>7. G[0] = 0
      BY <2>3, <2>4
    <2>8. ASSUME NEW k \in 1 .. m PROVE G[k] = G[k - 1] + D(k)
      <3>1. G[k - 1] = F[k - 1]
        BY <2>4
      <3>2. CASE k = m
        BY <2>4, <3>1, <3>2
      <3>3. CASE k # m
        <4>1. k \in 1 .. m - 1 /\ k < m
          BY <2>4, <3>3
        <4> QED
          BY <2>3, <2>4, <3>1, <4>1
      <3> QED
        BY <3>2, <3>3
    <2>9. Upto(G, m)
      BY <2>6, <2>7, <2>8, Zenon
    <2> QED
      BY <1>5, <2>9, Zenon
  <1> QED
    BY <1>6, <1>7

\* ... and there is only one.
LEMMA SumsUnique ==
  ASSUME NEW q \in Seq(Msgs), NEW F, NEW G, IsSums(F, q), Summing(G, q)
  PROVE  \A m \in 0 .. Len(q) : G[m] = F[m]
  <1> DEFINE Wrong == {m \in 0 .. Len(q) : F[m] # G[m]}
  <1>1. Len(q) \in Nat
    OBVIOUS
  <1>2. SUFFICES ASSUME Wrong # {} PROVE FALSE
    OBVIOUS
  <1>3. PICK m \in Wrong : \A j \in Wrong : m <= j
    <2>1. Wrong \subseteq Nat
      BY <1>1
    <2> QED
      BY <1>2, <2>1, Least, Zenon
  <1>4. m \in 1 .. Len(q)
    BY <1>1, <1>3 DEF IsSums, Summing
  <1>5. m - 1 \in 0 .. Len(q) /\ ~(m <= m - 1)
    BY <1>1, <1>4
  <1>6. F[m - 1] = G[m - 1]
    BY <1>3, <1>5
  <1> QED
    BY <1>3, <1>4, <1>6 DEF IsSums, Summing

LEMMA SumsRight ==
  ASSUME NEW q \in Seq(Msgs)
  PROVE  IsSums(Queue!Sums(q), q)
  <1> DEFINE Body(F) == [k \in 0 .. Len(q) |-> IF k = 0 THEN 0 ELSE F[k - 1] + q[k].len]
             S == Queue!Sums(q)
  <1>1. PICK F : IsSums(F, q)
    BY SumsExist
  <1>2. Len(q) \in Nat
    OBVIOUS
  <1>3. F = Body(F)
    BY <1>1, <1>2 DEF IsSums, Summing
  <1>4. S = CHOOSE G : G = Body(G)
    BY DEF Queue!Sums
  <1> HIDE DEF S
  <1>5. S = Body(S)
    BY <1>3, <1>4, Zenon
  <1>6. Summing(S, q)
    BY <1>2, <1>5 DEF Summing
  <1>7. \A m \in 0 .. Len(q) : S[m] = F[m]
    BY <1>1, <1>6, SumsUnique, Zenon
  <1>8. S = [m \in 0 .. Len(q) |-> S[m]]
    BY <1>5
  <1>9. S = F
    BY <1>1, <1>7, <1>8 DEF IsSums, Summing
  <1> QED
    BY <1>1, <1>9 DEF S

\* A message more adds its bytes.
LEMMA SumAppend ==
  ASSUME NEW q \in Seq(Msgs), NEW m \in Msgs
  PROVE  /\ Queue!Sums(Append(q, m))[Len(Append(q, m))] = Queue!Sums(q)[Len(q)] + m.len
         /\ Queue!Sums(q)[Len(q)] \in Nat
  <1> DEFINE r == Append(q, m)
             S == Queue!Sums(q)
             T == Queue!Sums(r)
             G == [k \in 0 .. Len(q) |-> T[k]]
  <1>1. /\ Len(q) \in Nat /\ r \in Seq(Msgs) /\ Len(r) = Len(q) + 1 /\ r[Len(q) + 1] = m
        /\ \A k \in 1 .. Len(q) : r[k] = q[k]
    OBVIOUS
  <1>2. IsSums(S, q) /\ IsSums(T, r)
    BY <1>1, SumsRight
  <1> HIDE DEF r, S, T
  <1>3. Summing(G, q)
    BY <1>1, <1>2 DEF IsSums, Summing
  <1> HIDE DEF G
  <1>4. \A k \in 0 .. Len(q) : G[k] = S[k]
    BY <1>2, <1>3, SumsUnique, Zenon
  <1>5. T[Len(q)] = S[Len(q)] /\ S[Len(q)] \in Nat
    BY <1>1, <1>2, <1>4 DEF G, IsSums, Summing
  <1>6. T[Len(q) + 1] = T[Len(q)] + m.len
    BY <1>1, <1>2 DEF IsSums, Summing
  <1> QED
    BY <1>1, <1>5, <1>6 DEF r, S, T

\* A message less takes its bytes away.
LEMMA SumCut ==
  ASSUME NEW q \in Seq(Msgs), NEW r \in Seq(Msgs), NEW p \in 1 .. Len(q), Len(r) = Len(q) - 1,
         \A k \in 1 .. Len(q) - 1 : r[k] = IF k < p THEN q[k] ELSE q[k + 1]
  PROVE  Queue!Sums(r)[Len(r)] = Queue!Sums(q)[Len(q)] - q[p].len
  <1> DEFINE S == Queue!Sums(q)
             T == Queue!Sums(r)
             d == q[p].len
             G == [k \in 0 .. Len(r) |-> IF k < p THEN S[k] ELSE S[k + 1] - d]
  <1>1. Len(q) \in Nat /\ Len(r) \in Nat /\ p \in Nat /\ p > 0
    OBVIOUS
  <1>2. IsSums(S, q) /\ IsSums(T, r)
    BY SumsRight
  <1> HIDE DEF S, T
  <1>3. d \in Nat /\ \A k \in 1 .. Len(q) : q[k].len \in Nat
    <2>1. \A k \in 1 .. Len(q) : q[k] \in Msgs
      BY <1>1
    <2> QED
      BY <2>1 DEF Msgs
  <1>4. S[p] = S[p - 1] + d
    BY <1>2 DEF IsSums, Summing
  <1> HIDE DEF d
  <1>5. G[0] = 0
    BY <1>1, <1>2 DEF IsSums, Summing
  <1>6. ASSUME NEW k \in 1 .. Len(r) PROVE G[k] = G[k - 1] + r[k].len
    <2>1. k \in 0 .. Len(r) /\ k - 1 \in 0 .. Len(r) /\ k \in 1 .. Len(q) - 1
          /\ k \in 1 .. Len(q) /\ k + 1 \in 1 .. Len(q)
          /\ k - 1 \in 0 .. Len(q) /\ k \in 0 .. Len(q) /\ k + 1 \in 0 .. Len(q)
      BY <1>1
    <2>2. S[k] = S[k - 1] + q[k].len /\ S[k + 1] = S[k] + q[k + 1].len
      BY <1>2, <2>1 DEF IsSums, Summing
    <2>3. S[k - 1] \in Nat /\ S[k] \in Nat /\ S[k + 1] \in Nat
      BY <1>1, <1>2, <2>1 DEF IsSums, Summing
    <2>4. /\ G[k] = IF k < p THEN S[k] ELSE S[k + 1] - d
          /\ G[k - 1] = IF k - 1 < p THEN S[k - 1] ELSE S[k] - d
          /\ r[k] = IF k < p THEN q[k] ELSE q[k + 1]
      <3>1. k - 1 + 1 = k
        BY <1>1
      <3> QED
        BY <2>1, <3>1
    <2> HIDE DEF G
    <2>5. q[k].len \in Nat /\ q[k + 1].len \in Nat
      BY <1>3, <2>1
    <2>6. CASE k < p
      BY <1>1, <2>1, <2>2, <2>4, <2>6
    <2>7. CASE k = p
      <3>1. G[k] = S[k + 1] - d /\ G[k - 1] = S[k - 1] /\ r[k].len = q[k + 1].len
        BY <1>1, <2>4, <2>7
      <3>2. S[k] = S[k - 1] + d
        BY <1>4, <2>7
      <3>3. S[k + 1] - d = S[k - 1] + q[k + 1].len
        <4>1. S[k + 1] = S[k] + q[k + 1].len /\ d \in Nat
          BY <1>3, <2>2
        <4>2. PICK a, b, c, e \in Nat : a = S[k - 1] /\ b = S[k] /\ c = S[k + 1] /\ e = q[k + 1].len
          BY <2>3, <2>5
        <4>3. b = a + d /\ c = b + e
          BY ONLY <3>2, <4>1, <4>2, Zenon
        <4>4. c - d = a + e
          BY ONLY <4>1, <4>3, a \in Nat, b \in Nat, c \in Nat, e \in Nat
        <4> QED
          BY ONLY <4>2, <4>4, Zenon
      <3> QED
        BY <3>1, <3>3, Zenon
    <2>8. CASE k > p
      <3>1. G[k] = S[k + 1] - d /\ G[k - 1] = S[k] - d /\ r[k].len = q[k + 1].len
        BY <1>1, <2>4, <2>8
      <3> QED
        BY <1>3, <2>2, <2>3, <2>5, <3>1
    <2> QED
      BY <1>1, <2>6, <2>7, <2>8
  <1>7. G[Len(r)] = S[Len(q)] - d
    <2>1. CASE Len(r) < p
      <3>1. Len(r) = p - 1 /\ Len(q) = p
        BY <1>1, <2>1
      <3>2. p - 1 \in 0 .. Len(q) /\ p - 1 \in 0 .. Len(r) /\ p - 1 < p
        BY <1>1, <3>1
      <3>3. S[p - 1] \in Nat
        BY <1>2, <3>2 DEF IsSums, Summing
      <3>4. G[p - 1] = S[p - 1]
        BY <3>2
      <3> QED
        BY <1>3, <1>4, <3>1, <3>3, <3>4
    <2>2. CASE ~(Len(r) < p)
      BY <1>1, <2>2
    <2> QED
      BY <2>1, <2>2
  <1> HIDE DEF G
  <1>8. \A k \in 0 .. Len(r) : G[k] = T[k]
    <2>1. Summing(G, r)
      BY <1>5, <1>6, Zenon DEF Summing
    <2> QED
      BY ONLY r \in Seq(Msgs), <1>2, <2>1, SumsUnique
  <1> QED
    <2>1. Len(r) \in 0 .. Len(r)
      BY <1>1
    <2>2. T[Len(r)] = S[Len(q)] - d
      BY <1>7, <1>8, <2>1, Zenon
    <2> QED
      BY <2>2, Zenon DEF S, T, d

QueuePlaces == {"idle", "open", "send", "recv", "clear"}

\* The types; a call that waits to send has the arguments of a Send.
QueueTyped == /\ qid \in Int /\ queue \in Seq(Msgs) /\ queues \in Nat
              /\ q_id \in [Procs -> Int] /\ qpc \in [Procs -> QueuePlaces]
              /\ ask \in [Procs -> [type : Int, size : Int]]
              /\ sends \in 0 .. MaxSends /\ gone \in Nat /\ last \in [Types -> 0 .. MaxSends]
              /\ \A p \in Procs : qpc[p] = "send" => ask[p].type \in Types /\ ask[p].size \in Sizes

\* Ids grow: none is known that was not given, and no object has one that is newer
\* than that of the key.
QueueIds == /\ queues <= MaxQueues
            /\ qid = Queue!NoId \/ (qid >= 0 /\ qid < queues)
            /\ \A p \in Procs : /\ q_id[p] = Queue!NoId \/ (q_id[p] >= 0 /\ q_id[p] < queues)
                                /\ qid # Queue!NoId => q_id[p] <= qid

\* The messages in the queue are numbered in the order of their sends, and are newer
\* than those of their type that were received.
QueueOrder == /\ Len(queue) + gone = sends
              /\ \A k \in DOMAIN queue :
                   /\ queue[k].n > last[queue[k].type] /\ queue[k].n <= sends
                   /\ queue[k].len + WORD = queue[k].size
              /\ \A k, j \in DOMAIN queue : j < k => queue[j].n < queue[k].n
              /\ \A t \in Types : last[t] <= sends

QueueInv == QueueTyped /\ QueueIds /\ QueueOrder /\ Queue!CBytes <= Room

LEMMA QueueInit == ASSUME Queue!QueueAssumption, Queue!Init PROVE QueueInv
  <1>1. QueueTyped /\ QueueIds /\ QueueOrder
    BY DEF Queue!QueueAssumption, Queue!Init, QueueTyped, QueueIds, QueueOrder, QueuePlaces, Queue!NoId, Queue!NoAsk, Msgs
  <1>2. queue = << >> /\ queue \in Seq(Msgs) /\ Len(queue) = 0
    BY DEF Queue!Init
  <1>3. Queue!CBytes = 0
    BY <1>2, SumsRight DEF Queue!CBytes, IsSums, Summing
  <1> QED
    BY <1>1, <1>3 DEF QueueInv, Queue!QueueAssumption

\* A step that does not touch the queue keeps its order and its bytes.
LEMMA QueueSame ==
  ASSUME QueueInv, UNCHANGED <<queue, sends, last, gone>>
  PROVE  QueueOrder' /\ (Queue!CBytes <= Room)'
  <1>1. QueueOrder'
    BY Zenon DEF QueueInv, QueueOrder
  <1>2. (Queue!CBytes <= Room)'
    BY Zenon DEF QueueInv, Queue!CBytes
  <1> QED
    BY <1>1, <1>2

\* msgget.
LEMMA QueueGet ==
  ASSUME Queue!QueueAssumption, QueueTyped, QueueIds, Queue!Get
  PROVE  /\ qid' \in Int /\ queues' \in Nat /\ queues' <= MaxQueues /\ queues <= queues'
         /\ qid' >= 0 /\ qid' < queues' /\ UNCHANGED queue
         /\ \A p \in Procs : q_id[p] # Queue!NoId => q_id[p] <= qid' /\ q_id[p] < queues'
  <1>1. qid \in Int /\ queues \in Nat /\ queues <= MaxQueues /\ MaxQueues \in Nat /\ Queue!NoId = -1
    BY DEF Queue!QueueAssumption, QueueTyped, QueueIds, Queue!NoId
  <1>2. \A p \in Procs : /\ q_id[p] \in Int
                         /\ q_id[p] # Queue!NoId => q_id[p] >= 0 /\ q_id[p] < queues
                         /\ qid # Queue!NoId => q_id[p] <= qid
    <2>1. \A p \in Procs : q_id[p] \in Int
      BY DEF QueueTyped
    <2> QED
      BY <2>1, Zenon DEF QueueIds
  <1>3. CASE qid # Queue!NoId
    <2>1. qid' = qid /\ queues' = queues /\ queue' = queue
      BY <1>3 DEF Queue!Get, Queue!kernel
    <2>2. qid >= 0 /\ qid < queues
      BY <1>3, Zenon DEF QueueIds
    <2> QED
      BY ONLY <1>1, <1>2, <1>3, <2>1, <2>2
  <1>4. CASE ~(qid # Queue!NoId)
    <2>1. queues < MaxQueues /\ qid' = queues /\ queues' = queues + 1 /\ queue' = queue
      BY <1>4 DEF Queue!Get
    <2> QED
      BY ONLY <1>1, <1>2, <2>1
  <1> QED
    BY <1>3, <1>4, Zenon

LEMMA QueueCreate ==
  ASSUME Queue!QueueAssumption, QueueInv, NEW p \in Procs, Queue!create(p) \/ Queue!open(p)
  PROVE  QueueInv'
  <1> USE DEF QueueInv
  <1>1. UNCHANGED <<queue, sends, last, gone>>
    BY QueueGet DEF Queue!create, Queue!open, Queue!kernel
  <1>2. PICK s \in QueuePlaces \ {"send"} :
          qpc' = [qpc EXCEPT ![p] = s] /\ ask' = [ask EXCEPT ![p] = Queue!NoAsk]
    BY DEF Queue!create, Queue!open, Queue!Returns, Queue!At, QueuePlaces
  <1>3. CASE Queue!Get /\ (q_id' = [q_id EXCEPT ![p] = qid'] \/ q_id' = q_id)
    <2>1. QueueTyped'
      <3>1. qid' \in Int /\ queues' \in Nat /\ q_id' \in [Procs -> Int]
        BY <1>3, QueueGet DEF QueueTyped
      <3>2. Queue!NoAsk \in [type : Int, size : Int]
        BY DEF Queue!NoAsk
      <3> QED
        BY <1>1, <1>2, <3>1, <3>2 DEF QueueTyped
    <2>2. QueueIds'
      <3>1. queues' <= MaxQueues /\ qid' >= 0 /\ qid' < queues' /\ queues <= queues'
        BY <1>3, QueueGet
      <3>2. ASSUME NEW q \in Procs
            PROVE  (q_id'[q] = Queue!NoId \/ (q_id'[q] >= 0 /\ q_id'[q] < queues')) /\ q_id'[q] <= qid'
        <4>1. q_id'[q] = qid' \/ q_id'[q] = q_id[q]
          BY <1>3 DEF QueueTyped
        <4>2. q_id[q] # Queue!NoId => q_id[q] <= qid' /\ q_id[q] < queues' /\ q_id[q] >= 0
          BY <1>3, QueueGet DEF QueueIds
        <4> QED
          BY <3>1, <4>1, <4>2, QueueGet, <1>3 DEF Queue!NoId
      <3> QED
        BY <3>1, <3>2 DEF QueueIds
    <2> QED
      BY <1>1, <2>1, <2>2, QueueSame
  <1>4. CASE UNCHANGED <<Queue!kernel, q_id>>
    <2>1. QueueTyped'
      BY <1>1, <1>2, <1>4 DEF QueueTyped, Queue!NoAsk, Queue!kernel
    <2>2. QueueIds'
      BY <1>4 DEF QueueIds, Queue!kernel
    <2> QED
      BY <1>1, <2>1, <2>2, QueueSame
  <1> QED
    BY <1>3, <1>4 DEF Queue!create, Queue!open

\* A call that starts to wait, or is given up, and an object that goes.
LEMMA QueueWait ==
  ASSUME Queue!QueueAssumption, QueueInv, NEW p \in Procs,
         UNCHANGED <<Queue!kernel, sends, last, gone>>,
         UNCHANGED q_id \/ q_id' = [q_id EXCEPT ![p] = Queue!NoId],
         NEW s \in QueuePlaces, NEW a \in [type : Int, size : Int],
         qpc' = [qpc EXCEPT ![p] = s], ask' = [ask EXCEPT ![p] = a],
         s = "send" => a.type \in Types /\ a.size \in Sizes
  PROVE  QueueInv'
  <1> USE DEF QueueInv
  <1>1. QueueTyped'
    BY DEF QueueTyped, Queue!NoId, Queue!kernel
  <1>2. QueueIds'
    BY DEF QueueTyped, QueueIds, Queue!NoId, Queue!kernel
  <1> QED
    BY <1>1, <1>2, QueueSame DEF Queue!kernel

LEMMA QueueSent ==
  ASSUME Queue!QueueAssumption, QueueInv, NEW p \in Procs, NEW type \in Types, NEW size \in Sizes,
         sends < MaxSends, Queue!Refused(p, size) \/ ~Queue!Full(size), Queue!Sent(p, type, size)
  PROVE  QueueInv'
  <1> USE DEF QueueInv
  <1>1. /\ qpc' = [qpc EXCEPT ![p] = "idle"] /\ ask' = [ask EXCEPT ![p] = Queue!NoAsk]
        /\ UNCHANGED <<qid, queues, q_id, last, gone>>
    BY DEF Queue!Sent, Queue!Returns, Queue!At
  <1>2. "idle" \in QueuePlaces /\ Queue!NoAsk \in [type : Int, size : Int]
    BY DEF QueuePlaces, Queue!NoAsk
  <1>3. CASE Queue!Refused(p, size)
    BY <1>1, <1>2, <1>3, QueueWait DEF Queue!Sent, Queue!kernel
  <1>4. CASE ~Queue!Refused(p, size)
    <2> DEFINE m == [n |-> sends + 1, type |-> type, len |-> size - WORD, size |-> size]
    <2>1. sends' = sends + 1 /\ queue' = Append(queue, m)
      BY <1>4 DEF Queue!Sent, Queue!SendLen
    <2>2. size - WORD \in 0 .. Room /\ size \in Nat /\ WORD \in Nat /\ Room \in Nat
      BY <1>4 DEF Queue!Refused, Queue!SendLen, Queue!QueueAssumption
    <2>3. sends \in Nat /\ MaxSends \in Nat
      BY DEF QueueTyped, Queue!QueueAssumption
    <2>4. m \in Msgs /\ m.n = sends + 1 /\ m.type = type /\ m.len = size - WORD /\ m.size = size
      BY <2>2, <2>3 DEF Msgs
    <2> HIDE DEF m
    <2>5. queue \in Seq(Msgs) /\ Len(queue) \in Nat
      BY DEF QueueTyped
    <2>6. /\ queue' \in Seq(Msgs) /\ Len(queue') = Len(queue) + 1
          /\ queue'[Len(queue) + 1] = m /\ \A k \in 1 .. Len(queue) : queue'[k] = queue[k]
          /\ DOMAIN queue' = 1 .. Len(queue) + 1 /\ DOMAIN queue = 1 .. Len(queue)
      BY <2>1, <2>4, <2>5
    <2>7. QueueTyped'
      <3>1. /\ qid' \in Int /\ queues' \in Nat /\ q_id' \in [Procs -> Int] /\ gone' \in Nat
            /\ last' \in [Types -> 0 .. MaxSends]
        BY <1>1, Zenon DEF QueueTyped
      <3>2. qpc' \in [Procs -> QueuePlaces] /\ ask' \in [Procs -> [type : Int, size : Int]]
        BY <1>1, <1>2 DEF QueueTyped
      <3>3. sends' \in 0 .. MaxSends
        BY <2>1, <2>3
      <3>4. ASSUME NEW x \in Procs, qpc'[x] = "send" PROVE ask'[x].type \in Types /\ ask'[x].size \in Sizes
        <4>1. x # p /\ qpc'[x] = qpc[x] /\ ask'[x] = ask[x]
          BY <1>1, <3>4 DEF QueueTyped
        <4> QED
          BY <3>4, <4>1 DEF QueueTyped
      <3> QED
        BY <2>6, <3>1, <3>2, <3>3, <3>4, Zenon DEF QueueTyped
    <2>8. QueueIds'
      BY <1>1 DEF QueueIds
    <2>9. QueueOrder'
      <3>1. Len(queue') + gone' = sends'
        BY <1>1, <2>1, <2>5, <2>6 DEF QueueOrder, QueueTyped
      <3>2. ASSUME NEW k \in DOMAIN queue'
            PROVE  /\ queue'[k].n > last'[queue'[k].type] /\ queue'[k].n <= sends'
                   /\ queue'[k].len + WORD = queue'[k].size
        <4>1. CASE k = Len(queue) + 1
          <5>1. queue'[k] = m /\ last[type] \in 0 .. MaxSends /\ last[type] <= sends
            <6>1. last[type] <= sends
              BY DEF QueueOrder
            <6>2. last \in [Types -> 0 .. MaxSends]
              BY DEF QueueTyped
            <6>3. last[type] \in 0 .. MaxSends
              BY <6>2, Zenon
            <6> QED
              BY <2>6, <4>1, <6>1, <6>3, Zenon
          <5>2. last'[queue'[k].type] = last[type] /\ queue'[k].n = sends + 1
                /\ queue'[k].len = size - WORD /\ queue'[k].size = size
            BY <1>1, <2>4, <5>1, Zenon
          <5> QED
            BY ONLY <2>1, <2>2, <2>3, <5>1, <5>2
        <4>2. CASE k # Len(queue) + 1
          <5>1. k \in 1 .. Len(queue) /\ queue'[k] = queue[k]
            BY <2>5, <2>6, <4>2
          <5>2. queue[k] \in Msgs
            BY <2>5, <5>1
          <5>3. queue[k].n \in Nat
            BY <5>2 DEF Msgs
          <5> QED
            BY <1>1, <2>1, <2>3, <2>6, <5>1, <5>3 DEF QueueOrder
        <4> QED
          BY <4>1, <4>2
      <3>3. ASSUME NEW k \in DOMAIN queue', NEW j \in DOMAIN queue', j < k
            PROVE  queue'[j].n < queue'[k].n
        <4>1. j \in 1 .. Len(queue) /\ queue'[j] = queue[j]
          BY <2>5, <2>6, <3>3
        <4>2. CASE k = Len(queue) + 1
          <5>1. queue[j] \in Msgs
            BY <2>5, <4>1
          <5>2. queue[j].n \in Nat /\ queue[j].n <= sends
            BY <2>6, <4>1, <5>1 DEF Msgs, QueueOrder
          <5> QED
            BY <2>3, <2>4, <2>6, <4>1, <4>2, <5>2
        <4>3. CASE k # Len(queue) + 1
          <5>1. k \in 1 .. Len(queue) /\ queue'[k] = queue[k]
            BY <2>5, <2>6, <4>3
          <5> QED
            <6>1. k \in DOMAIN queue /\ j \in DOMAIN queue
              BY <2>6, <4>1, <5>1
            <6>2. queue[j].n < queue[k].n
              BY <3>3, <6>1, Zenon DEF QueueOrder
            <6> QED
              BY <4>1, <5>1, <6>2, Zenon
        <4> QED
          BY <4>2, <4>3
      <3>4. ASSUME NEW t \in Types PROVE last'[t] <= sends'
        <4>1. last' = last /\ sends' = sends + 1
          BY <1>1, <2>1
        <4>2. last \in [Types -> 0 .. MaxSends]
          BY DEF QueueTyped
        <4>3. last[t] \in 0 .. MaxSends
          BY <4>2, Zenon
        <4>4. last[t] <= sends
          BY Zenon DEF QueueOrder
        <4> QED
          BY ONLY <2>3, <4>1, <4>3, <4>4
      <3> QED
        BY <3>1, <3>2, <3>3, <3>4 DEF QueueOrder
    <2>10. (Queue!CBytes <= Room)'
      <3>1. Queue!CBytes' = Queue!CBytes + m.len /\ Queue!CBytes \in Nat
        BY <2>1, <2>4, <2>5, SumAppend DEF Queue!CBytes
      <3>2. ~(Queue!CBytes + (size - WORD) > Room)
        BY <1>4 DEF Queue!Full, Queue!SendLen
      <3> QED
        BY <2>2, <2>4, <3>1, <3>2
    <2> QED
      BY <2>7, <2>8, <2>9, <2>10
  <1> QED
    BY <1>3, <1>4

\* One message leaves the queue: the first of its type, and it was received, ...
LEMMA QueueCut ==
  ASSUME Queue!QueueAssumption, QueueInv, NEW x \in DOMAIN queue,
         queue' \in Seq(Msgs), Len(queue') = Len(queue) - 1,
         \A k \in 1 .. Len(queue) - 1 : queue'[k] = IF k < x THEN queue[k] ELSE queue[k + 1],
         \/ /\ last' = [last EXCEPT ![queue[x].type] = queue[x].n]
            /\ \A k \in 1 .. x - 1 : queue[k].type # queue[x].type
         \/ last' = last,
         gone' = gone + 1, UNCHANGED sends
  PROVE  last' \in [Types -> 0 .. MaxSends] /\ QueueOrder' /\ (Queue!CBytes <= Room)'
  <1> USE DEF QueueInv
  <1>1. queue \in Seq(Msgs) /\ Len(queue) \in Nat /\ DOMAIN queue = 1 .. Len(queue)
    BY DEF QueueTyped
  <1>2. DOMAIN queue' = 1 .. Len(queue) - 1
    BY <1>1
  <1>3. x \in 1 .. Len(queue)
    BY <1>1
  <1>4. \A k \in 1 .. Len(queue) : queue[k].n \in Nat /\ queue[k].type \in Types /\ queue[k].len \in Nat
    <2>1. \A k \in 1 .. Len(queue) : queue[k] \in Msgs
      BY <1>1
    <2> QED
      BY <2>1 DEF Msgs
  <1>5. /\ sends \in 0 .. MaxSends /\ MaxSends \in Nat /\ gone \in Nat /\ Room \in Nat
        /\ last \in [Types -> 0 .. MaxSends]
    BY DEF QueueTyped, Queue!QueueAssumption
  <1>6. queue[x].n \in 0 .. MaxSends /\ queue[x].n <= sends /\ queue[x].type \in Types
    BY <1>1, <1>4, <1>5 DEF QueueOrder
  <1>7. last' \in [Types -> 0 .. MaxSends] /\ \A t \in Types : last'[t] <= sends'
    BY <1>5, <1>6 DEF QueueOrder
  <1>8. Len(queue') + gone' = sends'
    <2>1. Len(queue) + gone = sends /\ Len(queue') = Len(queue) - 1 /\ gone' = gone + 1 /\ sends' = sends
      BY DEF QueueOrder
    <2> QED
      BY ONLY <1>1, <1>5, <2>1
  <1> DEFINE Was(k) == IF k < x THEN k ELSE k + 1
  <1>9. ASSUME NEW k \in DOMAIN queue'
        PROVE  Was(k) \in 1 .. Len(queue) /\ Was(k) # x /\ queue'[k] = queue[Was(k)]
    <2>1. k \in 1 .. Len(queue) - 1
      BY <1>2, <1>9
    <2>2. queue'[k] = IF k < x THEN queue[k] ELSE queue[k + 1]
      BY <2>1
    <2>3. CASE k < x
      BY ONLY <1>1, <1>3, <2>1, <2>2, <2>3
    <2>4. CASE ~(k < x)
      BY ONLY <1>1, <1>3, <2>1, <2>2, <2>4
    <2> QED
      BY <2>3, <2>4
  <1>10. \A k, j \in DOMAIN queue' : j < k => Was(j) < Was(k)
    BY <1>1, <1>2, <1>3
  <1> HIDE DEF Was
  <1>11. ASSUME NEW k \in DOMAIN queue', NEW j \in DOMAIN queue', j < k
         PROVE  queue'[j].n < queue'[k].n
    BY <1>1, <1>9, <1>10, <1>11 DEF QueueOrder
  <1>12. ASSUME NEW k \in DOMAIN queue'
         PROVE  /\ queue'[k].n > last'[queue'[k].type] /\ queue'[k].n <= sends'
                /\ queue'[k].len + WORD = queue'[k].size
    <2> DEFINE w == Was(k)
    <2>1. w \in 1 .. Len(queue) /\ w # x /\ queue'[k] = queue[w]
      BY <1>9
    <2> HIDE DEF w
    <2>2. /\ queue[w].n > last[queue[w].type] /\ queue[w].n <= sends
          /\ queue[w].len + WORD = queue[w].size
      BY <1>1, <2>1 DEF QueueOrder
    <2>3. queue[w].n > last'[queue[w].type]
      <3>1. CASE last'[queue[w].type] = last[queue[w].type]
        BY <2>2, <3>1
      <3>2. CASE last'[queue[w].type] # last[queue[w].type]
        <4>1. /\ queue[w].type \in Types /\ queue[w].type = queue[x].type
              /\ last'[queue[w].type] = queue[x].n
              /\ \A j \in 1 .. x - 1 : queue[j].type # queue[x].type
          BY <1>4, <1>5, <1>6, <2>1, <3>2
        <4>2. x < w
          BY <1>1, <1>3, <2>1, <4>1, SMTT(30)
        <4>3. queue[x].n < queue[w].n
          BY <1>1, <2>1, <4>2 DEF QueueOrder
        <4> QED
          BY <1>4, <1>6, <2>1, <4>1, <4>3
      <3> QED
        BY <3>1, <3>2
    <2> QED
      BY <2>1, <2>2, <2>3
  <1>13. QueueOrder'
    BY <1>7, <1>8, <1>11, <1>12 DEF QueueOrder
  <1>14. Queue!CBytes' = Queue!CBytes - queue[x].len /\ Queue!CBytes \in Nat
    <2>1. Queue!CBytes' = Queue!CBytes - queue[x].len
      BY <1>1, <1>3, SumCut DEF Queue!CBytes
    <2>2. Queue!CBytes \in Nat
      <3>1. IsSums(Queue!Sums(queue), queue) /\ Len(queue) \in 0 .. Len(queue)
        BY <1>1, SumsRight
      <3> QED
        BY <3>1 DEF IsSums, Summing, Queue!CBytes
    <2> QED
      BY <2>1, <2>2
  <1> QED
    <2>1. queue[x].len \in Nat /\ Queue!CBytes <= Room
      BY <1>3, <1>4
    <2>2. (Queue!CBytes <= Room)'
      BY <1>5, <1>14, <2>1
    <2> QED
      BY <1>7, <1>13, <2>2

LEMMA QueueReceived ==
  ASSUME Queue!QueueAssumption, QueueInv, NEW p \in Procs, NEW type \in Int, NEW size, Queue!Received(p, type, size)
  PROVE  QueueInv'
  <1> USE DEF QueueInv
  <1>1. /\ qpc' = [qpc EXCEPT ![p] = "idle"] /\ ask' = [ask EXCEPT ![p] = Queue!NoAsk]
        /\ UNCHANGED <<qid, queues, q_id, sends>>
    BY DEF Queue!Received, Queue!Returns, Queue!At
  <1>2. "idle" \in QueuePlaces /\ Queue!NoAsk \in [type : Int, size : Int]
    BY DEF QueuePlaces, Queue!NoAsk
  <1> DEFINE x == CHOOSE k \in Queue!Fits(type) : \A j \in Queue!Fits(type) : k <= j
  <1>3. CASE UNCHANGED <<queue, last, gone>>
    BY <1>1, <1>2, <1>3, QueueWait DEF Queue!kernel
  <1>4. CASE /\ Queue!Fits(type) # {} /\ queue' = SubSeq(queue, 1, x - 1) \o SubSeq(queue, x + 1, Len(queue)) /\ gone' = gone + 1
             /\ last' = [last EXCEPT ![queue[x].type] = queue[x].n]
    <2>1. Queue!Fits(type) \subseteq DOMAIN queue /\ DOMAIN queue \subseteq Nat
      BY DEF Queue!Fits, QueueTyped
    <2>2. \E k \in Queue!Fits(type) : \A j \in Queue!Fits(type) : k <= j
      BY <1>4, <2>1, Least
    <2>3. x \in Queue!Fits(type) /\ \A j \in Queue!Fits(type) : x <= j
      BY <2>2, Zenon
    <2> HIDE DEF x
    <2>4. ASSUME NEW k \in 1 .. x - 1, queue[k].type = queue[x].type PROVE FALSE
      <3>1. k \in DOMAIN queue /\ ~(x <= k)
        BY <2>1, <2>3 DEF QueueTyped
      <3>2. k \in Queue!Fits(type)
        BY <2>3, <2>4, <3>1 DEF Queue!Fits
      <3> QED
        BY <2>3, <3>1, <3>2
    <2>5. /\ queue' \in Seq(Msgs) /\ Len(queue') = Len(queue) - 1
          /\ \A k \in 1 .. Len(queue) - 1 : queue'[k] = IF k < x THEN queue[k] ELSE queue[k + 1]
      <3>1. queue \in Seq(Msgs) /\ x \in 1 .. Len(queue)
        BY <2>1, <2>3 DEF QueueTyped
      <3>2. queue' = SubSeq(queue, 1, x - 1) \o SubSeq(queue, x + 1, Len(queue))
        BY <1>4
      <3> QED
        BY <3>1, <3>2, CutAt, Zenon
    <2>6. last' \in [Types -> 0 .. MaxSends] /\ QueueOrder' /\ (Queue!CBytes <= Room)'
      <3>1. x \in DOMAIN queue /\ \A k \in 1 .. x - 1 : queue[k].type # queue[x].type
        BY <2>1, <2>3, <2>4
      <3> QED
        BY <1>1, <1>4, <2>5, <3>1, QueueCut
    <2>7. QueueTyped'
      <3>1. /\ qpc' \in [Procs -> QueuePlaces] /\ ask' \in [Procs -> [type : Int, size : Int]]
            /\ \A q \in Procs : qpc'[q] = "send" => qpc[q] = "send" /\ ask'[q] = ask[q]
        BY <1>1, <1>2 DEF QueueTyped
      <3>2. gone' \in Nat
        BY <1>4 DEF QueueTyped
      <3> QED
        BY <1>1, <2>5, <2>6, <3>1, <3>2 DEF QueueTyped
    <2>8. QueueIds'
      BY <1>1 DEF QueueIds
    <2> QED
      BY <2>6, <2>7, <2>8
  <1> QED
    BY <1>3, <1>4 DEF Queue!Received

LEMMA QueueClear ==
  ASSUME Queue!QueueAssumption, QueueInv, NEW p \in Procs, Queue!ClearMessage(p)
  PROVE  QueueInv'
  <1> USE DEF QueueInv
  <1>1. UNCHANGED <<qid, queues, q_id, sends, last>>
    BY DEF Queue!ClearMessage
  <1>2. {"idle", "clear"} \subseteq QueuePlaces /\ Queue!NoAsk \in [type : Int, size : Int]
    BY DEF QueuePlaces, Queue!NoAsk
  <1>3. CASE Queue!Returns(p) /\ UNCHANGED <<queue, gone>>
    BY <1>1, <1>2, <1>3, QueueWait DEF Queue!Returns, Queue!At, Queue!kernel
  <1>4. CASE queue # <<>> /\ queue' = Tail(queue) /\ gone' = gone + 1 /\ Queue!At(p, "clear", Queue!NoAsk)
    <2>1. queue \in Seq(Msgs) /\ 1 \in DOMAIN queue
      BY <1>4 DEF QueueTyped
    <2>2. /\ queue' \in Seq(Msgs) /\ Len(queue') = Len(queue) - 1
          /\ \A k \in 1 .. Len(queue) - 1 : queue'[k] = IF k < 1 THEN queue[k] ELSE queue[k + 1]
      BY <1>4, <2>1
    <2>3. queue' \in Seq(Msgs) /\ QueueOrder' /\ (Queue!CBytes <= Room)'
      BY <1>1, <1>4, <2>1, <2>2, QueueCut
    <2>4. QueueTyped'
      BY <1>1, <1>2, <1>4, <2>3 DEF QueueTyped, Queue!At
    <2>5. QueueIds'
      BY <1>1 DEF QueueIds
    <2> QED
      BY <2>3, <2>4, <2>5
  <1> QED
    BY <1>3, <1>4 DEF Queue!ClearMessage

LEMMA QueueRemove ==
  ASSUME Queue!QueueAssumption, QueueInv, NEW p \in Procs, Queue!Remove(p)
  PROVE  QueueInv'
  <1> USE DEF QueueInv
  <1>1. /\ qid' = Queue!NoId /\ queue' = <<>> /\ gone' = gone + Len(queue)
        /\ UNCHANGED <<queues, Queue!process, sends, last>>
    BY DEF Queue!Remove
  <1>2. Len(queue) \in Nat /\ gone \in Nat /\ queue' \in Seq(Msgs) /\ Len(queue') = 0
    BY <1>1 DEF QueueTyped
  <1>3. QueueTyped'
    BY <1>1, <1>2 DEF QueueTyped, Queue!process, Queue!NoId
  <1>4. QueueIds'
    BY <1>1 DEF QueueIds, Queue!process
  <1>5. QueueOrder'
    BY <1>1, <1>2 DEF QueueOrder, QueueTyped
  <1>6. Queue!CBytes' = 0
    BY <1>2, SumsRight DEF Queue!CBytes, IsSums, Summing
  <1> QED
    BY <1>3, <1>4, <1>5, <1>6 DEF Queue!QueueAssumption

LEMMA QueueNext ==
  ASSUME Queue!QueueAssumption, QueueInv, [Queue!Next]_Queue!mqVars
  PROVE  QueueInv'
  <1>1. CASE UNCHANGED Queue!mqVars
    BY <1>1 DEF Queue!mqVars, Queue!kernel, Queue!process, QueueInv, QueueTyped, QueueIds, QueueOrder, Queue!CBytes
  <1>2. ASSUME NEW p \in Procs, Queue!SendWaited(p) PROVE QueueInv'
    BY <1>2, QueueSent DEF Queue!SendWaited, QueueInv, QueueTyped
  <1>3. ASSUME NEW p \in Procs, Queue!RecvWaited(p) PROVE QueueInv'
    BY <1>3, QueueReceived DEF Queue!RecvWaited, QueueInv, QueueTyped
  <1>4. ASSUME NEW p \in Procs, Queue!Interrupted(p) \/ Queue!Die(p) PROVE QueueInv'
    <2>1. "idle" \in QueuePlaces /\ Queue!NoAsk \in [type : Int, size : Int]
      BY DEF QueuePlaces, Queue!NoAsk
    <2> QED
      BY <1>4, <2>1, QueueWait DEF Queue!Interrupted, Queue!Die, Queue!Returns, Queue!At, Queue!kernel
  <1>5. ASSUME NEW p \in Procs, NEW type \in Types, NEW size \in Sizes, Queue!Send(p, type, size)
        PROVE  QueueInv'
    <2>1. type \in Int /\ size \in Int
      BY DEF Queue!QueueAssumption
    <2>2. CASE ~Queue!Refused(p, size) /\ Queue!Full(size)
      <3>1. "send" \in QueuePlaces /\ [type |-> type, size |-> size] \in [type : Int, size : Int]
        BY <2>1 DEF QueuePlaces
      <3> QED
        BY <1>5, <2>2, <3>1, QueueWait DEF Queue!Send, Queue!At
    <2>3. CASE ~(~Queue!Refused(p, size) /\ Queue!Full(size))
      BY <1>5, <2>3, QueueSent DEF Queue!Send
    <2> QED
      BY <2>2, <2>3
  <1>6. ASSUME NEW p \in Procs, NEW type \in Queue!Asked, NEW size \in Nat, Queue!Recv(p, type, size)
        PROVE  QueueInv'
    <2>1. type \in Int
      <3>1. Types \subseteq Int /\ \A t \in Types : -t \in Int
        <4>1. Types \subseteq Nat \ {0}
          BY DEF Queue!QueueAssumption
        <4> QED
          BY ONLY <4>1
      <3>2. type \in Types \/ type = 0 \/ \E t \in Types : type = -t
        BY DEF Queue!Asked
      <3>3. CASE \E t \in Types : type = -t
        <4>1. PICK t \in Types : type = -t
          BY <3>3
        <4>2. -t \in Int
          BY <3>1
        <4> QED
          BY <4>1, <4>2, Zenon
      <3>4. 0 \in Int
        OBVIOUS
      <3> QED
        BY <3>1, <3>2, <3>3, <3>4, Zenon
    <2>2. CASE Queue!Reaches(p) /\ Queue!Fits(type) = {}
      <3>1. "recv" \in QueuePlaces /\ [type |-> type, size |-> size] \in [type : Int, size : Int]
        BY <2>1 DEF QueuePlaces
      <3> QED
        BY <1>6, <2>2, <3>1, QueueWait DEF Queue!Recv, Queue!At
    <2>3. CASE ~(Queue!Reaches(p) /\ Queue!Fits(type) = {})
      BY <1>6, <2>1, <2>3, QueueReceived DEF Queue!Recv
    <2> QED
      BY <2>2, <2>3
  <1> QED
    BY <1>1, <1>2, <1>3, <1>4, <1>5, <1>6, QueueCreate, QueueClear, QueueRemove DEF Queue!Next, Queue!Step

LEMMA QueueExact ==
  ASSUME Queue!QueueAssumption, QueueInv
  PROVE  Queue!TypeOK /\ Queue!OnceInOrder /\ Queue!StaleStays
  <1> USE DEF QueueInv
  <1>1. Queue!TypeOK
    <2>1. queues \in 0 .. MaxQueues /\ MaxQueues \in Nat /\ Queue!NoId = -1
      BY DEF QueueTyped, QueueIds, Queue!NoId, Queue!QueueAssumption
    <2>2. qid \in {Queue!NoId} \cup 0 .. MaxQueues
      BY <2>1 DEF QueueTyped, QueueIds
    <2>3. \A x \in Procs : q_id[x] \in {Queue!NoId} \cup 0 .. MaxQueues
      BY <2>1 DEF QueueTyped, QueueIds
    <2> QED
      BY <2>1, <2>2, <2>3 DEF Queue!TypeOK, QueueTyped, QueuePlaces
  <1>2. Queue!OnceInOrder
    <2>1. ASSUME NEW k \in DOMAIN queue, NEW j \in 1 .. k - 1 PROVE queue[j].n < queue[k].n
      <3>1. j \in DOMAIN queue /\ j < k
        BY DEF QueueTyped
      <3> QED
        BY <3>1 DEF QueueOrder
    <2> QED
      BY <2>1 DEF Queue!OnceInOrder, QueueOrder
  <1>3. Queue!StaleStays
    BY DEF Queue!StaleStays, Queue!HasInited, QueueIds, QueueTyped, Queue!NoId
  <1> QED
    BY <1>1, <1>2, <1>3

-----------------------------------------------------------------------------
(* SharedMemory *)

MemoryPlaces == {"idle", "open", "attach", "detach", "remove"}

\* The types, without their bounds.
MemoryTyped == /\ sid \in Int /\ segs \in Nat
               /\ maps \in [Users -> SUBSET [addr : Addresses, seg : Int]]
               /\ s_id \in [Users -> Int] /\ m_shm_ptr \in [Users -> Int]
               /\ spc \in [Users -> MemoryPlaces]

\* Ids grow: no object and no key has an id that was not given, and none that an
\* object has is newer than that of the key.
MemoryIds == /\ sid = Memory!NoId \/ (sid >= 0 /\ sid < segs /\ sid < MaxSegs)
             /\ \A p \in Users : /\ s_id[p] = Memory!NoId \/ (s_id[p] >= 0 /\ s_id[p] < segs /\ s_id[p] < MaxSegs)
                                 /\ s_id[p] # Memory!NoId /\ sid # Memory!NoId => s_id[p] <= sid

\* In the midst of Init and of Remove nothing is mapped, and without an id nothing
\* is; from shmget to IPC_RMID the object has an id.
MemoryPlaced(p) == /\ spc[p] # "idle" => maps[p] = {}
                   /\ spc[p] \in {"attach", "detach", "remove"} => s_id[p] # Memory!NoId
                   /\ s_id[p] = Memory!NoId => maps[p] = {}

\* The mappings of one process are what its pointer and its id say.
MemoryExact(p) == /\ maps[p] = {} => m_shm_ptr[p] \in {Memory!Null, Memory!Bad}
                  /\ maps[p] # {} => /\ m_shm_ptr[p] \in Addresses
                                     /\ maps[p] = {[addr |-> m_shm_ptr[p], seg |-> s_id[p]]}

\* The inductive invariant.
MemoryInv == MemoryTyped /\ MemoryIds /\ \A p \in Users : MemoryPlaced(p) /\ MemoryExact(p)

(* What the shared steps do *)

\* shmget with IPC_CREAT gives an id that was given, and no older one.
LEMMA MemoryGet ==
    ASSUME MemoryTyped, MemoryIds, Memory!Get
    PROVE  /\ sid' \in Int /\ segs' \in Nat /\ segs <= segs'
           /\ sid' >= 0 /\ sid' < segs' /\ sid' < MaxSegs
           /\ \A p \in Users : s_id[p] # Memory!NoId => s_id[p] <= sid' /\ s_id[p] < segs'
  BY DEF MemoryTyped, MemoryIds, Memory!Get, Memory!NoId

\* shmat by an object that has nothing mapped: then it has just that.
LEMMA MemoryAttached ==
    ASSUME Memory!MemoryAssumption, NEW p \in Users, MemoryTyped, maps[p] = {}, Memory!Attached(p)
    PROVE  /\ maps' \in [Users -> SUBSET [addr : Addresses, seg : Int]]
           /\ m_shm_ptr' \in [Users -> Int]
           /\ m_shm_ptr'[p] \in Addresses
           /\ maps'[p] = {[addr |-> m_shm_ptr'[p], seg |-> s_id[p]]}
           /\ \A q \in Users \ {p} : maps'[q] = maps[q] /\ m_shm_ptr'[q] = m_shm_ptr[q]
<1>1. PICK a \in Memory!Free(p) : /\ maps' = [maps EXCEPT ![p] = @ \cup {[addr |-> a, seg |-> s_id[p]]}]
                                  /\ m_shm_ptr' = [m_shm_ptr EXCEPT ![p] = a]
  BY DEF Memory!Attached, Memory!SetPtr
<1>2. a \in Addresses /\ a \in Int
  BY DEF Memory!Free, Memory!MemoryAssumption
<1>3. maps'[p] = {[addr |-> a, seg |-> s_id[p]]} /\ m_shm_ptr'[p] = a
  BY <1>1 DEF MemoryTyped
<1>4. [addr |-> a, seg |-> s_id[p]] \in [addr : Addresses, seg : Int]
  BY <1>2 DEF MemoryTyped
<1>5. maps' \in [Users -> SUBSET [addr : Addresses, seg : Int]]
  BY <1>1, <1>4 DEF MemoryTyped
<1> QED
  BY <1>1, <1>2, <1>3, <1>5 DEF MemoryTyped

\* dettach by an object with an exact pointer: then it has nothing mapped.
LEMMA MemoryDetached ==
    ASSUME Memory!MemoryAssumption, NEW p \in Users, MemoryTyped, MemoryExact(p), Memory!Detach(p)
    PROVE  /\ maps' \in [Users -> SUBSET [addr : Addresses, seg : Int]]
           /\ m_shm_ptr' \in [Users -> Int]
           /\ m_shm_ptr'[p] \in {Memory!Null, Memory!Bad} /\ maps'[p] = {}
           /\ \A q \in Users \ {p} : maps'[q] = maps[q] /\ m_shm_ptr'[q] = m_shm_ptr[q]
<1>1. CASE maps[p] = {}
  <2>1. UNCHANGED <<maps, m_shm_ptr>>
    BY <1>1 DEF Memory!Detach
  <2> QED
    BY <1>1, <2>1 DEF MemoryTyped, MemoryExact
<1>2. CASE maps[p] # {}
  <2>1. maps[p] = {[addr |-> m_shm_ptr[p], seg |-> s_id[p]]}
    BY <1>2 DEF MemoryExact
  <2>2. /\ maps' = [maps EXCEPT ![p] = {m \in @ : m.addr # m_shm_ptr[p]}]
        /\ m_shm_ptr' = [m_shm_ptr EXCEPT ![p] = Memory!Null]
    BY <2>1 DEF Memory!Detach, Memory!SetPtr
  <2>3. maps'[p] = {} /\ m_shm_ptr'[p] = Memory!Null
    BY <2>1, <2>2 DEF MemoryTyped
  <2> QED
    BY <2>2, <2>3 DEF MemoryTyped, Memory!Null
<1> QED
  BY <1>1, <1>2

(* Every step keeps the invariant *)

LEMMA MemoryInit == Memory!Init => MemoryInv
  BY DEF Memory!Init, MemoryInv, MemoryTyped, MemoryIds, MemoryPlaced, MemoryExact, MemoryPlaces, Memory!NoId, Memory!Null, Memory!Bad

LEMMA MemoryCreate ==
    ASSUME Memory!MemoryAssumption, MemoryInv, NEW p \in Users, Memory!create(p) \/ Memory!open(p)
    PROVE  MemoryInv'
<1> USE DEF MemoryInv
<1>1. UNCHANGED <<maps, m_shm_ptr>>
  BY DEF Memory!create, Memory!open
<1>2. s_id[p] = Memory!NoId \/ spc[p] = "open"
  BY DEF Memory!create, Memory!open, Memory!HasInited
<1>3. maps[p] = {}
  BY <1>2 DEF MemoryPlaced
<1>4. CASE Memory!Get /\ s_id' = [s_id EXCEPT ![p] = sid'] /\ spc' = [spc EXCEPT ![p] = "attach"]
  <2>1. MemoryTyped'
    BY <1>1, <1>4, MemoryGet DEF MemoryTyped, MemoryPlaces
  <2>2. MemoryIds'
    BY <1>4, MemoryGet DEF MemoryTyped, MemoryIds, Memory!NoId
  <2>3. \A q \in Users : MemoryPlaced(q)'
    BY <1>1, <1>3, <1>4, MemoryGet DEF MemoryTyped, MemoryPlaced, Memory!NoId
  <2>4. \A q \in Users : MemoryExact(q)'
    BY <1>1, <1>3, <1>4 DEF MemoryTyped, MemoryExact
  <2> QED
    BY <2>1, <2>2, <2>3, <2>4
<1>5. CASE Memory!Get /\ UNCHANGED s_id /\ spc' = [spc EXCEPT ![p] = "idle"]
  <2>1. MemoryTyped'
    BY <1>1, <1>5, MemoryGet DEF MemoryTyped, MemoryPlaces
  <2>2. MemoryIds'
    BY <1>5, MemoryGet DEF MemoryTyped, MemoryIds, Memory!NoId
  <2>3. \A q \in Users : MemoryPlaced(q)'
    BY <1>1, <1>5 DEF MemoryTyped, MemoryPlaced
  <2>4. \A q \in Users : MemoryExact(q)'
    BY <1>1, <1>5 DEF MemoryTyped, MemoryExact
  <2> QED
    BY <2>1, <2>2, <2>3, <2>4
<1>6. CASE UNCHANGED <<sid, segs, s_id>> /\ (spc' = [spc EXCEPT ![p] = "open"] \/ spc' = [spc EXCEPT ![p] = "idle"])
  <2>1. MemoryTyped' /\ MemoryIds'
    BY <1>1, <1>6 DEF MemoryTyped, MemoryIds, MemoryPlaces
  <2>2. \A q \in Users : MemoryPlaced(q)' /\ MemoryExact(q)'
    BY <1>1, <1>3, <1>6 DEF MemoryTyped, MemoryPlaced, MemoryExact
  <2> QED
    BY <2>1, <2>2
<1> QED
  BY <1>4, <1>5, <1>6 DEF Memory!create, Memory!open, Memory!SetId, Memory!Goto

LEMMA MemoryAttach ==
    ASSUME Memory!MemoryAssumption, MemoryInv, NEW p \in Users, Memory!Map(p) \/ Memory!attach(p)
    PROVE  MemoryInv'
<1> USE DEF MemoryInv
<1>1. UNCHANGED <<sid, segs, s_id>> /\ s_id[p] # Memory!NoId
  BY DEF Memory!Map, Memory!attach, Memory!HasInited, MemoryPlaced
<1>2. maps[p] = {}
  BY DEF Memory!Map, Memory!attach, MemoryPlaced, MemoryExact, Memory!MemoryAssumption, Memory!Null, Memory!Bad
<1>3. CASE Memory!Attached(p) /\ spc' = [spc EXCEPT ![p] = "idle"]
  <2>1. MemoryTyped' /\ MemoryIds'
    BY <1>1, <1>2, <1>3, MemoryAttached DEF MemoryTyped, MemoryIds, MemoryPlaces
  <2>2. \A q \in Users : MemoryPlaced(q)'
    BY <1>1, <1>2, <1>3, MemoryAttached DEF MemoryTyped, MemoryPlaced
  <2>3. \A q \in Users : MemoryExact(q)'
    BY <1>1, <1>2, <1>3, MemoryAttached DEF MemoryTyped, MemoryExact
  <2> QED
    BY <2>1, <2>2, <2>3
<1>4. CASE /\ UNCHANGED maps /\ m_shm_ptr' = [m_shm_ptr EXCEPT ![p] = Memory!Bad]
           /\ spc' = [spc EXCEPT ![p] = "detach"] \/ spc' = spc
  <2>1. MemoryTyped' /\ MemoryIds'
    BY <1>1, <1>4 DEF MemoryTyped, MemoryIds, MemoryPlaces, Memory!Bad
  <2>2. \A q \in Users : MemoryPlaced(q)' /\ MemoryExact(q)'
    BY <1>1, <1>2, <1>4 DEF MemoryTyped, MemoryPlaced, MemoryExact
  <2> QED
    BY <2>1, <2>2
<1>5. spc[p] = "idle" => [spc EXCEPT ![p] = "idle"] = spc
  BY DEF MemoryTyped
<1> QED
  BY <1>3, <1>4, <1>5 DEF Memory!Map, Memory!attach, Memory!Goto, Memory!SetPtr

LEMMA MemoryDetach ==
    ASSUME Memory!MemoryAssumption, MemoryInv, NEW p \in Users, Memory!Remove(p) \/ Memory!dettach(p)
    PROVE  MemoryInv'
<1> USE DEF MemoryInv
<1>1. UNCHANGED <<sid, segs, s_id>> /\ Memory!Detach(p) /\ s_id[p] # Memory!NoId
  BY DEF Memory!Remove, Memory!dettach, Memory!HasInited, MemoryPlaced
<1>2. spc' = [spc EXCEPT ![p] = "remove"] \/ spc' = spc
  BY DEF Memory!Remove, Memory!dettach, Memory!Goto
<1>3. MemoryTyped' /\ MemoryIds'
  BY <1>1, <1>2, MemoryDetached DEF MemoryTyped, MemoryIds, MemoryPlaces
<1>4. \A q \in Users : MemoryPlaced(q)'
  BY <1>1, <1>2, MemoryDetached DEF MemoryTyped, MemoryPlaced
<1>5. \A q \in Users : MemoryExact(q)'
  BY <1>1, MemoryDetached DEF MemoryTyped, MemoryExact
<1> QED
  BY <1>3, <1>4, <1>5

LEMMA MemoryControl ==
    ASSUME MemoryInv, NEW p \in Users, Memory!control(p)
    PROVE  MemoryInv'
<1> USE DEF MemoryInv
<1>1. /\ UNCHANGED <<segs, maps, m_shm_ptr>> /\ sid' \in {sid, Memory!NoId} /\ maps[p] = {}
      /\ s_id' = [s_id EXCEPT ![p] = Memory!NoId] /\ spc' = [spc EXCEPT ![p] = "idle"]
  BY DEF Memory!control, Memory!SetId, Memory!Goto, MemoryPlaced
<1>2. MemoryTyped' /\ MemoryIds'
  BY <1>1 DEF MemoryTyped, MemoryIds, MemoryPlaces, Memory!NoId
<1>3. \A q \in Users : MemoryPlaced(q)' /\ MemoryExact(q)'
  BY <1>1 DEF MemoryTyped, MemoryPlaced, MemoryExact
<1> QED
  BY <1>2, <1>3

\* An object that goes, with its process or without it, leaves nothing mapped.
LEMMA MemoryEnd ==
    ASSUME Memory!MemoryAssumption, MemoryInv, NEW p \in Users, Memory!Destroy(p) \/ Memory!Die(p)
    PROVE  MemoryInv'
<1> USE DEF MemoryInv
<1>1. /\ UNCHANGED <<sid, segs>> /\ s_id' = [s_id EXCEPT ![p] = Memory!NoId]
      /\ m_shm_ptr' = [m_shm_ptr EXCEPT ![p] = Memory!Null]
  BY DEF Memory!Destroy, Memory!Die, Memory!SetId, Memory!SetPtr
<1>2. maps' = [maps EXCEPT ![p] = {}]
  <2>1. CASE Memory!Die(p)
    BY <2>1 DEF Memory!Die
  <2>2. CASE Memory!Destroy(p)
    <3>1. CASE maps[p] = {}
      BY <2>2, <3>1 DEF Memory!Destroy, MemoryTyped
    <3>2. CASE maps[p] # {}
      <4>1. s_id[p] # Memory!NoId /\ maps[p] = {[addr |-> m_shm_ptr[p], seg |-> s_id[p]]}
        BY <3>2 DEF MemoryPlaced, MemoryExact
      <4>2. {m \in maps[p] : m.addr # m_shm_ptr[p]} = {}
        BY <4>1
      <4> QED
        BY <2>2, <4>1, <4>2 DEF Memory!Destroy, Memory!HasInited
    <3> QED
      BY <3>1, <3>2
  <2> QED
    BY <2>1, <2>2
<1>3. spc' = [spc EXCEPT ![p] = "idle"]
  BY DEF Memory!Destroy, Memory!Die, Memory!Goto, MemoryTyped
<1>4. MemoryTyped' /\ MemoryIds'
  BY <1>1, <1>2, <1>3 DEF MemoryTyped, MemoryIds, MemoryPlaces, Memory!NoId, Memory!Null
<1>5. \A q \in Users : MemoryPlaced(q)' /\ MemoryExact(q)'
  BY <1>1, <1>2, <1>3 DEF MemoryTyped, MemoryPlaced, MemoryExact
<1> QED
  BY <1>4, <1>5


LEMMA MemoryNext ==
    ASSUME Memory!MemoryAssumption, MemoryInv, [Memory!Next]_Memory!shVars
    PROVE  MemoryInv'
<1>1. CASE Memory!Next
  BY <1>1, MemoryCreate, MemoryAttach, MemoryDetach, MemoryControl, MemoryEnd DEF Memory!Next
<1>2. CASE UNCHANGED Memory!shVars
  BY <1>2 DEF Memory!shVars, MemoryInv, MemoryTyped, MemoryIds, MemoryPlaced, MemoryExact
<1> QED
  BY <1>1, <1>2

LEMMA MemoryMapped ==
    ASSUME Memory!MemoryAssumption, MemoryInv
    PROVE  Memory!TypeOK /\ Memory!MappedExactly /\ Memory!OldStaysOld
<1>1. ASSUME NEW p \in Users
      PROVE  /\ {m.addr : m \in maps[p]} = {m_shm_ptr[p]} \ {Memory!Null, Memory!Bad}
             /\ \A m \in maps[p] : m.seg = s_id[p]
  <2>1. CASE maps[p] = {}
    BY <2>1 DEF MemoryInv, MemoryExact
  <2>2. CASE maps[p] # {}
    <3>1. /\ maps[p] = {[addr |-> m_shm_ptr[p], seg |-> s_id[p]]}
          /\ m_shm_ptr[p] \in Nat /\ m_shm_ptr[p] # 0
      BY <2>2 DEF MemoryInv, MemoryExact, Memory!MemoryAssumption
    <3>2. m_shm_ptr[p] \notin {Memory!Null, Memory!Bad}
      BY <3>1 DEF Memory!Null, Memory!Bad
    <3> QED
      BY <3>1, <3>2
  <2> QED
    BY <2>1, <2>2
<1>2. Memory!TypeOK
  BY DEF Memory!TypeOK, MemoryInv, MemoryTyped, MemoryIds, MemoryPlaces, Memory!NoId, Memory!MemoryAssumption
<1> QED
  BY <1>1, <1>2 DEF Memory!MappedExactly, Memory!OldStaysOld, MemoryInv, MemoryIds, Memory!HasInited

-----------------------------------------------------------------------------
(* DbConnection *)

DbRows   == Nat \X Nat
DbPlaces == {"idle", "begin", "exec", "ping", "again", "rollback", "commit"}
Running  == dpc \in {"exec", "ping", "again"}

\* The types; a statement that is tried is there; and nothing in the database is of a
\* call that was not made.
DbTyped == /\ m_st \in BOOLEAN /\ up \in BOOLEAN /\ ret \in BOOLEAN
           /\ sess \in [alive : BOOLEAN, trans : BOOLEAN, rows : Seq(DbRows)]
           /\ db \in Seq(DbRows)
           /\ faults \in 0 .. MaxFaults /\ calls \in 0 .. MaxCalls
           /\ job \in [kind : Db!CallKinds, length : 0 .. MaxLength]
           /\ next \in 1 .. job.length + 1 /\ dpc \in DbPlaces
           /\ Running => next <= job.length
           /\ dpc = "begin" => next = 1 /\ job.kind = "MultiExec"
           /\ dpc = "commit" => next = job.length + 1
           /\ dpc \in {"commit", "rollback"} => job.kind = "MultiExec"
           /\ \A k \in DOMAIN db : db[k][1] <= calls
           /\ \A k \in DOMAIN sess.rows : sess.rows[k][1] <= calls

\* A session that is lost has no transaction, a connection without a handle no
\* session, and there is a transaction only in the midst of a MultiExec.
DbSession == /\ ~sess.alive => sess = Db!Gone
             /\ ~m_st => ~sess.alive
             /\ ~sess.trans => sess.rows = <<>>
             /\ sess.trans => /\ job.kind = "MultiExec"
                              /\ Running \/ dpc \in {"rollback", "commit"}

\* A row of the call that is in the database.
InDb(k) == \E j \in DOMAIN db : db[j] = <<calls, k>>

\* Outside of transactions every row that was executed is there.
DbThere == job.kind # "MultiExec" =>
             /\ Running => \A k \in 1 .. next - 1 : InDb(k)
             /\ dpc = "idle" /\ ret => \A k \in 1 .. job.length : InDb(k)

\* The first m rows of the call are the last ones in the database, which has no others
\* of it; or are the ones of the transaction.
Has(m)  == /\ m <= Len(db)
           /\ \A k \in 1 .. m : db[Len(db) - m + k] = <<calls, k>>
           /\ \A k \in 1 .. Len(db) - m : db[k][1] # calls
Holds(m) == /\ Len(sess.rows) = m
            /\ \A k \in 1 .. m : sess.rows[k] = <<calls, k>>

\* As long as nothing was lost.
DbKept == faults = 0 =>
            /\ m_st /\ sess.alive /\ up /\ dpc # "again"
            /\ job.kind # "MultiExec" => /\ Running => Has(next - 1)
                                         /\ dpc = "idle" /\ ret => Has(job.length)
            /\ job.kind = "MultiExec" =>
                 /\ dpc # "idle" => Has(0)
                 /\ dpc = "idle" => Has(IF ret THEN job.length ELSE 0)
                 /\ Running \/ dpc = "commit" => sess.trans /\ Holds(next - 1)

DbInv == DbTyped /\ DbSession /\ DbThere /\ DbKept

LEMMA DbInit == ASSUME Db!DbAssumption, Db!Init PROVE DbInv
  <1>1. /\ m_st = TRUE /\ sess = Db!Fresh /\ db = <<>> /\ up = TRUE /\ faults = 0
        /\ calls = 0 /\ job = [kind |-> "Execute", length |-> 0] /\ next = 1
        /\ dpc = "idle" /\ ret = TRUE
    BY DEF Db!Init
  <1>2. db \in Seq(DbRows) /\ Len(db) = 0 /\ DOMAIN db = {} /\ sess.rows = db
    BY <1>1 DEF Db!Fresh
  <1>3. DbTyped
    BY <1>1, <1>2 DEF DbTyped, Db!DbAssumption, Db!Fresh, Db!CallKinds, DbPlaces, Running
  <1>4. DbSession
    BY <1>1 DEF DbSession, Db!Fresh, Db!Gone
  <1>5. DbThere
    BY <1>1 DEF DbThere, Running
  <1>6. DbKept
    BY <1>1, <1>2 DEF DbKept, Has, Running, Db!Fresh
  <1> QED
    BY <1>3, <1>4, <1>5, <1>6 DEF DbInv

\* The rows of a statement.
LEMMA RowsAre ==
  ASSUME calls \in Nat, NEW a \in Nat \ {0}, NEW b \in Nat, a <= b + 1
  PROVE  /\ Db!Rows(a, b) \in Seq(DbRows) /\ Len(Db!Rows(a, b)) = b - a + 1
         /\ DOMAIN Db!Rows(a, b) = 1 .. b - a + 1
         /\ \A k \in 1 .. b - a + 1 : Db!Rows(a, b)[k] = <<calls, a + k - 1>>
  <1>1. b - a + 1 \in Nat
    OBVIOUS
  <1>2. \A k \in 1 .. b - a + 1 : <<calls, a + k - 1>> \in DbRows
    BY DEF DbRows
  <1>3. Db!Rows(a, b) \in [1 .. b - a + 1 -> DbRows]
    BY <1>2 DEF Db!Rows
  <1> QED
    BY <1>1, <1>3 DEF Db!Rows

\* Where a statement ends.
LEMMA BatchIs ==
  ASSUME Db!DbAssumption, DbTyped, next <= job.length
  PROVE  /\ Db!BatchEnd(next) \in Nat /\ next <= Db!BatchEnd(next) /\ Db!BatchEnd(next) <= job.length
         /\ next \in Nat \ {0} /\ calls \in Nat /\ job.length \in Nat
  <1>1. /\ next \in Nat \ {0} /\ job.length \in Nat /\ calls \in Nat
        /\ MAX_MULTI_INSERT_COUNT \in Nat \ {0}
    BY DEF DbTyped, Db!DbAssumption
  <1> QED
    BY <1>1 DEF Db!BatchEnd

\* Rows of the call that come after those there.
LEMMA HasMore ==
  ASSUME DbTyped, NEW m \in Nat, NEW e \in Nat, m <= e, Has(m), NEW r \in Seq(DbRows),
         Len(r) = e - m, \A k \in 1 .. e - m : r[k] = <<calls, m + k>>,
         db' = db \o r, UNCHANGED calls
  PROVE  Has(e)'
  <1>1. db \in Seq(DbRows) /\ Len(db) \in Nat /\ m <= Len(db)
    BY DEF DbTyped, Has
  <1>2. /\ Len(db') = Len(db) + (e - m)
        /\ \A k \in 1 .. Len(db) : db'[k] = db[k]
        /\ \A k \in 1 .. e - m : db'[Len(db) + k] = r[k]
    <2>1. /\ Len(db \o r) = Len(db) + Len(r)
          /\ \A k \in 1 .. Len(db) + Len(r) :
               (db \o r)[k] = IF k <= Len(db) THEN db[k] ELSE r[k - Len(db)]
      BY <1>1, ConcatProperties
    <2>2. ASSUME NEW k \in 1 .. e - m PROVE db'[Len(db) + k] = r[k]
      <3>1. /\ Len(db) + k \in 1 .. Len(db) + Len(r) /\ ~(Len(db) + k <= Len(db))
            /\ Len(db) + k - Len(db) = k
        BY <1>1
      <3>2. (db \o r)[Len(db) + k] = r[Len(db) + k - Len(db)]
        <4>1. PICK x : x = Len(db) + k
          OBVIOUS
        <4>2. x \in 1 .. Len(db) + Len(r) /\ ~(x <= Len(db))
          BY <3>1, <4>1, Zenon
        <4>3. (db \o r)[x] = r[x - Len(db)]
          BY ONLY <2>1, <4>2
        <4> QED
          BY ONLY <4>1, <4>3
      <3>3. db'[Len(db) + k] = r[Len(db) + k - Len(db)]
        BY <3>2
      <3> QED
        BY ONLY <3>1, <3>3, Zenon
    <2>3. \A k \in 1 .. Len(db) : db'[k] = db[k]
      BY <1>1, <2>1
    <2> QED
      BY <2>1, <2>2, <2>3
  <1>3. Len(db') - e = Len(db) - m /\ Len(db') \in Nat
    BY ONLY <1>1, <1>2, m \in Nat, e \in Nat, m <= e
  <1>4. ASSUME NEW k \in 1 .. e PROVE db'[Len(db') - e + k] = <<calls, k>>
    <2>1. CASE k <= m
      <3>1. Len(db) - m + k \in 1 .. Len(db) /\ k \in 1 .. m
        BY <1>1, <2>1
      <3>2. db'[Len(db) - m + k] = db[Len(db) - m + k]
        BY <1>2, <3>1
      <3> QED
        BY <1>3, <3>1, <3>2 DEF Has
    <2>2. CASE k > m
      <3>1. PICK j \in 1 .. e - m : k = m + j
        <4>1. k - m \in 1 .. e - m /\ k = m + (k - m)
          BY <2>2
        <4> QED
          BY <4>1
      <3>2. db'[Len(db) + j] = <<calls, m + j>>
        BY <1>2, <3>1
      <3>3. Len(db') - e + k = Len(db) + j
        BY ONLY <1>1, <1>3, <3>1, m \in Nat, e \in Nat
      <3> QED
        BY <3>1, <3>2, <3>3
    <2>3. k <= m \/ k > m
      OBVIOUS
    <2> QED
      BY <2>1, <2>2, <2>3, Zenon
  <1>5. \A k \in 1 .. Len(db') - e : db'[k][1] # calls
    BY <1>1, <1>2, <1>3 DEF Has
  <1>6. e <= Len(db')
    BY <1>1, <1>2
  <1> QED
    BY <1>4, <1>5, <1>6 DEF Has

\* What can come of a statement.
LEMMA DbSends ==
  ASSUME DbTyped, NEW t, NEW o, Db!Send(t, o)
  PROVE  /\ UNCHANGED up /\ o.ok \in BOOLEAN
         /\ \/ ~(m_st /\ sess.alive) /\ ~o.ok /\ UNCHANGED <<sess, db, faults>>
            \/ /\ m_st /\ sess.alive /\ o.ok /\ UNCHANGED faults
               /\ sess' = Db!After(t).sess /\ db' = Db!After(t).db
            \/ m_st /\ sess.alive /\ ~o.ok /\ t.type = "insert" /\ UNCHANGED <<sess, db, faults>>
            \/ /\ m_st /\ sess.alive /\ ~o.ok /\ faults < MaxFaults /\ faults' = faults + 1
               /\ sess' = Db!Gone /\ db' \in {db, Db!After(t).db}
  <1>1. o \in Db!Sends(t) /\ sess' = o.sess /\ db' = o.db /\ faults' = faults + o.lost /\ UNCHANGED up
    BY DEF Db!Send
  <1>2. faults \in Nat
    BY DEF DbTyped
  <1>3. CASE o = Db!Outcome(FALSE, sess, db, 0) /\ ~(m_st /\ sess.alive)
    BY <1>1, <1>2, <1>3 DEF Db!Outcome
  <1>4. CASE o = Db!Outcome(TRUE, Db!After(t).sess, Db!After(t).db, 0) /\ m_st /\ sess.alive
    BY <1>1, <1>2, <1>4 DEF Db!Outcome
  <1>5. CASE o = Db!Outcome(FALSE, sess, db, 0) /\ m_st /\ sess.alive /\ t.type = "insert"
    BY <1>1, <1>2, <1>5 DEF Db!Outcome
  <1>6. CASE m_st /\ sess.alive /\ faults < MaxFaults /\ \E d \in {db, Db!After(t).db} : o = Db!Outcome(FALSE, Db!Gone, d, 1)
    BY <1>1, <1>2, <1>6 DEF Db!Outcome
  <1>7. \/ o = Db!Outcome(FALSE, sess, db, 0) /\ ~(m_st /\ sess.alive)
        \/ o = Db!Outcome(TRUE, Db!After(t).sess, Db!After(t).db, 0) /\ m_st /\ sess.alive
        \/ o = Db!Outcome(FALSE, sess, db, 0) /\ m_st /\ sess.alive /\ t.type = "insert"
        \/ m_st /\ sess.alive /\ faults < MaxFaults /\ \E d \in {db, Db!After(t).db} : o = Db!Outcome(FALSE, Db!Gone, d, 1)
    BY <1>1 DEF Db!Sends
  <1> QED
    BY <1>3, <1>4, <1>5, <1>6, <1>7

\* What the database gets more.
LEMMA DbGrows ==
  ASSUME DbTyped, NEW x \in Seq(DbRows), \A k \in DOMAIN x : x[k][1] <= calls,
         db' = db \o x, UNCHANGED calls
  PROVE  /\ db' \in Seq(DbRows) /\ \A k \in DOMAIN db' : db'[k][1] <= calls'
         /\ \A k : InDb(k) => InDb(k)'
         /\ \A k \in DOMAIN x : \E j \in DOMAIN db' : db'[j] = x[k]
  <1>1. /\ db \in Seq(DbRows) /\ Len(db) \in Nat /\ DOMAIN db = 1 .. Len(db)
        /\ DOMAIN x = 1 .. Len(x) /\ Len(x) \in Nat
    BY DEF DbTyped
  <1>2. /\ db' \in Seq(DbRows) /\ Len(db') = Len(db) + Len(x)
        /\ \A k \in 1 .. Len(db) + Len(x) :
             db'[k] = IF k <= Len(db) THEN db[k] ELSE x[k - Len(db)]
    BY <1>1, ConcatProperties
  <1>3. DOMAIN db' = 1 .. Len(db) + Len(x)
    BY <1>1, <1>2
  <1>4. \A k \in DOMAIN db : k \in DOMAIN db' /\ db'[k] = db[k]
    BY <1>1, <1>2, <1>3
  <1>5. ASSUME NEW k \in DOMAIN x PROVE Len(db) + k \in DOMAIN db' /\ db'[Len(db) + k] = x[k]
    <2>1. /\ Len(db) + k \in 1 .. Len(db) + Len(x) /\ ~(Len(db) + k <= Len(db))
          /\ Len(db) + k - Len(db) = k
      BY <1>1
    <2> QED
      BY <1>2, <1>3, <2>1
  <1>6. ASSUME NEW k \in DOMAIN db' PROVE db'[k][1] <= calls'
    <2>1. CASE k <= Len(db)
      BY <1>1, <1>2, <1>3, <2>1 DEF DbTyped
    <2>2. CASE ~(k <= Len(db))
      <3>1. k - Len(db) \in DOMAIN x /\ db'[k] = x[k - Len(db)]
        BY <1>1, <1>2, <1>3, <2>2
      <3> QED
        BY <3>1
    <2> QED
      BY <2>1, <2>2
  <1>7. \A k : InDb(k) => InDb(k)'
    BY <1>4 DEF InDb
  <1>8. \A k \in DOMAIN x : \E j \in DOMAIN db' : db'[j] = x[k]
    BY <1>5
  <1> QED
    BY <1>2, <1>6, <1>7, <1>8

\* The statement that is executed next.
LEMMA StatementIs ==
  ASSUME Db!DbAssumption, DbInv, Running
  PROVE  LET r == Db!Statement.rows
             m == next - 1
             e == Db!BatchEnd(next)
         IN  /\ Db!Statement.type = "insert"
             /\ m \in Nat /\ e \in Nat /\ m <= e /\ m < e /\ e <= job.length
             /\ r \in Seq(DbRows) /\ Len(r) = e - m /\ DOMAIN r = 1 .. e - m
             /\ \A k \in 1 .. e - m : r[k] = <<calls, m + k>>
             /\ \A k \in DOMAIN r : r[k][1] <= calls
             /\ Db!After(Db!Statement) = IF sess.trans
                                   THEN [sess |-> [sess EXCEPT !.rows = @ \o r], db |-> db]
                                   ELSE [sess |-> sess, db |-> db \o r]
  <1> DEFINE e == Db!BatchEnd(next)
             r == Db!Rows(next, e)
             m == next - 1
  <1>1. /\ e \in Nat /\ next <= e /\ e <= job.length /\ next \in Nat \ {0} /\ calls \in Nat
    BY BatchIs DEF DbInv, DbTyped
  <1>2. Db!Statement.type = "insert" /\ Db!Statement.rows = r
    BY DEF Db!Statement
  <1> HIDE DEF e
  <1>3. /\ r \in Seq(DbRows) /\ Len(r) = e - next + 1 /\ DOMAIN r = 1 .. e - next + 1
        /\ \A k \in 1 .. e - next + 1 : r[k] = <<calls, next + k - 1>>
    <2>1. next <= e + 1
      BY <1>1
    <2> QED
      BY ONLY <1>1, <2>1, RowsAre
  <1>4. m \in Nat /\ m <= e /\ m < e /\ e - next + 1 = e - m
    BY <1>1
  <1>5. \A k \in 1 .. e - m : next + k - 1 = m + k
    BY <1>1
  <1>6. \A k \in DOMAIN r : r[k][1] <= calls
    BY <1>1, <1>3
  <1>7. Db!After(Db!Statement) = IF sess.trans
                           THEN [sess |-> [sess EXCEPT !.rows = @ \o r], db |-> db]
                           ELSE [sess |-> sess, db |-> db \o r]
    BY <1>2 DEF Db!After
  <1>8. \A k \in 1 .. e - m : r[k] = <<calls, m + k>>
    BY <1>3, <1>4, <1>5
  <1> HIDE DEF r, m
  <1>9. Len(r) = e - m /\ DOMAIN r = 1 .. e - m
    BY <1>3, <1>4
  <1> QED
    BY <1>1, <1>2, <1>3, <1>4, <1>6, <1>7, <1>8, <1>9 DEF e, m

\* What a statement of the call leaves.
LEMMA DbStatement ==
  ASSUME Db!DbAssumption, DbInv, Running, NEW o, Db!Send(Db!Statement, o), UNCHANGED <<m_st, calls, job>>,
         NEW e, e = Db!BatchEnd(next)
  PROVE  /\ up' \in BOOLEAN /\ faults' \in 0 .. MaxFaults /\ faults <= faults'
         /\ sess' \in [alive : BOOLEAN, trans : BOOLEAN, rows : Seq(DbRows)]
         /\ db' \in Seq(DbRows)
         /\ \A k \in DOMAIN db' : db'[k][1] <= calls'
         /\ \A k \in DOMAIN sess'.rows : sess'.rows[k][1] <= calls'
         /\ ~sess'.alive => sess' = Db!Gone
         /\ ~m_st' => ~sess'.alive
         /\ ~sess'.trans => sess'.rows = <<>>
         /\ sess'.trans => job.kind = "MultiExec"
         /\ \A k : InDb(k) => InDb(k)'
         /\ o.ok /\ job.kind # "MultiExec" => \A k \in next .. e : InDb(k)'
         /\ faults' = 0 => /\ faults = 0 /\ m_st' /\ sess'.alive /\ up'
                           /\ ~o.ok => UNCHANGED <<sess, db>>
                           /\ job.kind = "MultiExec" => Has(0)' /\ sess'.trans
                           /\ o.ok /\ job.kind = "MultiExec" => Holds(e)'
                           /\ o.ok /\ job.kind # "MultiExec" => Has(e)'
  <1> DEFINE r == Db!Statement.rows
             m == next - 1
  <1>1. /\ Db!Statement.type = "insert"
        /\ m \in Nat /\ e \in Nat /\ m <= e /\ m < e /\ e <= job.length
        /\ r \in Seq(DbRows) /\ Len(r) = e - m /\ DOMAIN r = 1 .. e - m
        /\ \A k \in 1 .. e - m : r[k] = <<calls, m + k>>
        /\ \A k \in DOMAIN r : r[k][1] <= calls
        /\ Db!After(Db!Statement) = IF sess.trans
                              THEN [sess |-> [sess EXCEPT !.rows = @ \o r], db |-> db]
                              ELSE [sess |-> sess, db |-> db \o r]
    BY StatementIs
  <1>2. DbTyped /\ DbSession /\ DbThere /\ DbKept
    BY DEF DbInv
  <1>3. /\ faults \in Nat /\ faults <= MaxFaults /\ MaxFaults \in Nat /\ up \in BOOLEAN
        /\ m_st \in BOOLEAN /\ db \in Seq(DbRows) /\ calls \in Nat
        /\ sess \in [alive : BOOLEAN, trans : BOOLEAN, rows : Seq(DbRows)]
        /\ \A k \in DOMAIN db : db[k][1] <= calls
        /\ \A k \in DOMAIN sess.rows : sess.rows[k][1] <= calls
    BY <1>2 DEF DbTyped, Db!DbAssumption
  <1>4. /\ UNCHANGED up
        /\ \/ ~(m_st /\ sess.alive) /\ ~o.ok /\ UNCHANGED <<sess, db, faults>>
           \/ /\ m_st /\ sess.alive /\ o.ok /\ UNCHANGED faults
              /\ sess' = Db!After(Db!Statement).sess /\ db' = Db!After(Db!Statement).db
           \/ m_st /\ sess.alive /\ ~o.ok /\ UNCHANGED <<sess, db, faults>>
           \/ /\ m_st /\ sess.alive /\ ~o.ok /\ faults < MaxFaults /\ faults' = faults + 1
              /\ sess' = Db!Gone /\ db' \in {db, Db!After(Db!Statement).db}
    BY <1>2, DbSends
  <1> HIDE DEF r, m
  <1>5. /\ <<>> \in Seq(DbRows) /\ DOMAIN <<>> = {}
        /\ Db!Gone \in [alive : BOOLEAN, trans : BOOLEAN, rows : Seq(DbRows)]
        /\ Db!Gone.rows = <<>> /\ ~Db!Gone.trans /\ ~Db!Gone.alive
    BY DEF Db!Gone
  <1>6. db' = db \/ (~sess.trans /\ db' = db \o r)
    BY <1>1, <1>4
  <1>7. /\ db' \in Seq(DbRows) /\ \A k \in DOMAIN db' : db'[k][1] <= calls'
        /\ \A k : InDb(k) => InDb(k)'
    <2>1. CASE db' = db
      BY <1>3, <2>1 DEF InDb
    <2>2. CASE db' = db \o r
      BY <1>1, <1>2, <2>2, DbGrows
    <2> QED
      BY <1>6, <2>1, <2>2
  <1>8. CASE UNCHANGED <<sess, db, faults>> /\ ~o.ok
    <2>1. /\ ~sess'.alive => sess' = Db!Gone
          /\ ~m_st' => ~sess'.alive
          /\ ~sess'.trans => sess'.rows = <<>>
          /\ sess'.trans => job.kind = "MultiExec"
      BY <1>2, <1>8 DEF DbSession
    <2>2. faults' = 0 => /\ m_st' /\ sess'.alive /\ up'
                         /\ job.kind = "MultiExec" => Has(0)' /\ sess'.trans
      BY <1>2, <1>4, <1>8 DEF DbKept, Has, Running
    <2> QED
      BY <1>3, <1>4, <1>7, <1>8, <2>1, <2>2
  <1>9. CASE faults < MaxFaults /\ faults' = faults + 1 /\ sess' = Db!Gone /\ m_st /\ ~o.ok
    BY <1>3, <1>4, <1>5, <1>7, <1>9
  <1>10. CASE m_st /\ sess.alive /\ o.ok /\ UNCHANGED faults /\ sess.trans
    <2>1. sess' = [sess EXCEPT !.rows = @ \o r] /\ db' = db
      BY <1>1, <1>4, <1>10
    <2>2. sess.rows \in Seq(DbRows) /\ sess.rows \o r \in Seq(DbRows)
      BY <1>1, <1>3, ConcatProperties
    <2>3. /\ sess' \in [alive : BOOLEAN, trans : BOOLEAN, rows : Seq(DbRows)]
          /\ sess'.alive /\ sess'.trans /\ sess'.rows = sess.rows \o r
      BY <1>3, <1>10, <2>1, <2>2
    <2>4. /\ Len(sess.rows) \in Nat /\ DOMAIN sess.rows = 1 .. Len(sess.rows)
          /\ Len(sess'.rows) = Len(sess.rows) + Len(r)
          /\ \A k \in 1 .. Len(sess.rows) + Len(r) :
               sess'.rows[k] = IF k <= Len(sess.rows) THEN sess.rows[k] ELSE r[k - Len(sess.rows)]
      <3> DEFINE u == sess.rows
      <3>1. u \in Seq(DbRows) /\ r \in Seq(DbRows) /\ sess'.rows = u \o r
        BY <1>1, <2>2, <2>3
      <3> HIDE DEF u
      <3>2. /\ Len(u) \in Nat /\ DOMAIN u = 1 .. Len(u) /\ Len(u \o r) = Len(u) + Len(r)
            /\ \A k \in 1 .. Len(u) + Len(r) : (u \o r)[k] = IF k <= Len(u) THEN u[k] ELSE r[k - Len(u)]
        BY <3>1, ConcatProperties
      <3> QED
        BY <3>1, <3>2 DEF u
    <2>5. \A k \in DOMAIN sess'.rows : sess'.rows[k][1] <= calls'
      <3>1. DOMAIN sess'.rows = 1 .. Len(sess.rows) + Len(r)
        BY <2>3, <2>4
      <3>2. TAKE k \in DOMAIN sess'.rows
      <3>3. CASE k <= Len(sess.rows)
        BY <1>3, <2>4, <3>1, <3>3
      <3>4. CASE ~(k <= Len(sess.rows))
        <4>1. k - Len(sess.rows) \in DOMAIN r /\ sess'.rows[k] = r[k - Len(sess.rows)]
          BY <1>1, <2>4, <3>1, <3>4, SMTT(30)
        <4> QED
          BY <1>1, <4>1
      <3> QED
        BY <3>3, <3>4
    <2>6. job.kind = "MultiExec"
      BY <1>2, <1>10 DEF DbSession
    <2>7. ASSUME faults' = 0 PROVE up' /\ Has(0)' /\ Holds(e)'
      <3>1. /\ up /\ Has(0) /\ Len(sess.rows) = m
            /\ \A k \in 1 .. m : sess.rows[k] = <<calls, k>>
        BY <1>2, <1>10, <2>6, <2>7 DEF DbKept, Holds, Running, m
      <3>2. Has(0)'
        BY <2>1, <3>1 DEF Has
      <3>3. Len(sess'.rows) = e
        BY <1>1, <2>4, <3>1
      <3>4. ASSUME NEW k \in 1 .. e PROVE sess'.rows[k] = <<calls, k>>
        <4>1. CASE k <= m
          <5>1. k \in 1 .. m /\ k \in 1 .. Len(sess.rows) + Len(r) /\ k <= Len(sess.rows)
            BY <1>1, <3>1, <4>1
          <5> QED
            BY <2>4, <3>1, <5>1
        <4>2. CASE ~(k <= m)
          <5>1. k - m \in 1 .. e - m /\ m + (k - m) = k /\ sess'.rows[k] = r[k - m]
            BY <1>1, <2>4, <3>1, <4>2
          <5> QED
            BY <1>1, <5>1
        <4> QED
          BY <4>1, <4>2
      <3> QED
        BY <1>4, <3>1, <3>2, <3>3, <3>4 DEF Holds
    <2> QED
      BY <1>3, <1>4, <1>7, <1>10, <2>3, <2>5, <2>6, <2>7
  <1>11. CASE m_st /\ sess.alive /\ o.ok /\ UNCHANGED faults /\ ~sess.trans
    <2>1. sess' = sess /\ db' = db \o r
      BY <1>1, <1>4, <1>11
    <2>2. ASSUME NEW k \in next .. e PROVE InDb(k)'
      <3>1. next = m + 1 /\ next \in Nat
        BY <1>2 DEF m, DbTyped
      <3>2. k - m \in 1 .. e - m /\ m + (k - m) = k
        BY <1>1, <3>1
      <3>3. r[k - m] = <<calls, k>> /\ k - m \in DOMAIN r
        BY <1>1, <3>2
      <3>4. \E j \in DOMAIN db' : db'[j] = r[k - m]
        BY <1>1, <1>2, <2>1, <3>3, DbGrows
      <3> QED
        BY <3>3, <3>4 DEF InDb
    <2>3. faults' = 0 => job.kind # "MultiExec"
      BY <1>2, <1>11 DEF DbKept
    <2>4. ASSUME faults' = 0 PROVE up' /\ Has(e)'
      <3>1. up /\ Has(m)
        BY <1>2, <1>11, <2>3, <2>4 DEF DbKept, m
      <3>2. Has(e)'
        BY <1>1, <1>2, <2>1, <3>1, HasMore
      <3> QED
        BY <1>4, <3>1, <3>2
    <2> QED
      BY <1>2, <1>3, <1>4, <1>7, <1>11, <2>1, <2>2, <2>3, <2>4 DEF DbSession
  <1> QED
    BY <1>4, <1>8, <1>9, <1>10, <1>11

\* What a step of a statement may do to server and session.
DbServed == /\ m_st' \in BOOLEAN /\ up' \in BOOLEAN /\ faults' \in 0 .. MaxFaults
            /\ sess' \in [alive : BOOLEAN, trans : BOOLEAN, rows : Seq(DbRows)]
            /\ db' \in Seq(DbRows)
            /\ \A k \in DOMAIN db' : db'[k][1] <= calls'
            /\ \A k \in DOMAIN sess'.rows : sess'.rows[k][1] <= calls'
            /\ ~sess'.alive => sess' = Db!Gone
            /\ ~m_st' => ~sess'.alive
            /\ ~sess'.trans => sess'.rows = <<>>
            /\ sess'.trans => job.kind = "MultiExec"
            /\ \A k : InDb(k) => InDb(k)'
            /\ faults' = 0 => /\ faults = 0 /\ m_st' /\ sess'.alive /\ up'
                              /\ job.kind = "MultiExec" => Has(0)' /\ sess'.trans

LEMMA DbServes ==
  ASSUME Db!DbAssumption, DbInv, Running, NEW o, Db!Send(Db!Statement, o), UNCHANGED <<m_st, calls, job>>
  PROVE  DbServed
  <1>1. m_st \in BOOLEAN
    BY DEF DbInv, DbTyped
  <1> QED
    BY <1>1, DbStatement DEF DbServed

\* A statement that failed.
LEMMA DbFailed ==
  ASSUME Db!DbAssumption, DbInv, Running, DbServed, Db!Failed, UNCHANGED <<calls, job>>
  PROVE  DbInv'
  <1>1. DbTyped /\ DbSession /\ DbThere /\ DbKept
    BY DEF DbInv
  <1>2. /\ next' = next /\ ~Running'
        /\ \/ job.kind = "MultiExec" /\ dpc' = "rollback" /\ ret' = ret
           \/ job.kind # "MultiExec" /\ dpc' = "idle" /\ ret' = FALSE
    BY DEF Db!Failed, Db!Goto, Db!Return, Running
  <1>3. DbTyped'
    BY <1>1, <1>2 DEF DbTyped, DbServed, DbPlaces
  <1>4. DbSession'
    BY <1>2 DEF DbServed, DbSession
  <1>5. DbThere'
    BY <1>2 DEF DbThere
  <1>6. DbKept'
    BY <1>2 DEF DbKept, DbServed
  <1> QED
    BY <1>3, <1>4, <1>5, <1>6 DEF DbInv

\* One that returned OK.
LEMMA DbExecuted ==
  ASSUME Db!DbAssumption, DbInv, Running, NEW o, Db!Send(Db!Statement, o), o.ok, UNCHANGED <<m_st, calls, job>>,
         Db!Executed(Db!BatchEnd(next))
  PROVE  DbInv'
  <1> DEFINE e == Db!BatchEnd(next)
  <1>1. DbTyped /\ DbSession /\ DbThere /\ DbKept /\ next <= job.length
    BY DEF DbInv, DbTyped
  <1>2. e \in Nat /\ next <= e /\ e <= job.length /\ next \in Nat \ {0} /\ job.length \in Nat
    BY <1>1, BatchIs
  <1>3. DbServed
    BY DbServes
  <1>4. PICK b : b = e
    OBVIOUS
  <1>5. /\ job.kind # "MultiExec" => \A k \in next .. b : InDb(k)'
        /\ faults' = 0 /\ job.kind = "MultiExec" => Holds(b)'
        /\ faults' = 0 /\ job.kind # "MultiExec" => Has(b)'
    BY <1>4, DbStatement
  <1>6. /\ next' = b + 1 /\ b \in Nat
        /\ \/ b < job.length /\ dpc' = "exec" /\ ret' = ret
           \/ b = job.length /\ job.kind = "MultiExec" /\ dpc' = "commit" /\ ret' = ret
           \/ b = job.length /\ job.kind # "MultiExec" /\ dpc' = "idle" /\ ret' = TRUE
    <2>1. /\ b \in Nat /\ b <= job.length /\ job.length \in Nat /\ next' = b + 1
          /\ IF b < job.length THEN Db!Goto("exec")
             ELSE IF job.kind = "MultiExec" THEN Db!Goto("commit") ELSE Db!Return(TRUE)
      BY <1>2, <1>4 DEF Db!Executed
    <2>2. CASE b < job.length
      BY <2>1, <2>2 DEF Db!Goto
    <2>3. CASE ~(b < job.length)
      BY <2>1, <2>3 DEF Db!Goto, Db!Return
    <2> QED
      BY <2>1, <2>2, <2>3
  <1>7. next' - 1 = b /\ next' \in 1 .. job.length + 1 /\ (Running' => next' <= job.length)
        /\ (dpc' = "commit" => next' = job.length + 1)
    BY <1>2, <1>4, <1>6 DEF Running
  <1> HIDE DEF e
  <1>8. DbTyped'
    BY <1>1, <1>3, <1>6, <1>7 DEF DbTyped, DbServed, DbPlaces
  <1>9. DbSession'
    BY <1>3, <1>6 DEF DbServed, DbSession, Running
  <1>10. ASSUME job.kind # "MultiExec", NEW k \in 1 .. b PROVE InDb(k)'
    <2>1. CASE k \in 1 .. next - 1
      BY <1>1, <1>3, <1>10, <2>1 DEF DbThere, DbServed
    <2>2. CASE k \in next .. b
      BY <1>5, <1>10, <2>2
    <2>3. k \in 1 .. next - 1 \/ k \in next .. b
      BY <1>2, <1>6
    <2> QED
      BY <2>1, <2>2, <2>3
  <1>11. DbThere'
    BY <1>6, <1>7, <1>10 DEF DbThere
  <1>12. DbKept'
    <2>1. SUFFICES ASSUME faults' = 0
                   PROVE  (/\ m_st /\ sess.alive /\ up /\ dpc # "again"
                           /\ job.kind # "MultiExec" => /\ Running => Has(next - 1)
                                                        /\ dpc = "idle" /\ ret => Has(job.length)
                           /\ job.kind = "MultiExec" =>
                                /\ dpc # "idle" => Has(0)
                                /\ dpc = "idle" => Has(IF ret THEN job.length ELSE 0)
                                /\ Running \/ dpc = "commit" => sess.trans /\ Holds(next - 1))'
      BY DEF DbKept
    <2>2. m_st' /\ sess'.alive /\ up' /\ dpc' # "again" /\ (job.kind = "MultiExec" => Has(0)' /\ sess'.trans)
      BY <1>3, <1>6, <2>1 DEF DbServed
    <2>3. job.kind # "MultiExec" => Has(next - 1)' /\ (dpc' = "idle" => Has(job.length)')
      BY <1>5, <1>6, <1>7, <2>1 DEF Has
    <2>4. job.kind = "MultiExec" => Holds(next - 1)'
      BY <1>5, <1>7, <2>1 DEF Holds
    <2> QED
      BY <1>6, <2>2, <2>3, <2>4
  <1> QED
    BY <1>8, <1>9, <1>11, <1>12 DEF DbInv

\* Execute and ExecuteAgain.
LEMMA DbExecute == ASSUME Db!DbAssumption, DbInv, Db!Execute \/ Db!ExecuteAgain PROVE DbInv'
  <1>1. Running /\ UNCHANGED <<m_st, calls, job>>
    BY DEF Db!Execute, Db!ExecuteAgain, Running
  <1>2. PICK o : /\ Db!Send(Db!Statement, o)
                 /\ \/ o.ok /\ Db!Executed(Db!BatchEnd(next))
                    \/ Db!Failed
                    \/ dpc = "exec" /\ ~o.ok /\ Db!Goto("ping") /\ UNCHANGED next
    BY DEF Db!Execute, Db!ExecuteAgain, Db!DbAssumption
  <1>3. DbServed
    BY <1>1, <1>2, DbServes
  <1>4. CASE o.ok /\ Db!Executed(Db!BatchEnd(next))
    BY <1>1, <1>2, <1>4, DbExecuted
  <1>5. CASE Db!Failed
    BY <1>1, <1>3, <1>5, DbFailed
  <1>6. CASE dpc = "exec" /\ ~o.ok /\ Db!Goto("ping") /\ UNCHANGED next
    <2>1. dpc' = "ping" /\ ret' = ret /\ next' = next /\ Running'
      BY <1>6 DEF Db!Goto, Running
    <2>2. DbTyped /\ DbThere /\ DbKept /\ next <= job.length
      BY <1>1 DEF DbInv, DbTyped
    <2>3. DbTyped'
      BY <1>1, <1>3, <2>1, <2>2 DEF DbTyped, DbServed, DbPlaces
    <2>4. DbSession'
      BY <1>1, <1>3, <2>1 DEF DbServed, DbSession
    <2>5. DbThere'
      BY <1>1, <1>3, <2>1, <2>2 DEF DbServed, DbThere
    <2>6. DbKept'
      <3>1. ASSUME faults' = 0 PROVE UNCHANGED <<sess, db>> /\ faults = 0
        <4>1. PICK b : b = Db!BatchEnd(next)
          OBVIOUS
        <4> QED
          BY <1>1, <1>2, <1>6, <3>1, <4>1, DbStatement
      <3>2. ASSUME faults' = 0
            PROVE  /\ job.kind # "MultiExec" => Has(next - 1)'
                   /\ job.kind = "MultiExec" => Holds(next - 1)'
        BY <1>1, <2>1, <2>2, <3>1, <3>2 DEF DbKept, Has, Holds
      <3> QED
        BY <1>1, <1>3, <2>1, <3>2 DEF DbKept, DbServed
    <2> QED
      BY <2>3, <2>4, <2>5, <2>6 DEF DbInv
  <1> QED
    BY <1>2, <1>4, <1>5, <1>6

\* Ping.
LEMMA DbPing == ASSUME Db!DbAssumption, DbInv, Db!Ping PROVE DbInv'
  <1>1. Running /\ UNCHANGED <<db, up, faults, calls, job>> /\ dpc = "ping"
    BY DEF Db!Ping, Running
  <1>2. DbTyped /\ DbSession /\ DbThere /\ DbKept /\ next <= job.length
    BY <1>1 DEF DbInv, DbTyped
  <1>3. \/ sess.alive /\ Db!Failed /\ UNCHANGED <<m_st, sess>>
        \/ ~sess.alive /\ up /\ m_st' = TRUE /\ sess' = Db!Fresh /\ Db!Goto("again") /\ UNCHANGED next
        \/ ~sess.alive /\ ~up /\ m_st' = FALSE /\ Db!Failed /\ UNCHANGED sess
    BY <1>2 DEF Db!Ping, DbTyped
  <1>4. DbServed
    <2>1. /\ up' \in BOOLEAN /\ faults' \in 0 .. MaxFaults /\ db' \in Seq(DbRows)
          /\ \A k \in DOMAIN db' : db'[k][1] <= calls'
      BY <1>1, <1>2 DEF DbTyped
    <2>2. \A k : InDb(k) => InDb(k)'
      BY <1>1 DEF InDb
    <2>3. /\ <<>> \in Seq(DbRows) /\ DOMAIN <<>> = {}
          /\ Db!Fresh \in [alive : BOOLEAN, trans : BOOLEAN, rows : Seq(DbRows)]
          /\ Db!Fresh.rows = <<>> /\ ~Db!Fresh.trans /\ Db!Fresh.alive
      BY DEF Db!Fresh
    <2>4. /\ m_st' \in BOOLEAN
          /\ sess' \in [alive : BOOLEAN, trans : BOOLEAN, rows : Seq(DbRows)]
          /\ \A k \in DOMAIN sess'.rows : sess'.rows[k][1] <= calls'
      BY <1>1, <1>2, <1>3, <2>3 DEF DbTyped
    <2>5. /\ ~sess'.alive => sess' = Db!Gone
          /\ ~m_st' => ~sess'.alive
          /\ ~sess'.trans => sess'.rows = <<>>
          /\ sess'.trans => job.kind = "MultiExec"
      BY <1>2, <1>3, <2>3 DEF DbSession
    <2>6. faults' = 0 => /\ faults = 0 /\ m_st' /\ sess'.alive /\ up'
                         /\ job.kind = "MultiExec" => Has(0)' /\ sess'.trans
      BY <1>1, <1>2, <1>3 DEF DbKept, Has
    <2> QED
      BY <2>1, <2>2, <2>4, <2>5, <2>6 DEF DbServed
  <1>5. CASE Db!Failed
    BY <1>1, <1>4, <1>5, DbFailed
  <1>6. CASE ~sess.alive /\ up /\ m_st' = TRUE /\ sess' = Db!Fresh /\ Db!Goto("again") /\ UNCHANGED next
    <2>1. dpc' = "again" /\ ret' = ret /\ next' = next /\ Running'
      BY <1>6 DEF Db!Goto, Running
    <2>3. DbTyped'
      BY <1>1, <1>2, <1>4, <2>1 DEF DbTyped, DbServed, DbPlaces
    <2>4. DbSession'
      BY <1>1, <1>4, <2>1 DEF DbServed, DbSession
    <2>5. DbThere'
      BY <1>1, <1>2, <1>4, <2>1 DEF DbServed, DbThere
    <2>6. DbKept'
      BY <1>1, <1>2, <1>6 DEF DbKept
    <2> QED
      BY <2>3, <2>4, <2>5, <2>6 DEF DbInv
  <1> QED
    BY <1>3, <1>5, <1>6

\* BeginTransaction.
LEMMA DbBegin == ASSUME Db!DbAssumption, DbInv, Db!BeginTransaction PROVE DbInv'
  <1>1. /\ dpc = "begin" /\ UNCHANGED <<m_st, calls, job, next>>
        /\ DbTyped /\ DbSession /\ DbThere /\ DbKept
    BY DEF Db!BeginTransaction, DbInv
  <1>2. PICK o : /\ Db!Send(Db!Begin, o)
                 /\ IF o.ok THEN Db!Goto(IF job.length = 0 THEN "commit" ELSE "exec")
                    ELSE Db!Return(FALSE)
    BY DEF Db!BeginTransaction
  <1>3. /\ UNCHANGED up /\ faults \in Nat /\ MaxFaults \in Nat /\ faults <= MaxFaults
        /\ Db!Begin.type = "begin"
    BY <1>1, <1>2, DbSends DEF DbTyped, Db!DbAssumption, Db!Begin
  <1>4. Db!After(Db!Begin) = [sess |-> [sess EXCEPT !.trans = TRUE], db |-> db]
    BY <1>3 DEF Db!After
  <1>5. \/ ~(m_st /\ sess.alive) /\ ~o.ok /\ UNCHANGED <<sess, db, faults>>
        \/ m_st /\ sess.alive /\ o.ok /\ sess' = [sess EXCEPT !.trans = TRUE] /\ UNCHANGED <<db, faults>>
        \/ ~o.ok /\ faults' = faults + 1 /\ faults' <= MaxFaults /\ sess' = Db!Gone /\ UNCHANGED db
    BY <1>1, <1>2, <1>3, <1>4, DbSends
  <1>6. /\ next = 1 /\ job.kind = "MultiExec" /\ ~sess.trans /\ sess.rows = <<>>
        /\ sess \in [alive : BOOLEAN, trans : BOOLEAN, rows : Seq(DbRows)]
        /\ job.length \in Nat
    BY <1>1 DEF DbTyped, DbSession, Running, Db!DbAssumption
  <1>7. /\ <<>> \in Seq(DbRows) /\ DOMAIN <<>> = {} /\ Len(<<>>) = 0
        /\ Db!Gone \in [alive : BOOLEAN, trans : BOOLEAN, rows : Seq(DbRows)]
        /\ Db!Gone.rows = <<>> /\ ~Db!Gone.trans /\ ~Db!Gone.alive
    BY DEF Db!Gone
  <1>8. /\ sess' \in [alive : BOOLEAN, trans : BOOLEAN, rows : Seq(DbRows)] /\ sess'.rows = <<>>
        /\ sess'.trans => o.ok
        /\ ~sess'.alive => sess' = Db!Gone
        /\ ~m_st => ~sess'.alive
        /\ UNCHANGED db /\ faults' \in 0 .. MaxFaults
        /\ faults' = 0 => sess'.alive /\ o.ok /\ sess'.trans
    <2>1. CASE ~(m_st /\ sess.alive) /\ ~o.ok /\ UNCHANGED <<sess, db, faults>>
      <3>1. /\ ~sess.alive => sess = Db!Gone
            /\ ~m_st => ~sess.alive
            /\ faults # 0
        BY <1>1, <2>1 DEF DbSession, DbKept
      <3> QED
        BY <1>3, <1>6, <2>1, <3>1
    <2>2. CASE m_st /\ sess.alive /\ o.ok /\ sess' = [sess EXCEPT !.trans = TRUE] /\ UNCHANGED <<db, faults>>
      <3>1. /\ sess' \in [alive : BOOLEAN, trans : BOOLEAN, rows : Seq(DbRows)]
            /\ sess'.rows = <<>> /\ sess'.alive /\ sess'.trans
        BY <1>6, <2>2
      <3> QED
        BY <1>3, <2>2, <3>1
    <2>3. CASE ~o.ok /\ faults' = faults + 1 /\ faults' <= MaxFaults /\ sess' = Db!Gone /\ UNCHANGED db
      BY <1>3, <1>7, <2>3
    <2> QED
      BY <1>5, <2>1, <2>2, <2>3
  <1>9. /\ o.ok => dpc' = (IF job.length = 0 THEN "commit" ELSE "exec") /\ ret' = ret
        /\ ~o.ok => dpc' = "idle" /\ ret' = FALSE
    BY <1>2 DEF Db!Goto, Db!Return
  <1>10. DbTyped'
    <2>1. /\ Running' => next' <= job'.length
          /\ dpc' = "commit" => next' = job'.length + 1
          /\ dpc' # "begin" /\ dpc' \in DbPlaces /\ ret' \in BOOLEAN
      <3>1. \/ dpc' = "commit" /\ job.length = 0 /\ ret' = ret
            \/ dpc' = "exec" /\ job.length # 0 /\ ret' = ret
            \/ dpc' = "idle" /\ ret' = FALSE
        BY <1>9
      <3>2. ret \in BOOLEAN /\ next' = 1 /\ job' = job /\ job.length \in Nat
        BY <1>1, <1>6 DEF DbTyped
      <3>3. job'.length = job.length
        BY <3>2
      <3>4. Running' => dpc' = "exec"
        BY <3>1 DEF Running
      <3>5. job.length # 0 => 1 <= job.length
        BY ONLY <3>2
      <3>6. dpc' # "begin" /\ dpc' \in DbPlaces /\ ret' \in BOOLEAN
        BY <3>1, <3>2 DEF DbPlaces
      <3> QED
        BY <3>1, <3>2, <3>3, <3>4, <3>5, <3>6
    <2>2. \A k \in DOMAIN sess'.rows : sess'.rows[k][1] <= calls'
      BY <1>7, <1>8
    <2> QED
      BY <1>1, <1>3, <1>6, <1>8, <2>1, <2>2 DEF DbTyped
  <1>11. DbSession'
    BY <1>1, <1>6, <1>8, <1>9 DEF DbSession, Running
  <1>12. DbThere'
    BY <1>1, <1>6 DEF DbThere
  <1>13. DbKept'
    <2>1. ASSUME faults' = 0 PROVE faults = 0 /\ m_st' /\ up' /\ Has(0)' /\ Holds(next - 1)'
      BY <1>1, <1>3, <1>5, <1>6, <1>7, <1>8, <2>1 DEF DbKept, Has, Holds
    <2> QED
      BY <1>1, <1>6, <1>8, <1>9, <2>1 DEF DbKept
  <1> QED
    BY <1>10, <1>11, <1>12, <1>13 DEF DbInv

\* The end of a transaction: RollBack and CommitTransaction.
LEMMA DbEnd ==
  ASSUME Db!DbAssumption, DbInv, NEW t \in {Db!Rollback, Db!Commit}, NEW o, Db!Send(t, o),
         dpc \in {"rollback", "commit"}, UNCHANGED <<m_st, calls, job, next>>,
         dpc' = "idle", ret' \in BOOLEAN,
         faults' = 0 => Has(IF ret THEN job.length ELSE 0)'
  PROVE  DbInv'
  <1>1. DbTyped /\ DbSession /\ DbThere /\ DbKept
    BY DEF DbInv
  <1>2. /\ job.kind = "MultiExec" /\ UNCHANGED up /\ faults \in Nat /\ MaxFaults \in Nat
        /\ faults <= MaxFaults /\ sess.rows \in Seq(DbRows) /\ db \in Seq(DbRows)
        /\ ~Running'
    <2>1. UNCHANGED up
      BY DEF Db!Send
    <2>2. /\ job.kind = "MultiExec" /\ faults \in Nat /\ MaxFaults \in Nat /\ faults <= MaxFaults
      BY <1>1 DEF DbTyped, Db!DbAssumption
    <2>3. sess.rows \in Seq(DbRows) /\ db \in Seq(DbRows)
      BY <1>1 DEF DbTyped
    <2> QED
      BY <2>1, <2>2, <2>3 DEF Running
  <1>3. Db!After(t).sess = Db!Fresh /\ Db!After(t).db \in {db, db \o sess.rows}
    <2>1. CASE t = Db!Rollback
      BY <2>1 DEF Db!After, Db!Rollback
    <2>2. CASE t = Db!Commit
      BY <2>2 DEF Db!After, Db!Commit
    <2> QED
      BY <2>1, <2>2
  <1>4. t.type # "insert"
    BY DEF Db!Rollback, Db!Commit
  <1>5. /\ \/ ~(m_st /\ sess.alive) /\ UNCHANGED <<sess, faults>>
           \/ m_st /\ sess' = Db!Fresh /\ UNCHANGED faults
           \/ sess' = Db!Gone /\ faults' = faults + 1 /\ faults < MaxFaults
        /\ db' = db \/ db' = db \o sess.rows
    BY <1>1, <1>3, <1>4, DbSends
  <1>6. /\ <<>> \in Seq(DbRows) /\ DOMAIN <<>> = {}
        /\ \A x \in {Db!Fresh, Db!Gone} : /\ x \in [alive : BOOLEAN, trans : BOOLEAN, rows : Seq(DbRows)]
                                          /\ x.rows = <<>> /\ ~x.trans
        /\ Db!Fresh.alive /\ ~Db!Gone.alive
    BY DEF Db!Fresh, Db!Gone
  <1>7. /\ sess' \in {Db!Fresh, Db!Gone} /\ (~m_st => sess' = Db!Gone) /\ faults' \in 0 .. MaxFaults
        /\ faults' = 0 => faults = 0 /\ sess' = Db!Fresh
    BY <1>1, <1>2, <1>5 DEF DbSession, DbKept
  <1>8. db' \in Seq(DbRows) /\ \A k \in DOMAIN db' : db'[k][1] <= calls'
    <2>1. CASE db' = db
      BY <1>1, <2>1 DEF DbTyped
    <2>2. CASE db' = db \o sess.rows
      <3>1. \A k \in DOMAIN sess.rows : sess.rows[k][1] <= calls
        BY <1>1 DEF DbTyped
      <3> QED
        BY <1>1, <1>2, <2>2, <3>1, DbGrows
    <2> QED
      BY <1>5, <2>1, <2>2
  <1>9. DbTyped'
    BY <1>1, <1>2, <1>6, <1>7, <1>8 DEF DbTyped, DbPlaces
  <1>10. DbSession'
    BY <1>6, <1>7 DEF DbSession
  <1>11. DbThere'
    BY <1>2 DEF DbThere
  <1>12. DbKept'
    <2>1. faults' = 0 => m_st /\ up /\ sess'.alive /\ ~sess'.trans
      BY <1>1, <1>6, <1>7 DEF DbKept
    <2>2. job'.kind = "MultiExec" /\ dpc' # "commit" /\ dpc' # "again"
      BY <1>2
    <2> QED
      BY <1>2, <2>1, <2>2 DEF DbKept
  <1> QED
    BY <1>9, <1>10, <1>11, <1>12 DEF DbInv

LEMMA DbRollback == ASSUME Db!DbAssumption, DbInv, Db!RollBack PROVE DbInv'
  <1>1. /\ dpc = "rollback" /\ UNCHANGED <<m_st, calls, job, next>> /\ dpc' = "idle" /\ ret' = FALSE
        /\ DbTyped /\ DbKept
    BY DEF Db!RollBack, Db!Return, DbInv
  <1>2. PICK o : Db!Send(Db!Rollback, o)
    BY DEF Db!RollBack
  <1>3. Db!After(Db!Rollback).db = db /\ Db!Rollback.type = "rollback"
    BY DEF Db!After, Db!Rollback
  <1>4. db' = db /\ (faults' = 0 => faults = 0)
    BY <1>1, <1>2, <1>3, DbSends DEF DbTyped
  <1>5. faults' = 0 => Has(0)'
    BY <1>1, <1>4 DEF DbKept, DbTyped, Has
  <1>6. faults' = 0 => Has(IF ret THEN job.length ELSE 0)'
    BY <1>1, <1>5
  <1> QED
    BY <1>1, <1>2, <1>6, DbEnd

LEMMA DbCommit == ASSUME Db!DbAssumption, DbInv, Db!CommitTransaction PROVE DbInv'
  <1>1. /\ dpc = "commit" /\ UNCHANGED <<m_st, calls, job, next>> /\ dpc' = "idle"
        /\ DbTyped /\ DbKept /\ DbSession
    BY DEF Db!CommitTransaction, Db!Return, DbInv
  <1>2. PICK o : Db!Send(Db!Commit, o) /\ ret' = o.ok
    BY DEF Db!CommitTransaction, Db!Return
  <1>3. Db!After(Db!Commit).db = db \o sess.rows /\ Db!Commit.type = "commit"
    BY DEF Db!After, Db!Commit
  <1>4. ret' \in BOOLEAN /\ (faults' = 0 => faults = 0)
    BY <1>1, <1>2, DbSends DEF DbTyped
  <1>5. ASSUME faults' = 0 PROVE ret' /\ db' = db \o sess.rows
    <2>1. faults = 0 /\ m_st /\ sess.alive
      BY <1>1, <1>4, <1>5 DEF DbKept
    <2> QED
      BY <1>1, <1>2, <1>3, <1>5, <2>1, DbSends
  <1>6. ASSUME faults' = 0 PROVE Has(job.length)'
    <2>1. PICK e : e = job.length
      OBVIOUS
    <2>2. Has(0) /\ Holds(next - 1) /\ next - 1 = e /\ e \in Nat /\ calls \in Nat
      BY <1>1, <1>4, <1>6, <2>1 DEF DbKept, DbTyped, Db!DbAssumption
    <2>3. PICK m \in Nat : m = 0
      OBVIOUS
    <2>4. /\ sess.rows \in Seq(DbRows) /\ Len(sess.rows) = e - m /\ m <= e /\ Has(m)
          /\ \A k \in 1 .. e - m : sess.rows[k] = <<calls, m + k>>
      <3>1. sess.rows \in Seq(DbRows) /\ Len(sess.rows) = e - m /\ m <= e /\ Has(m)
        BY <1>1, <2>2, <2>3 DEF Holds, DbTyped
      <3>2. \A k \in 1 .. e - m : k \in 1 .. e /\ m + k = k
        BY <2>2, <2>3
      <3>3. \A k \in 1 .. e : sess.rows[k] = <<calls, k>>
        BY <2>2 DEF Holds
      <3> QED
        BY <3>1, <3>2, <3>3
    <2>5. Has(e)'
      BY <1>1, <1>5, <1>6, <2>2, <2>4, HasMore
    <2> QED
      BY <1>1, <2>1, <2>5 DEF Has
  <1>7. faults' = 0 => Has(IF ret THEN job.length ELSE 0)'
    BY <1>1, <1>5, <1>6
  <1> QED
    BY <1>1, <1>2, <1>4, <1>7, DbEnd

\* A new call.
LEMMA DbCall ==
  ASSUME Db!DbAssumption, DbInv, NEW kind \in Db!CallKinds, NEW m \in 0 .. MaxLength, Db!Call(kind, m)
  PROVE  DbInv'
  <1>1. /\ dpc = "idle" /\ calls < MaxCalls /\ calls' = calls + 1
        /\ job' = [kind |-> kind, length |-> m] /\ next' = 1
        /\ UNCHANGED <<m_st, sess, db, up, faults>>
        /\ \/ kind = "MultiExec" /\ dpc' = "begin" /\ ret' = ret
           \/ kind # "MultiExec" /\ m = 0 /\ dpc' = "idle" /\ ret' = TRUE
           \/ kind # "MultiExec" /\ m # 0 /\ dpc' = "exec" /\ ret' = ret
    BY DEF Db!Call, Db!Goto, Db!Return, Db!server
  <1>2. DbTyped /\ DbSession /\ DbThere /\ DbKept
    BY DEF DbInv
  <1>3. /\ calls \in Nat /\ calls' \in 0 .. MaxCalls /\ ~(calls' <= calls) /\ m \in Nat
        /\ db \in Seq(DbRows) /\ sess.rows \in Seq(DbRows)
        /\ job'.kind = kind /\ job'.length = m /\ ret \in BOOLEAN
        /\ job' \in [kind : Db!CallKinds, length : 0 .. MaxLength]
        /\ next' \in 1 .. job'.length + 1
    BY <1>1, <1>2 DEF DbTyped, Db!DbAssumption
  <1>4. \A x \in DbRows : x[1] <= calls => x[1] <= calls' /\ x[1] # calls'
    BY <1>1, <1>3 DEF DbRows
  <1>5. /\ Len(db) \in Nat /\ \A k \in DOMAIN db : db[k] \in DbRows /\ db[k][1] <= calls
        /\ \A k \in DOMAIN sess.rows : sess.rows[k] \in DbRows /\ sess.rows[k][1] <= calls
        /\ DOMAIN db = 1 .. Len(db)
    BY <1>2, <1>3 DEF DbTyped
  <1>6. /\ Running' => next' <= job'.length
        /\ dpc' = "begin" => next' = 1 /\ job'.kind = "MultiExec"
        /\ dpc' # "commit" /\ dpc' # "rollback" /\ dpc' \in DbPlaces /\ ret' \in BOOLEAN
    <2>1. Running' => dpc' = "exec" /\ m # 0
      BY <1>1 DEF Running
    <2>2. Running' => next' <= job'.length
      BY <1>1, <1>3, <2>1
    <2>3. /\ dpc' = "begin" => next' = 1 /\ job'.kind = "MultiExec"
          /\ dpc' # "commit" /\ dpc' # "rollback" /\ ret' \in BOOLEAN
      BY <1>1, <1>3
    <2>4. dpc' \in DbPlaces
      BY <1>1 DEF DbPlaces
    <2> QED
      BY <2>2, <2>3, <2>4
  <1>7. DbTyped'
    BY <1>1, <1>2, <1>3, <1>4, <1>5, <1>6 DEF DbTyped
  <1>8. DbSession'
    BY <1>1, <1>2 DEF DbSession, Running
  <1>9. DbThere'
    BY <1>1, <1>3 DEF DbThere, Running
  <1>10. Has(0)'
    BY <1>1, <1>4, <1>5 DEF Has
  <1>11. DbKept'
    BY <1>1, <1>2, <1>3, <1>10 DEF DbKept, Running
  <1> QED
    BY <1>7, <1>8, <1>9, <1>11 DEF DbInv

LEMMA DbNext == ASSUME Db!DbAssumption, DbInv, [Db!Next]_Db!dbVars PROVE DbInv'
  <1>1. ASSUME NEW kind \in Db!CallKinds, NEW m \in 0 .. MaxLength, Db!Call(kind, m) PROVE DbInv'
    BY <1>1, DbCall
  <1>2. CASE Db!Step
    BY <1>2, DbBegin, DbExecute, DbPing, DbRollback, DbCommit DEF Db!Step
  <1>3. CASE Db!ServerDown
    <2>1. /\ sess' = Db!Gone /\ up' = FALSE /\ faults' = faults + 1 /\ faults < MaxFaults
          /\ UNCHANGED <<m_st, db, calls, job, next, dpc, ret>>
      BY <1>3 DEF Db!ServerDown, Db!client
    <2>2. /\ <<>> \in Seq(DbRows) /\ DOMAIN <<>> = {}
          /\ Db!Gone \in [alive : BOOLEAN, trans : BOOLEAN, rows : Seq(DbRows)]
          /\ Db!Gone.rows = <<>> /\ ~Db!Gone.trans /\ ~Db!Gone.alive
      BY DEF Db!Gone
    <2>3. faults' \in 0 .. MaxFaults /\ faults' # 0
      BY <2>1 DEF DbInv, DbTyped, Db!DbAssumption
    <2>4. DbTyped'
      BY <2>1, <2>2, <2>3 DEF DbInv, DbTyped, Running
    <2>5. DbSession'
      BY <2>1, <2>2 DEF DbSession
    <2>6. DbThere' /\ DbKept'
      BY <2>1, <2>3 DEF DbInv, DbThere, DbKept, InDb, Running
    <2> QED
      BY <2>4, <2>5, <2>6 DEF DbInv
  <1>4. CASE Db!ServerUp
    <2>1. ~up /\ up' = TRUE /\ UNCHANGED <<m_st, sess, db, faults, calls, job, next, dpc, ret>>
      BY <1>4 DEF Db!ServerUp, Db!client
    <2>2. DbTyped' /\ DbSession'
      BY <2>1 DEF DbInv, DbTyped, DbSession, Running
    <2>3. DbThere' /\ DbKept'
      BY <2>1 DEF DbInv, DbThere, DbKept, InDb, Running
    <2> QED
      BY <2>2, <2>3 DEF DbInv
  <1>5. CASE UNCHANGED Db!dbVars
    <2>1. UNCHANGED <<m_st, up, sess, db, faults, calls, job, next, dpc, ret>>
      BY <1>5 DEF Db!dbVars
    <2>2. DbTyped' /\ DbSession'
      BY <2>1 DEF DbInv, DbTyped, DbSession, Running
    <2>3. DbThere' /\ DbKept'
      BY <2>1 DEF DbInv, DbThere, DbKept, InDb, Running, Has, Holds
    <2> QED
      BY <2>2, <2>3 DEF DbInv
  <1> QED
    BY <1>1, <1>2, <1>3, <1>4, <1>5 DEF Db!Next

\* The first rows of the call, as the database has them.
LEMMA HasStored ==
  ASSUME DbTyped, NEW m \in Nat, Has(m), NEW r \in Seq(DbRows), Len(r) = m,
         \A k \in 1 .. m : r[k] = <<calls, k>>
  PROVE  Db!Stored(r)
  <1>1. db \in Seq(DbRows) /\ Len(db) \in Nat /\ m <= Len(db)
    BY DEF DbTyped, Has
  <1> DEFINE before == Len(db) - m
             t == SubSeq(db, before + 1, Len(db))
  <1>2. /\ before \in Nat /\ before + 1 \in Int /\ Len(db) \in Int
        /\ \A k \in before + 1 .. Len(db) : db[k] \in DbRows
    BY <1>1
  <1>3. /\ t \in Seq(DbRows)
        /\ Len(t) = IF before + 1 <= Len(db) THEN Len(db) - (before + 1) + 1 ELSE 0
        /\ \A k \in 1 .. Len(db) - (before + 1) + 1 : t[k] = db[before + 1 + k - 1]
    BY <1>2, SubSeqProperties
  <1>4. Len(t) = m /\ Len(db) - (before + 1) + 1 = m
    BY <1>1, <1>3
  <1>5. ASSUME NEW k \in 1 .. m PROVE t[k] = r[k]
    <2>1. before + 1 + k - 1 = Len(db) - m + k
      BY <1>1
    <2> QED
      BY <1>3, <1>4, <2>1 DEF Has
  <1> HIDE DEF t
  <1>6. r = t
    BY <1>3, <1>4, <1>5
  <1> QED
    BY <1>1, <1>2, <1>6, SMTT(30) DEF Db!Stored, Has, t

\* What DbInv says at the end of a call.
LEMMA DbExact ==
  ASSUME Db!DbAssumption, DbInv
  PROVE  Db!TypeOK /\ Db!NoneLeftOpen /\ Db!NoneMissing /\ (faults = 0 => Db!AllOrNone /\ Db!OnceEach)
  <1>1. DbTyped /\ DbSession /\ DbThere /\ DbKept
    BY DEF DbInv
  <1>2. Db!TypeOK
    BY <1>1 DEF DbTyped, Db!TypeOK, DbPlaces
  <1>3. Db!NoneLeftOpen
    BY <1>1 DEF DbSession, Db!NoneLeftOpen, Db!Idle, Running
  <1>4. Db!NoneMissing
    BY <1>1 DEF DbThere, Db!NoneMissing, Db!Idle, Db!Missing, InDb
  <1>5. ASSUME NEW m \in Nat, Has(m) PROVE Db!Stored(Db!Rows(1, m))
    <2>1. PICK a \in Nat \ {0} : a = 1
      OBVIOUS
    <2>2. PICK r : r = Db!Rows(a, m)
      OBVIOUS
    <2>3. calls \in Nat /\ a <= m + 1
      BY <1>1, <2>1 DEF DbTyped
    <2>4. /\ r \in Seq(DbRows) /\ Len(r) = m - a + 1
          /\ \A k \in 1 .. m - a + 1 : r[k] = <<calls, a + k - 1>>
      BY <2>2, <2>3, RowsAre
    <2>5. m - a + 1 = m /\ \A k \in 1 .. m : a + k - 1 = k
      BY <2>1
    <2>6. Len(r) = m /\ \A k \in 1 .. m : r[k] = <<calls, k>>
      BY <2>4, <2>5
    <2>7. Db!Stored(r)
      BY <1>1, <1>5, <2>4, <2>6, HasStored
    <2> QED
      BY <2>1, <2>2, <2>7
  <1>6. ASSUME Has(0) PROVE Db!Stored(<<>>)
    <2>1. PICK r : r = <<>>
      OBVIOUS
    <2>2. r \in Seq(DbRows) /\ Len(r) = 0 /\ 0 \in Nat /\ \A k \in 1 .. 0 : r[k] = <<calls, k>>
      BY <2>1
    <2>3. Db!Stored(r)
      BY <1>1, <1>6, <2>2, HasStored
    <2> QED
      BY <2>1, <2>3
  <1>7. job.length \in Nat
    BY <1>1 DEF DbTyped, Db!DbAssumption
  <1>8. faults = 0 => Db!AllOrNone
    BY <1>1, <1>5, <1>6, <1>7 DEF Db!AllOrNone, Db!Idle, Db!Mine, DbKept
  <1>9. faults = 0 => Db!OnceEach
    BY <1>1, <1>5, <1>7 DEF Db!OnceEach, Db!Idle, Db!Mine, DbKept
  <1> QED
    BY <1>2, <1>3, <1>4, <1>8, <1>9

-----------------------------------------------------------------------------
(* RedisClient *)

RedisOps   == {"write", "take", "read"}
RedisWants == {"STATUS", "BOOL", "STRING", "INTEGER", "NUMBER", "ARRAY", "POP"}

\* The types; a call that runs is one of the methods.
RedisTyped == /\ context \in {"none", "good", "broken"} /\ alive \in BOOLEAN
              /\ items \in Seq(Nat) /\ given \in Seq(Nat)
              /\ n \in 0 .. RedisCalls /\ outages \in 0 .. MaxOutages /\ quiet \in Nat
              /\ rpc \in {"idle", "command", "reply", "thrown"}
              /\ rpc # "idle" => call \in [wants : RedisWants, does : RedisOps]
              /\ reply.val \in Seq(Nat)

\* An item is on the server or taken out, and no later one is there than the call's.
RedisItems == /\ Distinct(items) /\ Distinct(given)
              /\ Elems(items) \cap withdrawn = {} /\ Elems(items) \cup withdrawn = applied
              /\ Elems(given) \subseteq withdrawn
              /\ applied \subseteq 1 .. n
              /\ rpc = "command" => n > 0 /\ n \notin applied

\* What was taken out and is handed to nobody, and what is on its way in a reply.
Untold == withdrawn \ Elems(given)
OnWay  == IF rpc = "reply" /\ call.does = "take" THEN Elems(reply.val) ELSE {}
Astray == Untold \ OnWay

\* A reply to a method that takes has one item at most, and nobody has it yet; the
\* others were lost with their reply.
RedisReplies == /\ rpc = "reply" /\ reply.type \in {"null", "ERROR"} => reply.val = <<>>
                /\ rpc = "reply" /\ call.does = "take" =>
                     reply.val = <<>> \/ \E x \in Untold : reply.val = <<x>>
                /\ Cardinality(Astray) <= outages

\* There is a reply only on a good context, and a call throws at once only before
\* the server is back.
RedisHealed == /\ rpc = "reply" => context = "good" \/ reply.type = "null"
               /\ rpc = "thrown" /\ alive => quiet = 0
               /\ rpc \in {"idle", "command"} /\ alive /\ quiet >= 2 => context = "good"

RedisInv == RedisTyped /\ RedisItems /\ RedisReplies /\ RedisHealed

\* The methods.
LEMMA MethodsAre == Redis!Methods \subseteq [wants : RedisWants, does : RedisOps]
  BY DEF Redis!Methods, Redis!Strings, Redis!Keys, Redis!Fields, Redis!Hashes, Redis!Lists, Redis!ListEnds, Redis!Sets, Redis!Method, RedisWants, RedisOps

LEMMA RedisInit == ASSUME Redis!RedisAssumption, Redis!Init PROVE RedisInv
  <1>1. /\ context = "none" /\ alive \in BOOLEAN /\ items = <<>> /\ n = 0 /\ rpc = "idle"
        /\ reply.val = <<>> /\ outages = 0 /\ quiet = 0 /\ applied = {} /\ given = <<>> /\ withdrawn = {}
    BY DEF Redis!Init, Redis!Null
  <1>2. <<>> \in Seq(Nat) /\ DOMAIN <<>> = {} /\ Elems(<<>>) = {} /\ Distinct(<<>>)
    BY DEF Elems, Distinct
  <1>3. RedisTyped
    BY <1>1, <1>2 DEF RedisTyped, Redis!RedisAssumption
  <1>4. RedisItems
    BY <1>1, <1>2 DEF RedisItems
  <1>5. Astray = {}
    BY <1>1 DEF Untold, Astray
  <1>6. RedisReplies
    <2>1. Cardinality({}) = 0
      BY FS_EmptySet
    <2> QED
      BY <1>1, <1>5, <2>1 DEF RedisReplies
  <1>7. RedisHealed
    BY <1>1 DEF RedisHealed
  <1> QED
    BY <1>3, <1>4, <1>6, <1>7 DEF RedisInv

\* There are finitely many items.
LEMMA UntoldFinite ==
  ASSUME Redis!RedisAssumption, RedisTyped, RedisItems, NEW T, T \subseteq Untold
  PROVE  IsFiniteSet(T) /\ Cardinality(T) \in Nat
  <1>1. T \subseteq 1 .. n /\ n \in Nat
    <2>1. Untold \subseteq applied /\ applied \subseteq 1 .. n
      BY DEF Untold, RedisItems
    <2>2. n \in Nat
      BY DEF RedisTyped, Redis!RedisAssumption
    <2> QED
      BY <2>1, <2>2
  <1>2. IsFiniteSet(1 .. n)
    BY <1>1, FS_Interval
  <1>3. IsFiniteSet(T)
    BY <1>1, <1>2, FS_Subset
  <1> QED
    BY <1>3, FS_CardinalityType

\* A reply has one item at most.
LEMMA AstrayOne ==
  ASSUME Redis!RedisAssumption, RedisTyped, RedisItems, RedisReplies
  PROVE  Cardinality(Untold) <= Cardinality(Astray) + 1 /\ Cardinality(Astray) \in Nat
  <1>0. Elems(<<>>) = {}
    BY DEF Elems
  <1>1. IsFiniteSet(Astray) /\ Cardinality(Astray) \in Nat
    <2>1. Astray \subseteq Untold
      BY DEF Astray
    <2> QED
      BY <2>1, UntoldFinite
  <1>2. CASE OnWay = {}
    <2>1. Astray = Untold
      BY <1>2 DEF Astray
    <2> QED
      BY <1>1, <2>1
  <1>3. CASE \E x \in Untold : OnWay = {x}
    <2>1. PICK x \in Untold : OnWay = {x}
      BY <1>3
    <2>2. x \notin Astray /\ Untold = Astray \cup {x}
      BY <2>1 DEF Astray
    <2>3. Cardinality(Astray \cup {x}) = Cardinality(Astray) + 1
      BY <1>1, <2>2, FS_AddElement
    <2> QED
      BY <1>1, <2>2, <2>3
  <1>4. OnWay = {} \/ \E x \in Untold : OnWay = {x}
    <2>1. CASE rpc = "reply" /\ call.does = "take" /\ reply.val # <<>>
      <3>1. PICK x \in Untold : reply.val = <<x>>
        BY <2>1 DEF RedisReplies
      <3>2. Elems(<<x>>) = {x}
        BY DEF Elems
      <3> QED
        BY <2>1, <3>1, <3>2 DEF OnWay
    <2>2. CASE ~(rpc = "reply" /\ call.does = "take" /\ reply.val # <<>>)
      BY <1>0, <2>2 DEF OnWay
    <2> QED
      BY <2>1, <2>2
  <1> QED
    BY <1>2, <1>3, <1>4

\* A call is made.
LEMMA RedisCall == ASSUME Redis!RedisAssumption, RedisInv, NEW c \in Redis!Methods, Redis!Call(c) PROVE RedisInv'
  <1>1. /\ rpc = "idle" /\ n < RedisCalls /\ n' = n + 1 /\ call' = c
        /\ context' = IF context = "none" THEN (IF alive THEN "good" ELSE "broken") ELSE context
        /\ rpc' = IF context' = "broken" /\ context = "none" THEN "thrown" ELSE "command"
        /\ UNCHANGED <<alive, items, reply, outages, quiet, applied, given, withdrawn>>
    BY DEF Redis!Call, Redis!Reinit
  <1>2. RedisTyped /\ RedisItems /\ RedisReplies /\ RedisHealed
    BY DEF RedisInv
  <1>3. n \in Nat /\ RedisCalls \in Nat /\ n' \in 0 .. RedisCalls /\ 1 .. n \subseteq 1 .. n' /\ n' \notin 1 .. n
    BY <1>1, <1>2 DEF RedisTyped, Redis!RedisAssumption
  <1>4. RedisTyped'
    BY <1>1, <1>2, <1>3, MethodsAre DEF RedisTyped
  <1>5. RedisItems'
    BY <1>1, <1>2, <1>3 DEF RedisItems
  <1>6. Untold' = Untold /\ OnWay = {} /\ OnWay' = {}
    BY <1>1 DEF Untold, OnWay
  <1>7. Astray' = Astray
    BY <1>6 DEF Astray
  <1>9. RedisReplies'
    BY <1>1, <1>2, <1>7 DEF RedisReplies
  <1>8. RedisHealed'
    BY <1>1, <1>2 DEF RedisHealed, RedisTyped
  <1> QED
    BY <1>4, <1>5, <1>8, <1>9 DEF RedisInv

\* The command is executed, or refused, or not sent.
LEMMA RedisCommand == ASSUME Redis!RedisAssumption, RedisInv, Redis!Command PROVE RedisInv'
  <1>1. /\ rpc = "command" /\ rpc' = "reply"
        /\ UNCHANGED <<alive, call, n, outages, quiet, given>>
    BY DEF Redis!Command
  <1>2. RedisTyped /\ RedisItems /\ RedisReplies /\ RedisHealed
    BY DEF RedisInv
  <1>3. /\ n \in Nat /\ items \in Seq(Nat) /\ given \in Seq(Nat)
        /\ call \in [wants : RedisWants, does : RedisOps]
        /\ n \notin applied /\ applied \subseteq 1 .. n /\ n > 0
    BY <1>1, <1>2 DEF RedisTyped, RedisItems, Redis!RedisAssumption
  <1>4. OnWay = {} /\ Cardinality(Untold) <= outages
    <2>1. OnWay = {}
      BY <1>1 DEF OnWay
    <2>2. Astray = Untold
      BY <2>1 DEF Astray
    <2> QED
      BY <1>2, <2>1, <2>2 DEF RedisReplies
  <1>5. <<>> \in Seq(Nat) /\ Elems(<<>>) = {}
    BY DEF Elems
  <1>6. \/ call.does = "write" /\ context = "good" /\ items' = Append(items, n) /\ applied' = applied \cup {n}
           /\ reply' = [type |-> call.wants, val |-> <<>>] /\ UNCHANGED <<withdrawn, context>>
        \/ call.does = "take" /\ items # <<>> /\ context = "good" /\ items' = Tail(items)
           /\ withdrawn' = withdrawn \cup {Head(items)}
           /\ reply' = [type |-> call.wants, val |-> <<Head(items)>>] /\ UNCHANGED <<applied, context>>
        \/ /\ UNCHANGED <<items, applied, withdrawn>>
           /\ \/ context = "good" /\ context' = "good" /\ reply' = [type |-> "NIL", val |-> <<>>]
              \/ /\ context = "good" /\ context' = "good" /\ call.does = "read"
                 /\ reply' = [type |-> call.wants, val |-> items]
              \/ context = "good" /\ context' = "good" /\ reply' = [type |-> "ERROR", val |-> <<>>]
              \/ context' = "broken" /\ reply' = Redis!Null
    <2>1. call.does = "write" \/ (call.does = "take" /\ items # <<>>) \/ (call.does = "take" /\ items = <<>>)
             \/ call.does = "read"
      BY <1>3 DEF RedisOps
    <2>2. CASE context = "good" /\ Redis!Executed /\ UNCHANGED context
      BY <2>1, <2>2 DEF Redis!Executed, Redis!data
    <2>3. CASE context = "good" /\ reply' = [type |-> "ERROR", val |-> <<>>] /\ UNCHANGED <<Redis!data, context>>
      BY <2>3 DEF Redis!data
    <2>4. CASE context' = "broken" /\ reply' = Redis!Null /\ UNCHANGED Redis!data
      BY <2>4 DEF Redis!data
    <2> QED
      BY <2>2, <2>3, <2>4 DEF Redis!Command
  <1>7. call.wants \notin {"null", "ERROR"} /\ call.does \in RedisOps
    BY <1>3 DEF RedisWants
  <1>8. RedisHealed'
    BY <1>1, <1>6 DEF RedisHealed, Redis!Null
  <1>9. RedisTyped' /\ RedisItems' /\ RedisReplies'
    <2>1. CASE call.does = "write" /\ context = "good" /\ items' = Append(items, n) /\ applied' = applied \cup {n}
               /\ reply' = [type |-> call.wants, val |-> <<>>] /\ UNCHANGED <<withdrawn, context>>
      <3>1. /\ items' \in Seq(Nat) /\ Elems(items') = Elems(items) \cup {n}
            /\ Distinct(items) /\ n \notin Elems(items) => Distinct(items')
        BY <1>3, <2>1, ElemsMore
      <3>2. RedisTyped'
        BY <1>1, <1>2, <1>5, <2>1, <3>1 DEF RedisTyped
      <3>3. RedisItems'
        BY <1>1, <1>2, <1>3, <2>1, <3>1 DEF RedisItems
      <3>4. Untold' = Untold /\ OnWay' = {}
        BY <1>1, <2>1 DEF Untold, OnWay
      <3>5. Astray' = Untold
        BY <3>4 DEF Astray
      <3>6. RedisReplies'
        BY <1>1, <1>4, <1>7, <2>1, <3>5 DEF RedisReplies
      <3> QED
        BY <3>2, <3>3, <3>6
    <2>2. CASE call.does = "take" /\ items # <<>> /\ context = "good" /\ items' = Tail(items)
               /\ withdrawn' = withdrawn \cup {Head(items)}
               /\ reply' = [type |-> call.wants, val |-> <<Head(items)>>] /\ UNCHANGED <<applied, context>>
      <3>1. PICK x : x = Head(items)
        OBVIOUS
      <3>2. /\ items' \in Seq(Nat) /\ x \in Nat /\ Elems(items) = Elems(items') \cup {x}
            /\ Distinct(items) => Distinct(items') /\ x \notin Elems(items')
        BY <1>3, <2>2, <3>1, ElemsLess
      <3>3. reply'.val = <<x>> /\ <<x>> \in Seq(Nat) /\ Elems(<<x>>) = {x}
        BY <2>2, <3>1, <3>2 DEF Elems
      <3>4. RedisTyped'
        BY <1>1, <1>2, <2>2, <3>2, <3>3 DEF RedisTyped
      <3>5. x \notin withdrawn /\ x \notin Elems(given)
        BY <1>2, <3>2 DEF RedisItems
      <3>6. RedisItems'
        BY <1>1, <1>2, <2>2, <3>1, <3>2, <3>5 DEF RedisItems
      <3>7. Untold' = Untold \cup {x} /\ OnWay' = {x} /\ x \notin Untold
        BY <1>1, <2>2, <3>1, <3>3, <3>5 DEF Untold, OnWay
      <3>8. Astray' = Untold
        BY <3>7 DEF Astray
      <3>9. RedisReplies'
        BY <1>1, <1>4, <1>7, <2>2, <3>3, <3>7, <3>8 DEF RedisReplies
      <3> QED
        BY <3>4, <3>6, <3>9
    <2>3. CASE /\ UNCHANGED <<items, applied, withdrawn>>
               /\ \/ context = "good" /\ context' = "good" /\ reply' = [type |-> "NIL", val |-> <<>>]
                  \/ /\ context = "good" /\ context' = "good" /\ call.does = "read"
                     /\ reply' = [type |-> call.wants, val |-> items]
                  \/ context = "good" /\ context' = "good" /\ reply' = [type |-> "ERROR", val |-> <<>>]
                  \/ context' = "broken" /\ reply' = Redis!Null
      <3>1. /\ reply'.val = <<>> \/ (call.does = "read" /\ reply'.val = items /\ reply'.type = call.wants)
            /\ context' \in {"good", "broken"}
        BY <2>3 DEF Redis!Null
      <3>2. RedisTyped'
        BY <1>1, <1>2, <1>5, <2>3, <3>1 DEF RedisTyped
      <3>3. RedisItems'
        BY <1>1, <1>2, <2>3 DEF RedisItems
      <3>4. Untold' = Untold /\ OnWay' = {}
        BY <1>1, <1>5, <2>3, <3>1 DEF Untold, OnWay
      <3>5. Astray' = Untold
        BY <3>4 DEF Astray
      <3>6. RedisReplies'
        BY <1>1, <1>4, <1>7, <3>1, <3>5 DEF RedisReplies
      <3> QED
        BY <3>2, <3>3, <3>6
    <2> QED
      BY <1>6, <2>1, <2>2, <2>3
  <1> QED
    BY <1>8, <1>9 DEF RedisInv

\* A call returns.
LEMMA RedisEnded ==
  ASSUME Redis!RedisAssumption, RedisInv, NEW r, NEW v, Redis!Ended(r, v), rpc \in {"reply", "thrown"},
         \/ v = <<>> /\ OnWay = {}
         \/ r = "OK" /\ v = reply.val /\ rpc = "reply",
         context' \in {"none", "good", "broken"},
         alive /\ quiet >= 1 => context' = "good"
  PROVE  RedisInv'
  <1>1. /\ rpc' = "idle" /\ quiet' = quiet + 1 /\ reply' = Redis!Null
        /\ UNCHANGED <<alive, n, outages, items, applied, withdrawn>>
        /\ given' = IF r = "OK" /\ call.does = "take" THEN given \o v ELSE given
    BY DEF Redis!Ended, Redis!data
  <1>2. RedisTyped /\ RedisItems /\ RedisReplies /\ RedisHealed
    BY DEF RedisInv
  <1>3. quiet \in Nat /\ given \in Seq(Nat) /\ Redis!Null.val = <<>> /\ <<>> \in Seq(Nat) /\ Elems(<<>>) = {}
    BY <1>2 DEF RedisTyped, Redis!Null, Elems
  <1>4. RedisHealed'
    BY <1>1, <1>3 DEF RedisHealed
  <1>5. OnWay' = {}
    BY <1>1 DEF OnWay
  <1>6. \/ given' = given /\ OnWay = {}
        \/ \E x \in Untold : given' = Append(given, x) /\ OnWay = {x}
    <2>1. CASE v = <<>> /\ OnWay = {}
      BY <1>1, <1>3, <2>1
    <2>2. CASE r = "OK" /\ v = reply.val /\ rpc = "reply" /\ call.does = "take"
      <3>1. CASE reply.val = <<>>
        BY <1>1, <1>3, <2>2, <3>1 DEF OnWay
      <3>2. CASE \E x \in Untold : reply.val = <<x>>
        <4>1. PICK x \in Untold : reply.val = <<x>>
          BY <3>2
        <4>2. Elems(<<x>>) = {x}
          BY DEF Elems
        <4>3. given \o <<x>> = Append(given, x)
          BY <1>3
        <4> QED
          BY <1>1, <2>2, <4>1, <4>2, <4>3 DEF OnWay
      <3> QED
        BY <1>2, <2>2, <3>1, <3>2 DEF RedisReplies
    <2>3. CASE call.does # "take"
      BY <1>1, <2>3 DEF OnWay
    <2> QED
      BY <2>1, <2>2, <2>3
  <1>7. Cardinality(Astray) <= outages
    BY <1>2 DEF RedisReplies
  <1>8. CASE given' = given /\ OnWay = {}
    <2>1. Astray' = Astray
      BY <1>1, <1>5, <1>8 DEF Untold, Astray
    <2>2. RedisTyped'
      <3>1. quiet' = quiet + 1 /\ reply' = Redis!Null
        BY DEF Redis!Ended
      <3>2. quiet' \in Nat /\ reply'.val \in Seq(Nat) /\ given' \in Seq(Nat)
        <4>1. quiet' \in Nat
          BY ONLY <1>3, <3>1
        <4>2. reply'.val \in Seq(Nat)
          BY ONLY <1>3, <3>1
        <4>3. given' \in Seq(Nat)
          BY ONLY <1>3, <1>8
        <4> QED
          BY <4>1, <4>2, <4>3
      <3> QED
        BY <1>1, <1>2, <3>2 DEF RedisTyped
    <2>3. RedisItems'
      BY <1>1, <1>2, <1>8 DEF RedisItems
    <2>4. RedisReplies'
      BY <1>1, <1>7, <2>1 DEF RedisReplies
    <2> QED
      BY <1>4, <2>2, <2>3, <2>4 DEF RedisInv
  <1>9. CASE \E x \in Untold : given' = Append(given, x) /\ OnWay = {x}
    <2>1. PICK x \in Untold : given' = Append(given, x) /\ OnWay = {x}
      BY <1>9
    <2>2. x \in withdrawn /\ x \notin Elems(given) /\ x \in Nat
      <3>1. x \in withdrawn /\ x \notin Elems(given)
        BY DEF Untold
      <3>2. x \in 1 .. n
        BY <1>2, <3>1 DEF RedisItems
      <3> QED
        BY <3>1, <3>2
    <2>3. given' \in Seq(Nat) /\ Elems(given') = Elems(given) \cup {x} /\ Distinct(given')
      BY <1>2, <1>3, <2>1, <2>2, ElemsMore DEF RedisItems
    <2>4. RedisTyped'
      BY <1>1, <1>2, <1>3, <2>3 DEF RedisTyped
    <2>5. RedisItems'
      BY <1>1, <1>2, <2>2, <2>3 DEF RedisItems
    <2>6. Astray' = Astray
      BY <1>1, <1>5, <2>1, <2>3 DEF Untold, Astray
    <2>7. RedisReplies'
      BY <1>1, <1>7, <2>6 DEF RedisReplies
    <2> QED
      BY <1>4, <2>4, <2>5, <2>7 DEF RedisInv
  <1> QED
    BY <1>6, <1>8, <1>9

LEMMA RedisNext == ASSUME Redis!RedisAssumption, RedisInv, [Redis!Next]_Redis!redisVars PROVE RedisInv'
  <1>1. RedisTyped /\ RedisItems /\ RedisReplies /\ RedisHealed
    BY DEF RedisInv
  <1>2. ASSUME NEW c \in Redis!Methods, Redis!Call(c) PROVE RedisInv'
    BY <1>2, RedisCall
  <1>3. CASE Redis!Command
    BY <1>3, RedisCommand
  <1>4. CASE Redis!Failed
    <2>1. /\ rpc = "reply" /\ reply.val = <<>> /\ context' = IF alive THEN "good" ELSE "broken"
          /\ \E r : Redis!Ended(r, <<>>)
      BY <1>1, <1>4 DEF Redis!Failed, Redis!Reinit, RedisReplies
    <2>2. Elems(<<>>) = {}
      BY DEF Elems
    <2>3. OnWay = {}
      BY <2>1, <2>2 DEF OnWay
    <2>4. context' \in {"none", "good", "broken"} /\ (alive => context' = "good")
      BY <2>1
    <2> QED
      BY <2>1, <2>3, <2>4, RedisEnded
  <1>5. CASE Redis!Succeeded
    <2>1. rpc = "reply" /\ Redis!Ended("OK", reply.val) /\ context' = "good"
      BY <1>1, <1>5 DEF Redis!Succeeded, RedisHealed
    <2> QED
      BY <2>1, RedisEnded
  <1>6. CASE Redis!Thrown
    <2>1. rpc = "thrown" /\ Redis!Ended("thrown", <<>>) /\ context' = context
      BY <1>6 DEF Redis!Thrown
    <2>2. OnWay = {} /\ ~(alive /\ quiet >= 1) /\ context' \in {"none", "good", "broken"}
      BY <1>1, <2>1 DEF OnWay, RedisHealed, RedisTyped
    <2> QED
      BY <2>1, <2>2, RedisEnded
  <1>7. CASE Redis!Lose
    <2>1. /\ outages < MaxOutages /\ outages' = outages + 1 /\ quiet' = 0 /\ alive' \in BOOLEAN
          /\ context' = IF context = "good" THEN "broken" ELSE context
          /\ reply' = IF rpc = "reply" THEN Redis!Null ELSE reply
          /\ UNCHANGED <<items, call, n, rpc, applied, given, withdrawn>>
      BY <1>7 DEF Redis!Lose
    <2>2. Redis!Null.val = <<>> /\ Redis!Null.type = "null" /\ <<>> \in Seq(Nat) /\ Elems(<<>>) = {}
      BY DEF Redis!Null, Elems
    <2>3. outages \in Nat /\ outages' \in 0 .. MaxOutages
      BY <1>1, <2>1 DEF RedisTyped, Redis!RedisAssumption
    <2>4. RedisTyped'
      BY <1>1, <2>1, <2>2, <2>3 DEF RedisTyped
    <2>5. RedisItems'
      BY <1>1, <2>1 DEF RedisItems
    <2>6. RedisHealed'
      BY <2>1, <2>2 DEF RedisHealed
    <2>7. Untold' = Untold /\ OnWay' = {}
      BY <2>1, <2>2 DEF Untold, OnWay
    <2>8. Cardinality(Untold) <= Cardinality(Astray) + 1 /\ Cardinality(Astray) \in Nat
      BY <1>1, AstrayOne
    <2>9. Astray' = Untold
      BY <2>7 DEF Astray
    <2>10. Cardinality(Astray') <= outages'
      <3>1. Cardinality(Untold) \in Nat /\ Cardinality(Astray) <= outages
        BY <1>1, UntoldFinite DEF RedisReplies
      <3>2. Cardinality(Untold) <= outages + 1
        BY ONLY <2>3, <2>8, <3>1
      <3> QED
        BY <2>1, <2>9, <3>2
    <2>11. RedisReplies'
      BY <2>1, <2>2, <2>10 DEF RedisReplies
    <2> QED
      BY <2>4, <2>5, <2>6, <2>11 DEF RedisInv
  <1>8. CASE Redis!Back
    <2>1. /\ ~alive /\ alive' = TRUE /\ quiet' = 0
          /\ UNCHANGED <<context, items, call, n, rpc, reply, outages, applied, given, withdrawn>>
      BY <1>8 DEF Redis!Back
    <2>2. RedisTyped' /\ RedisItems'
      BY <1>1, <2>1 DEF RedisTyped, RedisItems
    <2>3. RedisHealed'
      BY <1>1, <2>1 DEF RedisHealed
    <2>4. RedisReplies'
      BY <1>1, <2>1 DEF RedisReplies, Untold, OnWay, Astray
    <2> QED
      BY <2>2, <2>3, <2>4 DEF RedisInv
  <1>9. CASE UNCHANGED Redis!redisVars
    <2>1. UNCHANGED <<context, alive, items, call, n, rpc, reply, outages, quiet, applied, given, withdrawn>>
      BY <1>9 DEF Redis!redisVars
    <2>2. RedisTyped' /\ RedisItems'
      BY <1>1, <2>1 DEF RedisTyped, RedisItems
    <2>3. RedisHealed' /\ RedisReplies'
      BY <1>1, <2>1 DEF RedisHealed, RedisReplies, Untold, OnWay, Astray
    <2> QED
      BY <2>2, <2>3 DEF RedisInv
  <1> QED
    BY <1>2, <1>3, <1>4, <1>5, <1>6, <1>7, <1>8, <1>9 DEF Redis!Next

\* What RedisInv says.
LEMMA RedisExact ==
  ASSUME Redis!RedisAssumption, RedisInv
  PROVE  /\ Distinct(items) /\ Distinct(given)
         /\ Elems(items) \cap withdrawn = {} /\ Elems(items) \cup withdrawn = applied
         /\ Elems(given) \subseteq withdrawn
         /\ \A k \in applied : k <= n
         /\ Cardinality(withdrawn \ Elems(given)) <= outages + (IF rpc = "reply" THEN 1 ELSE 0)
         /\ Redis!Heals
  <1>1. RedisTyped /\ RedisItems /\ RedisReplies /\ RedisHealed
    BY DEF RedisInv
  <1>2. \A k \in applied : k <= n
    BY <1>1 DEF RedisItems, RedisTyped
  <1>3. Redis!Heals
    BY <1>1 DEF RedisHealed, Redis!Heals
  <1>4. Cardinality(Untold) \in Nat /\ outages \in Nat /\ Cardinality(Astray) <= outages
    BY <1>1, UntoldFinite DEF RedisTyped, RedisReplies
  <1>5. CASE rpc # "reply"
    <2>1. Astray = Untold
      BY <1>5 DEF Astray, OnWay
    <2> QED
      BY <1>1, <1>2, <1>3, <1>4, <1>5, <2>1 DEF RedisItems, Untold
  <1>6. CASE rpc = "reply"
    <2>1. Cardinality(Untold) <= Cardinality(Astray) + 1 /\ Cardinality(Astray) \in Nat
      BY <1>1, AstrayOne
    <2>2. Cardinality(Untold) <= outages + 1
      BY ONLY <1>4, <2>1
    <2> QED
      BY <1>1, <1>2, <1>3, <1>6, <2>2 DEF RedisItems, Untold
  <1> QED
    BY <1>5, <1>6

-----------------------------------------------------------------------------
(* DbResult *)

\* The handles that are open and not the drive's.
Others == DOMAIN open \ {r_st}

\* The types; the handle a drive has is open, and connected when it is taken for
\* connected; the others that are open are as many as were lost.
ResHandles == /\ drive \in {"mysql", "sqlite"} /\ made \in 0 .. MaxHandles /\ r_st \in 0 .. made
              /\ lost \in Nat
              /\ open \in [DOMAIN open -> BOOLEAN] /\ DOMAIN open \subseteq 1 .. made
              /\ r_st # 0 => r_st \in DOMAIN open
              /\ r_st # 0 /\ (drive = "mysql" => m_bConnected) => open[r_st]
              /\ m_bConnected \in BOOLEAN
              /\ Cardinality(Others) = lost

\* The first rows of a table, as text.
TextRows(t, m) == [k \in 1 .. m |-> [j \in DOMAIN t.header |-> Result!Text(t.rows[k][j])]]

\* A result is the first rows of one statement.
ResRows == /\ stmt \in Tables \cup {Result!NoTable} /\ whole \in BOOLEAN
           /\ res.header = stmt.header
           /\ \E m \in 0 .. Len(stmt.rows) : /\ res.rows = TextRows(stmt, m)
                                             /\ whole => m = Len(stmt.rows)

ResultInv == ResHandles /\ ResRows

\* What there is to know of a table.
Wide(t) == /\ Len(t.header) \in Nat /\ DOMAIN t.header = 1 .. Len(t.header) /\ Distinct(t.header)
           /\ Len(t.rows) \in Nat /\ DOMAIN t.rows = 1 .. Len(t.rows) /\ t.rows \in Seq(Result!Range(t.rows))
           /\ \A k \in 1 .. Len(t.rows) : t.rows[k] = [j \in DOMAIN t.header |-> t.rows[k][j]]

LEMMA TableWide ==
  ASSUME Result!ResultAssumption, NEW t \in Tables \cup {Result!NoTable}
  PROVE  Wide(t)
  <1>1. CASE t \in Tables
    <2>1. /\ t.header \in Seq(Result!Range(t.header)) /\ Result!IsInjective(t.header)
          /\ t.rows \in Seq(Result!Range(t.rows))
          /\ \A row \in Result!Range(t.rows) : row \in Seq(Result!Range(row)) /\ Len(row) = Len(t.header)
      BY <1>1 DEF Result!ResultAssumption, Result!IsTable
    <2>2. /\ Len(t.header) \in Nat /\ DOMAIN t.header = 1 .. Len(t.header)
          /\ Len(t.rows) \in Nat /\ DOMAIN t.rows = 1 .. Len(t.rows)
      BY <2>1
    <2>3. Distinct(t.header)
      BY <2>1 DEF Distinct, Result!IsInjective
    <2>4. ASSUME NEW k \in 1 .. Len(t.rows) PROVE t.rows[k] = [j \in DOMAIN t.header |-> t.rows[k][j]]
      <3>1. PICK row : row = t.rows[k]
        OBVIOUS
      <3>2. row \in Result!Range(t.rows)
        BY <2>2, <3>1 DEF Result!Range
      <3>3. row \in Seq(Result!Range(row)) /\ Len(row) = Len(t.header)
        BY <2>1, <3>2
      <3>4. row = [j \in 1 .. Len(row) |-> row[j]]
        BY <3>3
      <3> QED
        BY <2>2, <3>1, <3>3, <3>4
    <2> QED
      BY <2>1, <2>2, <2>3, <2>4 DEF Wide
  <1>2. CASE t = Result!NoTable
    <2>1. t.header = <<>> /\ t.rows = <<>> /\ <<>> \in Seq(Result!Range(<<>>)) /\ Len(<<>>) = 0 /\ DOMAIN <<>> = {}
      BY <1>2 DEF Result!NoTable
    <2> QED
      BY <2>1 DEF Wide, Distinct
  <1> QED
    BY <1>1, <1>2

\* saveRes adds the first rows, as text.
LEMMA saveResIs ==
  ASSUME NEW t, Wide(t), NEW m \in 0 .. Len(t.rows)
  PROVE  Result!saveRes(t, m).header = t.header /\ Result!saveRes(t, m).rows = TextRows(t, m)
  <1> DEFINE u == SubSeq(t.rows, 1, m)
  <1>1. /\ t.rows \in Seq(Result!Range(t.rows)) /\ Len(t.rows) \in Nat /\ m \in Nat /\ m <= Len(t.rows)
        /\ DOMAIN t.rows = 1 .. Len(t.rows)
        /\ \A k \in 1 .. Len(t.rows) : t.rows[k] = [j \in DOMAIN t.header |-> t.rows[k][j]]
    BY DEF Wide
  <1>2. \A k \in 1 .. m : t.rows[k] \in Result!Range(t.rows)
    BY <1>1 DEF Result!Range
  <1>3. DOMAIN u = 1 .. m /\ \A k \in 1 .. m : u[k] = t.rows[k]
    <2>1. /\ u \in Seq(Result!Range(t.rows)) /\ Len(u) = IF 1 <= m THEN m - 1 + 1 ELSE 0
          /\ \A k \in 1 .. m - 1 + 1 : u[k] = t.rows[1 + k - 1]
      BY <1>1, <1>2, SubSeqProperties
    <2> QED
      BY <1>1, <2>1
  <1>4. Result!saveRes(t, m).header = t.header /\ Result!saveRes(t, m).rows = Result!Texts(u)
    BY DEF Result!saveRes
  <1> HIDE DEF u
  <1>5. Result!Texts(u) = TextRows(t, m)
    <2>1. ASSUME NEW k \in 1 .. m PROVE DOMAIN u[k] = DOMAIN t.header
      <3>1. k \in 1 .. Len(t.rows)
        BY <1>1
      <3>2. u[k] = [j \in DOMAIN t.header |-> t.rows[k][j]]
        BY <1>1, <1>3, <3>1, Zenon
      <3> QED
        BY ONLY <3>2
    <2>2. \A k \in 1 .. m : [j \in DOMAIN u[k] |-> Result!Text(u[k][j])] = [j \in DOMAIN t.header |-> Result!Text(t.rows[k][j])]
      BY <1>3, <2>1, Zenon
    <2>3. Result!Texts(u) = [k \in 1 .. m |-> [j \in DOMAIN u[k] |-> Result!Text(u[k][j])]]
      BY <1>3 DEF Result!Texts
    <2> QED
      BY <2>2, <2>3 DEF TextRows
  <1> QED
    BY <1>4, <1>5

LEMMA ResultInit == ASSUME Result!ResultAssumption, Result!Init PROVE ResultInv
  <1>1. /\ drive \in {"mysql", "sqlite"} /\ made = (IF drive = "mysql" THEN 1 ELSE 0) /\ r_st = made
        /\ open = [k \in 1 .. made |-> FALSE] /\ m_bConnected = FALSE /\ lost = 0
        /\ res = Result!NoTable /\ stmt = Result!NoTable /\ whole = TRUE
    BY DEF Result!Init, Result!ResultAssumption
  <1>2. made \in {0, 1} /\ MaxHandles \in Nat \ {0}
    BY <1>1 DEF Result!ResultAssumption
  <1>3. Others = {}
    BY <1>1, <1>2 DEF Others
  <1>4. Cardinality(Others) = lost
    BY <1>1, <1>3, FS_EmptySet
  <1>5. ResHandles
    <2>1. DOMAIN open = 1 .. made /\ open \in [DOMAIN open -> BOOLEAN] /\ made \in 0 .. MaxHandles
      BY <1>1, <1>2
    <2>2. (r_st # 0 => r_st \in DOMAIN open) /\ r_st \in 0 .. made
      BY <1>1, <1>2, <2>1
    <2>3. ~(r_st # 0 /\ (drive = "mysql" => m_bConnected))
      BY <1>1
    <2>4. DOMAIN open \subseteq 1 .. made /\ lost \in Nat /\ m_bConnected \in BOOLEAN
      BY <1>1, <2>1
    <2> QED
      BY ONLY <1>1, <1>4, <2>1, <2>2, <2>3, <2>4 DEF ResHandles
  <1>6. TextRows(Result!NoTable, 0) = <<>>
    BY DEF TextRows
  <1>7. Result!NoTable.rows = <<>> /\ Len(<<>>) = 0
    BY DEF Result!NoTable
  <1>8. ResRows
    BY <1>1, <1>6, <1>7 DEF ResRows
  <1> QED
    BY <1>5, <1>8 DEF ResultInv

\* Connect, Disconnect and Reconnect.
LEMMA ResultHandles ==
  ASSUME Result!ResultAssumption, ResHandles,
         Result!Disconnect \/ \E ok \in BOOLEAN : Result!Connect(ok) \/ Result!Reconnect(ok)
  PROVE  ResHandles'
  <1> DEFINE D == DOMAIN open
  <1>1. /\ drive \in {"mysql", "sqlite"} /\ made \in Nat /\ made <= MaxHandles /\ r_st \in Nat /\ r_st <= made
        /\ lost \in Nat /\ MaxHandles \in Nat /\ m_bConnected \in BOOLEAN
        /\ open \in [D -> BOOLEAN] /\ D \subseteq 1 .. made
        /\ r_st # 0 => r_st \in D
        /\ r_st # 0 /\ (drive = "mysql" => m_bConnected) => open[r_st]
        /\ Cardinality(Others) = lost
    BY DEF ResHandles, Result!ResultAssumption
  <1>2. IsFiniteSet(Others) /\ 0 \notin D /\ made + 1 \notin D
    <2>1. IsFiniteSet(1 .. made)
      <3>1. made \in Int /\ 1 \in Int
        BY <1>1
      <3> QED
        BY ONLY <3>1, FS_Interval
    <2>2. Others \subseteq 1 .. made
      BY <1>1 DEF Others
    <2>3. IsFiniteSet(Others)
      BY <2>1, <2>2, FS_Subset
    <2> QED
      BY <1>1, <2>3
  <1>3. \A x : x \notin Others => Cardinality(Others \cup {x}) = lost + 1
    BY <1>1, <1>2, FS_AddElement
  <1>4. CASE Result!Disconnect
    <2>1. r_st # 0 /\ open' = [k \in D \ {r_st} |-> open[k]] /\ r_st' = 0 /\ m_bConnected' = FALSE
          /\ UNCHANGED <<drive, made, lost>>
      BY <1>4 DEF Result!Disconnect, Result!IsInited, Result!Without
    <2>2. DOMAIN open' = D \ {r_st} /\ open' \in [DOMAIN open' -> BOOLEAN]
      BY <1>1, <2>1
    <2>3. Others' = Others
      BY <1>2, <2>1, <2>2 DEF Others
    <2> QED
      <3>11. /\ drive' \in {"mysql", "sqlite"} /\ made' \in 0 .. MaxHandles /\ r_st' \in 0 .. made'
             /\ lost' \in Nat /\ m_bConnected' \in BOOLEAN
        <4>1. drive' = drive /\ made' = made /\ r_st' = 0 /\ lost' = lost /\ m_bConnected' = FALSE
          BY <2>1
        <4>2. m_bConnected' \in BOOLEAN
          BY <4>1, Zenon
        <4>3. drive' \in {"mysql", "sqlite"} /\ made' \in 0 .. MaxHandles /\ r_st' \in 0 .. made' /\ lost' \in Nat
          BY <1>1, <4>1
        <4> QED
          BY <4>2, <4>3
      <3>12. DOMAIN open' \subseteq 1 .. made' /\ (r_st' # 0 => r_st' \in DOMAIN open')
        BY <1>1, <2>1, <2>2, <2>3
      <3>13. r_st' # 0 /\ (drive' = "mysql" => m_bConnected') => open'[r_st']
        BY <1>1, <2>1, <2>2, <2>3
      <3>14. Cardinality(Others') = lost'
        BY <1>1, <2>1, <2>2, <2>3
      <3> QED
        BY ONLY <2>2, <3>11, <3>12, <3>13, <3>14 DEF ResHandles
  <1>5. CASE \E ok \in BOOLEAN : Result!Connect(ok)
    <2>1. PICK ok \in BOOLEAN : Result!Connect(ok)
      BY <1>5
    <2>2. CASE drive = "mysql" /\ ok /\ ~open[r_st]
      <3>1. /\ r_st # 0 /\ m_bConnected' = TRUE
            /\ open' = [k \in D \cup {r_st} |-> IF k = r_st THEN TRUE ELSE open[k]]
            /\ UNCHANGED <<drive, made, r_st, lost>>
        BY <2>1, <2>2 DEF Result!Connect, Result!IsInited, Result!With
      <3>2. DOMAIN open' = D /\ open' \in [DOMAIN open' -> BOOLEAN] /\ open'[r_st] = TRUE
        BY <1>1, <3>1
      <3>3. Others' = Others
        BY <3>1, <3>2 DEF Others
      <3> QED
        BY <1>1, <3>1, <3>2, <3>3 DEF ResHandles
    <2>3. CASE drive = "mysql" /\ ~(ok /\ ~open[r_st])
      <3>1. /\ r_st # 0 /\ r_st' = 0 /\ lost' = lost + 1 /\ UNCHANGED <<drive, made, m_bConnected, open>>
        BY <2>1, <2>3 DEF Result!Connect, Result!IsInited
      <3>2. Others' = Others \cup {r_st} /\ r_st \notin Others
        BY <1>1, <1>2, <3>1 DEF Others
      <3>3. Cardinality(Others') = lost + 1
        BY <1>3, <3>2
      <3> QED
        BY <1>1, <3>1, <3>3 DEF ResHandles
    <2>4. CASE drive # "mysql"
      <3>1. /\ r_st = 0 /\ made' = made + 1 /\ made < MaxHandles /\ UNCHANGED <<drive, m_bConnected>>
            /\ open' = [k \in D \cup {made'} |-> IF k = made' THEN ok ELSE open[k]]
            /\ IF ok THEN r_st' = made' /\ UNCHANGED lost ELSE lost' = lost + 1 /\ UNCHANGED r_st
        BY <2>1, <2>4 DEF Result!Connect, Result!IsInited, Result!With
      <3>2. /\ DOMAIN open' = D \cup {made'} /\ open' \in [DOMAIN open' -> BOOLEAN] /\ open'[made'] = ok
            /\ DOMAIN open' \subseteq 1 .. made' /\ made' \in 0 .. MaxHandles /\ made' # 0
        BY <1>1, <3>1
      <3>3. CASE ok
        <4>1. Others' = Others
          BY <1>2, <3>1, <3>2, <3>3 DEF Others
        <4> QED
          <5>11. /\ drive' \in {"mysql", "sqlite"} /\ made' \in 0 .. MaxHandles /\ r_st' \in 0 .. made'
                 /\ lost' \in Nat /\ m_bConnected' \in BOOLEAN
            BY <1>1, <3>1, <3>2, <3>3, <4>1
          <5>12. DOMAIN open' \subseteq 1 .. made' /\ (r_st' # 0 => r_st' \in DOMAIN open')
            BY <1>1, <3>1, <3>2, <3>3, <4>1
          <5>13. r_st' # 0 /\ (drive' = "mysql" => m_bConnected') => open'[r_st']
            BY <1>1, <3>1, <3>2, <3>3, <4>1
          <5>14. Cardinality(Others') = lost'
            BY <1>1, <3>1, <3>2, <3>3, <4>1
          <5> QED
            BY ONLY <3>2, <5>11, <5>12, <5>13, <5>14 DEF ResHandles
      <3>4. CASE ~ok
        <4>1. Others' = Others \cup {made'} /\ made' \notin Others
          BY <1>2, <3>1, <3>2, <3>4 DEF Others
        <4>2. Cardinality(Others') = lost + 1
          BY <1>3, <4>1
        <4> QED
          BY <1>1, <3>1, <3>2, <3>4, <4>2 DEF ResHandles
      <3> QED
        BY <3>3, <3>4
    <2> QED
      BY <2>2, <2>3, <2>4
  <1>6. CASE \E ok \in BOOLEAN : Result!Reconnect(ok)
    <2>1. PICK ok \in BOOLEAN : Result!Reconnect(ok)
      BY <1>6
    <2>2. /\ r_st # 0 /\ made' = made + 1 /\ made < MaxHandles /\ m_bConnected' = ok
          /\ open' = [k \in (D \ {r_st}) \cup {made'} |-> IF k = made' THEN ok ELSE open[k]]
          /\ IF ok THEN r_st' = made' /\ UNCHANGED lost ELSE r_st' = 0 /\ lost' = lost + 1
          /\ UNCHANGED drive
      BY <2>1 DEF Result!Reconnect, Result!HasHandle, Result!IsInited
    <2>3. /\ DOMAIN open' = (D \ {r_st}) \cup {made'} /\ open' \in [DOMAIN open' -> BOOLEAN] /\ open'[made'] = ok
          /\ DOMAIN open' \subseteq 1 .. made' /\ made' \in 0 .. MaxHandles /\ made' # 0
      BY <1>1, <2>2
    <2>4. CASE ok
      <3>1. Others' = Others
        BY <1>2, <2>2, <2>3, <2>4 DEF Others
      <3> QED
        <4>11. /\ drive' \in {"mysql", "sqlite"} /\ made' \in 0 .. MaxHandles /\ r_st' \in 0 .. made'
               /\ lost' \in Nat /\ m_bConnected' \in BOOLEAN
          BY <1>1, <2>2, <2>3, <2>4, <3>1
        <4>12. DOMAIN open' \subseteq 1 .. made' /\ (r_st' # 0 => r_st' \in DOMAIN open')
          BY <1>1, <2>2, <2>3, <2>4, <3>1
        <4>13. r_st' # 0 /\ (drive' = "mysql" => m_bConnected') => open'[r_st']
          BY <1>1, <2>2, <2>3, <2>4, <3>1
        <4>14. Cardinality(Others') = lost'
          BY <1>1, <2>2, <2>3, <2>4, <3>1
        <4> QED
          BY ONLY <2>3, <4>11, <4>12, <4>13, <4>14 DEF ResHandles
    <2>5. CASE ~ok
      <3>1. Others' = Others \cup {made'} /\ made' \notin Others
        BY <1>2, <2>2, <2>3, <2>5 DEF Others
      <3>2. Cardinality(Others') = lost + 1
        BY <1>3, <3>1
      <3> QED
        BY <1>1, <2>2, <2>3, <2>5, <3>2 DEF ResHandles
    <2> QED
      BY <2>4, <2>5
  <1> QED
    BY <1>4, <1>5, <1>6

\* The first rows of a statement, with nothing to be written out, are as they are.
LEMMA TextSame ==
  ASSUME NEW t, Wide(t), NEW m \in 0 .. Len(t.rows),
         \A k \in 1 .. m : \A j \in DOMAIN t.header : t.rows[k][j] # NullValue
  PROVE  SubSeq(t.rows, 1, m) = TextRows(t, m)
  <1> DEFINE u == SubSeq(t.rows, 1, m)
  <1>1. /\ t.rows \in Seq(Result!Range(t.rows)) /\ Len(t.rows) \in Nat /\ m \in Nat /\ m <= Len(t.rows)
        /\ DOMAIN t.rows = 1 .. Len(t.rows)
        /\ \A k \in 1 .. Len(t.rows) : t.rows[k] = [j \in DOMAIN t.header |-> t.rows[k][j]]
    BY DEF Wide
  <1>2. \A k \in 1 .. m : t.rows[k] \in Result!Range(t.rows)
    BY <1>1 DEF Result!Range
  <1>3. DOMAIN u = 1 .. m /\ (\A k \in 1 .. m : u[k] = t.rows[k]) /\ u = [k \in 1 .. m |-> u[k]]
    <2>1. /\ u \in Seq(Result!Range(t.rows)) /\ Len(u) = IF 1 <= m THEN m - 1 + 1 ELSE 0
          /\ \A k \in 1 .. m - 1 + 1 : u[k] = t.rows[1 + k - 1]
      BY <1>1, <1>2, SubSeqProperties
    <2> QED
      BY <1>1, <2>1
  <1> HIDE DEF u
  <1>4. ASSUME NEW k \in 1 .. m PROVE u[k] = [j \in DOMAIN t.header |-> Result!Text(t.rows[k][j])]
    <2>1. k \in 1 .. Len(t.rows)
      BY <1>1
    <2>2. u[k] = [j \in DOMAIN t.header |-> t.rows[k][j]]
      BY <1>1, <1>3, <2>1, Zenon
    <2>3. \A j \in DOMAIN t.header : Result!Text(t.rows[k][j]) = t.rows[k][j]
      BY DEF Result!Text
    <2> QED
      BY <2>2, <2>3
  <1>5. u = TextRows(t, m)
    BY <1>3, <1>4 DEF TextRows
  <1> QED
    BY <1>5 DEF u

LEMMA ResultNext == ASSUME Result!ResultAssumption, ResultInv, [Result!Next]_Result!drVars PROVE ResultInv'
  <1>1. ResHandles /\ ResRows
    BY DEF ResultInv
  <1>2. UNCHANGED Result!handle => ResHandles'
    BY <1>1 DEF Result!handle, ResHandles, Others
  <1>3. UNCHANGED Result!result => ResRows'
    <2>1. SUFFICES ASSUME res' = res /\ stmt' = stmt /\ whole' = whole PROVE ResRows'
      BY DEF Result!result
    <2>2. PICK m \in 0 .. Len(stmt.rows) : /\ res.rows = TextRows(stmt, m)
                                           /\ whole => m = Len(stmt.rows)
      BY <1>1 DEF ResRows
    <2>3. res'.rows = TextRows(stmt', m) /\ (whole' => m = Len(stmt'.rows)) /\ m \in 0 .. Len(stmt'.rows)
      BY <2>1, <2>2
    <2>4. stmt' \in Tables \cup {Result!NoTable} /\ whole' \in BOOLEAN /\ res'.header = stmt'.header
      BY <1>1, <2>1 DEF ResRows
    <2> QED
      BY <2>3, <2>4 DEF ResRows
  <1>4. CASE Result!Disconnect \/ \E ok \in BOOLEAN : Result!Connect(ok) \/ Result!Reconnect(ok)
    <2>1. ResHandles'
      BY <1>1, <1>4, ResultHandles
    <2>2. UNCHANGED Result!result
      BY <1>4 DEF Result!Disconnect, Result!Connect, Result!Reconnect
    <2> QED
      BY <1>3, <2>1, <2>2 DEF ResultInv
  <1>5. ASSUME NEW t \in Tables \cup {Result!NoTable}, NEW m \in 0 .. Len(t.rows), NEW w,
               UNCHANGED Result!handle, res'.header = t.header, res'.rows = TextRows(t, m), stmt' = t,
               whole' = w, w \in BOOLEAN, w => m = Len(t.rows)
        PROVE  ResultInv'
    BY <1>2, <1>5 DEF ResultInv, ResRows, TextRows, Result!Text
  <1>6. ASSUME NEW t \in Tables \cup {Result!NoTable}, NEW ok \in BOOLEAN, Result!StoreResult(t, ok) PROVE ResultInv'
    <2>1. UNCHANGED Result!handle
      BY <1>6 DEF Result!StoreResult
    <2>2. CASE UNCHANGED Result!result
      BY <1>2, <1>3, <2>1, <2>2 DEF ResultInv
    <2>3. CASE res' = Result!saveRes(t, Len(t.rows)) /\ stmt' = t /\ whole' = TRUE
      <3>1. PICK m : m = Len(t.rows)
        OBVIOUS
      <3>2. Wide(t) /\ m \in 0 .. Len(t.rows)
        BY <3>1, TableWide DEF Wide
      <3>3. res'.header = t.header /\ res'.rows = TextRows(t, m)
        BY <2>3, <3>1, <3>2, saveResIs
      <3> QED
        BY <1>5, <2>1, <2>3, <3>1, <3>2, <3>3
    <2> QED
      BY <1>6, <2>2, <2>3 DEF Result!StoreResult
  <1>7. ASSUME NEW t \in Tables \cup {Result!NoTable}, NEW m \in 0 .. Len(t.rows), Result!UseResult(t, m) PROVE ResultInv'
    <2>1. UNCHANGED Result!handle
      BY <1>7 DEF Result!UseResult
    <2>2. CASE UNCHANGED Result!result
      BY <1>2, <1>3, <2>1, <2>2 DEF ResultInv
    <2>3. CASE res' = Result!saveRes(t, m) /\ stmt' = t /\ whole' = (m = Len(t.rows))
      <3>1. Wide(t)
        BY TableWide
      <3>2. res'.header = t.header /\ res'.rows = TextRows(t, m)
        BY <2>3, <3>1, saveResIs
      <3> QED
        BY <1>5, <2>1, <2>3, <3>2
    <2> QED
      BY <1>7, <2>2, <2>3 DEF Result!UseResult
  <1>8. ASSUME NEW t \in Tables \cup {Result!NoTable}, NEW m \in 0 .. Len(t.rows), Result!GetResult(t, m) PROVE ResultInv'
    <2> DEFINE throws == \E k \in 1 .. m : \E j \in DOMAIN t.header : t.rows[k][j] = NullValue
    <2>1. /\ UNCHANGED Result!handle /\ whole' = (~throws /\ m = Len(t.rows))
          /\ res' = IF throws \/ m = 0 THEN Result!NoTable
                    ELSE [header |-> t.header, rows |-> SubSeq(t.rows, 1, m)]
          /\ stmt' = (IF throws \/ m = 0 THEN Result!NoTable ELSE t)
      BY <1>8 DEF Result!GetResult
    <2>2. CASE throws \/ m = 0
      <3>1. TextRows(Result!NoTable, 0) = <<>>
        BY DEF TextRows
      <3>2. Result!NoTable.rows = <<>> /\ Len(<<>>) = 0
        BY DEF Result!NoTable
      <3>3. res' = Result!NoTable /\ stmt' = Result!NoTable /\ Result!NoTable \in Tables \cup {Result!NoTable}
        BY <2>1, <2>2
      <3>4. /\ res'.header = Result!NoTable.header /\ res'.rows = TextRows(Result!NoTable, 0) /\ 0 \in 0 .. Len(Result!NoTable.rows)
            /\ whole' \in BOOLEAN /\ 0 = Len(Result!NoTable.rows)
        BY <2>1, <3>1, <3>2, <3>3
      <3> QED
        BY <1>5, <2>1, <3>3, <3>4
    <2>3. CASE ~(throws \/ m = 0)
      <3>1. Wide(t)
        BY TableWide
      <3>2. SubSeq(t.rows, 1, m) = TextRows(t, m)
        BY <2>3, <3>1, TextSame
      <3>3. res'.header = t.header /\ res'.rows = TextRows(t, m) /\ stmt' = t
        BY <2>1, <2>3, <3>2
      <3>4. whole' \in BOOLEAN /\ (whole' => m = Len(t.rows))
        BY <2>1
      <3> QED
        BY <1>5, <2>1, <3>3, <3>4
    <2> QED
      BY <2>2, <2>3
  <1>9. CASE UNCHANGED Result!drVars
    <2>1. UNCHANGED Result!handle /\ UNCHANGED Result!result
      BY <1>9 DEF Result!drVars, Result!handle, Result!result
    <2> QED
      BY <1>2, <1>3, <2>1 DEF ResultInv
  <1> QED
    BY <1>4, <1>6, <1>7, <1>8, <1>9 DEF Result!Next

\* What ResultInv says: a result is of one statement, and a drive has the handle that
\* is open.
LEMMA ResultExact ==
  ASSUME Result!ResultAssumption, ResultInv
  PROVE  /\ Result!TypeOK /\ Result!OneStatement
         /\ Result!IsInited => r_st \in DOMAIN open /\ (Result!HasHandle => open[r_st])
         /\ Cardinality(DOMAIN open \ {r_st}) = lost
  <1>1. Result!TypeOK /\ (Result!IsInited => r_st \in DOMAIN open /\ (Result!HasHandle => open[r_st]))
    BY DEF ResultInv, ResHandles, Result!TypeOK, Result!ResultAssumption, Result!IsInited, Result!HasHandle
  <1>2. Cardinality(DOMAIN open \ {r_st}) = lost
    BY DEF ResultInv, ResHandles, Others
  <1>3. Wide(stmt) /\ res.header = stmt.header
    BY TableWide DEF ResultInv, ResRows
  <1>4. PICK m \in 0 .. Len(stmt.rows) : res.rows = TextRows(stmt, m) /\ (whole => m = Len(stmt.rows))
    BY DEF ResultInv, ResRows
  <1>5. /\ Len(stmt.rows) \in Nat /\ DOMAIN stmt.rows = 1 .. Len(stmt.rows) /\ m \in Nat
        /\ \A k \in 1 .. Len(stmt.rows) : stmt.rows[k] = [j \in DOMAIN stmt.header |-> stmt.rows[k][j]]
        /\ DOMAIN stmt.header = 1 .. Len(stmt.header) /\ Len(stmt.header) \in Nat /\ Distinct(stmt.header)
    BY <1>3 DEF Wide
  <1>6. Len(res.rows) = m /\ DOMAIN res.rows = 1 .. m
    BY <1>4, <1>5 DEF TextRows
  <1>7. res.rows = SubSeq(Result!Texts(stmt.rows), 1, m)
    <2> DEFINE t == Result!Texts(stmt.rows)
               T == {t[k] : k \in 1 .. Len(stmt.rows)}
               u == SubSeq(t, 1, m)
    <2>1. t = [k \in 1 .. Len(stmt.rows) |-> [j \in DOMAIN stmt.rows[k] |-> Result!Text(stmt.rows[k][j])]]
      BY <1>5 DEF Result!Texts
    <2>2. \A k \in 1 .. Len(stmt.rows) : t[k] = [j \in DOMAIN stmt.header |-> Result!Text(stmt.rows[k][j])]
      <3>1. ASSUME NEW k \in 1 .. Len(stmt.rows) PROVE DOMAIN stmt.rows[k] = DOMAIN stmt.header
        <4>1. stmt.rows[k] = [j \in DOMAIN stmt.header |-> stmt.rows[k][j]]
          BY <1>5, Zenon
        <4> QED
          BY ONLY <4>1
      <3> QED
        BY <2>1, <3>1
    <2>3. t \in Seq(T) /\ Len(t) = Len(stmt.rows)
      <3>1. t \in [1 .. Len(stmt.rows) -> T]
        BY <2>1
      <3> HIDE DEF t, T
      <3> QED
        BY <1>5, <3>1
    <2> HIDE DEF t
    <2>4. \A k \in 1 .. m : t[k] \in T
      BY <1>5
    <2> HIDE DEF T
    <2>5. /\ u \in Seq(T) /\ Len(u) = IF 1 <= m THEN m - 1 + 1 ELSE 0
          /\ \A k \in 1 .. m - 1 + 1 : u[k] = t[1 + k - 1]
      BY <1>5, <2>3, <2>4, SubSeqProperties
    <2> HIDE DEF u
    <2>6. u = [k \in 1 .. m |-> u[k]] /\ \A k \in 1 .. m : u[k] = t[k]
      <3>1. Len(u) = m /\ m - 1 + 1 = m /\ \A k \in 1 .. m : 1 + k - 1 = k
        BY <1>5, <2>5
      <3>2. \A k \in 1 .. m : u[k] = t[k]
        BY <2>5, <3>1
      <3>3. u = [k \in 1 .. m |-> u[k]]
        BY <2>5, <3>1
      <3> QED
        BY <3>2, <3>3
    <2>7. \A k \in 1 .. m : u[k] = [j \in DOMAIN stmt.header |-> Result!Text(stmt.rows[k][j])]
      <3>1. \A k \in 1 .. m : k \in 1 .. Len(stmt.rows)
        BY <1>5
      <3> QED
        BY <2>2, <2>6, <3>1, Zenon
    <2>8. u = TextRows(stmt, m)
      BY <2>6, <2>7 DEF TextRows
    <2> QED
      BY <1>4, <2>8 DEF u, t
  <1>8. ASSUME NEW k \in DOMAIN res.rows, NEW j \in DOMAIN res.header
        PROVE  /\ Len(res.rows[k]) = Len(res.header)
               /\ Result!GetValue(res.header[j], k) = Result!Text(stmt.rows[k][j])
    <2>1. res.rows[k] = [l \in DOMAIN stmt.header |-> Result!Text(stmt.rows[k][l])]
      BY <1>4, <1>6 DEF TextRows
    <2>2. Len(res.rows[k]) = Len(res.header) /\ res.rows[k][j] = Result!Text(stmt.rows[k][j])
      BY <1>3, <1>5, <2>1
    <2>3. Result!Column(res.header[j]) = j
      <3> DEFINE P(l) == res.header[l] = res.header[j] /\ \A a \in 1 .. l - 1 : res.header[a] # res.header[j]
      <3>1. \A l \in DOMAIN res.header : P(l) => l = j
        BY <1>3, <1>5 DEF Distinct
      <3>2. P(j)
        <4>1. ASSUME NEW a \in 1 .. j - 1 PROVE res.header[a] # res.header[j]
          <5>1. a \in DOMAIN res.header /\ a # j
            BY <1>3, <1>5
          <5> QED
            BY <1>3, <1>5, <5>1 DEF Distinct
        <4> QED
          BY <4>1
      <3>3. Result!Column(res.header[j]) = CHOOSE l \in DOMAIN res.header : P(l)
        BY DEF Result!Column
      <3> HIDE DEF P
      <3> QED
        BY <3>1, <3>2, <3>3
    <2> QED
      BY <2>2, <2>3 DEF Result!GetValue
  <1>9. Result!OneStatement
    BY <1>3, <1>4, <1>5, <1>6, <1>7, <1>8 DEF Result!OneStatement
  <1> QED
    BY <1>1, <1>2, <1>9

-----------------------------------------------------------------------------
(* DbConnConfig *)

\* The types, and the place of a call in its file.
ConnTyped == /\ DOMAIN m_db_conns \subseteq Names /\ m_db_conns \in [DOMAIN m_db_conns -> Seq(Nat)]
             /\ conns \in 0 .. MaxConns /\ leaked \subseteq 1 .. conns
             /\ read \in Seq([file : Seq(Conns!Items), count : Nat]) /\ Len(read) <= MaxFiles
             /\ file \in Seq(Conns!Items) /\ cpc \in {"idle", "item"}
             /\ cpc = "item" => /\ i \in Nat \ {0} /\ jj \in Nat /\ conn_count \in Nat /\ jj < conn_count
                                /\ Len(read) < MaxFiles

\* Every connection that did not fail has one place in one list.
ConnPlaces == /\ \A a \in DOMAIN m_db_conns : Len(m_db_conns[a]) <= conns
              /\ \A a \in DOMAIN m_db_conns : \A p \in DOMAIN m_db_conns[a] :
                   m_db_conns[a][p] \in (1 .. conns) \ leaked
              /\ \A a, b \in DOMAIN m_db_conns : \A p \in DOMAIN m_db_conns[a], q \in DOMAIN m_db_conns[b] :
                   m_db_conns[a][p] = m_db_conns[b][q] => a = b /\ p = q
              /\ \A c \in (1 .. conns) \ leaked :
                   \E a \in DOMAIN m_db_conns : \E p \in DOMAIN m_db_conns[a] : m_db_conns[a][p] = c

\* What a name is to have: what the files that were read promised, and what was made
\* for the file that is being read.
ConnGrid == (1 .. MaxFiles) \X (1 .. MaxItems) \X (1 .. MaxCount)
Made(nm) == {x \in ConnGrid : /\ cpc = "item" /\ x[1] = Len(read) + 1
                              /\ x[2] \in DOMAIN file /\ file[x[2]].name = nm
                              /\ (x[2] < i /\ x[3] <= conn_count) \/ (x[2] = i /\ x[3] <= jj)}
Due(nm)   == Conns!Promised(nm) \cup Made(nm)
Count(nm) == IF nm \in DOMAIN m_db_conns THEN Len(m_db_conns[nm]) ELSE 0

ConnInv == ConnTyped /\ ConnPlaces /\ \A nm \in Names : Cardinality(Due(nm)) <= Count(nm)

LEMMA GridFinite ==
  ASSUME Conns!ConfigAssumption, NEW S, S \subseteq ConnGrid
  PROVE  IsFiniteSet(S) /\ Cardinality(S) \in Nat
  <1> DEFINE A == 1 .. MaxFiles
             B == 1 .. MaxItems
             C == 1 .. MaxCount
             G == (A \X B) \X C
             g == [y \in G |-> <<y[1][1], y[1][2], y[2]>>]
  <1>1. MaxFiles \in Int /\ MaxItems \in Int /\ MaxCount \in Int /\ 1 \in Int
    BY DEF Conns!ConfigAssumption
  <1>2. IsFiniteSet(A) /\ IsFiniteSet(B) /\ IsFiniteSet(C)
    BY <1>1, FS_Interval
  <1> HIDE DEF A, B, C
  <1>3. IsFiniteSet(A \X B)
    BY <1>2, FS_Product
  <1>4. IsFiniteSet(G)
    BY <1>2, <1>3, FS_Product
  <1>5. g \in [G -> A \X B \X C]
    OBVIOUS
  <1>6. ASSUME NEW x \in A \X B \X C PROVE \E y \in G : g[y] = x
    <2>1. x = <<x[1], x[2], x[3]>> /\ <<<<x[1], x[2]>>, x[3]>> \in G
      OBVIOUS
    <2>2. g[<<<<x[1], x[2]>>, x[3]>>] = <<x[1], x[2], x[3]>>
      BY <2>1
    <2> QED
      BY <2>1, <2>2
  <1> HIDE DEF G, g
  <1>7. g \in Surjection(G, A \X B \X C)
    BY <1>5, <1>6 DEF Surjection
  <1>8. IsFiniteSet(A \X B \X C)
    BY <1>4, <1>7, FS_Surjection
  <1>9. IsFiniteSet(ConnGrid)
    BY <1>8 DEF ConnGrid, A, B, C
  <1>10. IsFiniteSet(S)
    BY <1>9, FS_Subset
  <1> QED
    BY <1>10, FS_CardinalityType

LEMMA DueGrid == \A nm : Due(nm) \subseteq ConnGrid
  BY DEF Due, Conns!Promised, Made, ConnGrid

\* As many connections are due as before, or fewer.
LEMMA DueLess ==
  ASSUME Conns!ConfigAssumption, ConnInv, NEW nm \in Names, Due(nm)' \subseteq Due(nm)
  PROVE  Cardinality(Due(nm)') <= Count(nm)
  <1>1. IsFiniteSet(Due(nm)) /\ Cardinality(Due(nm)) \in Nat
    BY DueGrid, GridFinite
  <1>2. Cardinality(Due(nm)') <= Cardinality(Due(nm)) /\ Cardinality(Due(nm)') \in Nat
    <2>1. PICK T : T = Due(nm)'
      OBVIOUS
    <2>2. IsFiniteSet(T) /\ Cardinality(T) <= Cardinality(Due(nm))
      BY <1>1, <2>1, FS_Subset
    <2>3. Cardinality(T) \in Nat
      BY <2>2, FS_CardinalityType
    <2> QED
      BY <2>1, <2>2, <2>3
  <1>3. Cardinality(Due(nm)) <= Count(nm)
    BY DEF ConnInv
  <1>4. Count(nm) \in Nat
    BY DEF ConnInv, ConnTyped, Count
  <1> QED
    BY <1>1, <1>2, <1>3, <1>4

LEMMA ConnInit == ASSUME Conns!ConfigAssumption, Conns!Init PROVE ConnInv
  <1>1. /\ m_db_conns = [nm \in {} |-> <<>>] /\ conns = 0 /\ leaked = {} /\ file = <<>> /\ cpc = "idle"
        /\ read = <<>>
    BY DEF Conns!Init
  <1>2. DOMAIN m_db_conns = {} /\ m_db_conns \in [DOMAIN m_db_conns -> Seq(Nat)]
    BY <1>1
  <1>3. /\ read \in Seq([file : Seq(Conns!Items), count : Nat]) /\ Len(read) = 0 /\ file \in Seq(Conns!Items)
        /\ MaxConns \in Nat /\ MaxFiles \in Nat /\ DOMAIN read = {}
    BY <1>1 DEF Conns!ConfigAssumption
  <1>4. ConnTyped
    BY <1>1, <1>2, <1>3 DEF ConnTyped
  <1>5. ConnPlaces
    BY <1>1, <1>2 DEF ConnPlaces
  <1>6. ASSUME NEW nm \in Names PROVE Cardinality(Due(nm)) <= Count(nm)
    <2>1. Due(nm) = {}
      BY <1>1, <1>3 DEF Due, Conns!Promised, Made
    <2>2. Cardinality({}) = 0 /\ Count(nm) = 0
      BY <1>2, FS_EmptySet DEF Count
    <2> QED
      BY <2>1, <2>2
  <1> QED
    BY <1>4, <1>5, <1>6 DEF ConnInv

\* One connection is added to the list of a name, or makes it.
LEMMA ConnAdded ==
  ASSUME Conns!ConfigAssumption, ConnInv, Conns!Connected
  PROVE  LET str == file[i].name
         IN  /\ i \in DOMAIN file /\ str \in Names /\ conns' = conns + 1
             /\ DOMAIN m_db_conns' = DOMAIN m_db_conns \cup {str}
             /\ m_db_conns' \in [DOMAIN m_db_conns' -> Seq(Nat)]
             /\ \A a \in DOMAIN m_db_conns : a # str => m_db_conns'[a] = m_db_conns[a]
             /\ Len(m_db_conns'[str]) = Count(str) + 1 /\ Count(str) \in Nat /\ Count(str) <= conns
             /\ \A p \in 1 .. Count(str) : str \in DOMAIN m_db_conns /\ m_db_conns'[str][p] = m_db_conns[str][p]
             /\ m_db_conns'[str][Count(str) + 1] = conns'
  <1> DEFINE str == file[i].name
             L == IF str \in DOMAIN m_db_conns THEN m_db_conns[str] ELSE <<>>
  <1>1. ConnTyped /\ ConnPlaces
    BY DEF ConnInv
  <1>2. /\ i \in DOMAIN file /\ conns' = conns + 1 /\ m_db_conns' = Conns!AddConn(str, conns') /\ conns' \in Nat
    BY <1>1 DEF Conns!Connected, Conns!Usable, ConnTyped
  <1>3. str \in Names
    <2>1. PICK e : e = file[i]
      OBVIOUS
    <2>2. e \in Conns!Items
      BY <1>1, <1>2, <2>1 DEF ConnTyped
    <2> QED
      BY <2>1, <2>2 DEF Conns!Items
  <1>4. L \in Seq(Nat) /\ Len(L) = Count(str) /\ Count(str) \in Nat /\ Count(str) <= conns
    <2>1. CASE str \in DOMAIN m_db_conns
      BY <1>1, <2>1 DEF ConnTyped, ConnPlaces, Count
    <2>2. CASE str \notin DOMAIN m_db_conns
      <3>1. conns \in Nat /\ L = <<>>
        BY <1>1, <2>2 DEF ConnTyped
      <3> QED
        BY <2>2, <3>1 DEF Count
    <2> QED
      BY <2>1, <2>2
  <1>5. \A p \in 1 .. Count(str) : str \in DOMAIN m_db_conns /\ L[p] = m_db_conns[str][p]
    BY DEF Count
  <1> HIDE DEF str
  <1>6. /\ DOMAIN m_db_conns' = DOMAIN m_db_conns \cup {str}
        /\ \A a \in DOMAIN m_db_conns : a # str => m_db_conns'[a] = m_db_conns[a]
        /\ m_db_conns'[str] = IF str \in DOMAIN m_db_conns THEN Append(m_db_conns[str], conns') ELSE <<conns'>>
    BY <1>2 DEF Conns!AddConn
  <1>7. m_db_conns'[str] = Append(L, conns')
    <2>1. CASE str \in DOMAIN m_db_conns
      BY <1>6, <2>1
    <2>2. CASE str \notin DOMAIN m_db_conns
      <3>1. L = <<>> /\ m_db_conns'[str] = <<conns'>>
        BY <1>6, <2>2
      <3>2. Append(<<>>, conns') = <<conns'>>
        BY <1>2
      <3> QED
        BY <3>1, <3>2
    <2> QED
      BY <2>1, <2>2
  <1> HIDE DEF L
  <1>8. /\ Append(L, conns') \in Seq(Nat) /\ Len(Append(L, conns')) = Len(L) + 1
        /\ Append(L, conns')[Len(L) + 1] = conns'
        /\ \A p \in 1 .. Len(L) : Append(L, conns')[p] = L[p]
    BY <1>2, <1>4
  <1>9. m_db_conns' \in [DOMAIN m_db_conns' -> Seq(Nat)]
    <2>1. m_db_conns' = [a \in DOMAIN m_db_conns' |-> m_db_conns'[a]]
      BY <1>2 DEF Conns!AddConn
    <2>2. \A a \in DOMAIN m_db_conns' : m_db_conns'[a] \in Seq(Nat)
      BY <1>1, <1>6, <1>7, <1>8 DEF ConnTyped
    <2> QED
      BY ONLY <2>1, <2>2
  <1> QED
    BY <1>2, <1>3, <1>4, <1>5, <1>6, <1>7, <1>8, <1>9 DEF str

LEMMA ConnConnected == ASSUME Conns!ConfigAssumption, ConnInv, Conns!Connected PROVE ConnInv'
  <1> DEFINE str == file[i].name
             k == Count(str)
             D == DOMAIN m_db_conns
  <1>1. /\ i \in DOMAIN file /\ str \in Names /\ conns' = conns + 1
        /\ DOMAIN m_db_conns' = D \cup {str}
        /\ m_db_conns' \in [DOMAIN m_db_conns' -> Seq(Nat)]
        /\ \A a \in D : a # str => m_db_conns'[a] = m_db_conns[a]
        /\ Len(m_db_conns'[str]) = k + 1 /\ k \in Nat /\ k <= conns
        /\ \A p \in 1 .. k : str \in D /\ m_db_conns'[str][p] = m_db_conns[str][p]
        /\ m_db_conns'[str][k + 1] = conns'
    BY ConnAdded
  <1>2. ConnTyped /\ ConnPlaces /\ \A nm \in Names : Cardinality(Due(nm)) <= Count(nm)
    BY DEF ConnInv
  <1>3. /\ conns \in Nat /\ MaxConns \in Nat /\ leaked \subseteq 1 .. conns /\ D \subseteq Names
        /\ m_db_conns \in [D -> Seq(Nat)] /\ cpc = "item" /\ conns < MaxConns
        /\ jj \in Nat /\ conn_count \in Nat /\ jj < conn_count /\ i \in Nat \ {0} /\ Len(read) \in Nat
        /\ UNCHANGED <<leaked, file, conn_count, cpc, read>>
        /\ IF jj + 1 < conn_count THEN jj' = jj + 1 /\ i' = i ELSE jj' = 0 /\ i' = i + 1
    BY <1>2, SMTT(30) DEF ConnTyped, Conns!Connected, Conns!Usable, Conns!ConfigAssumption
  <1>4. str \in D => Len(m_db_conns[str]) = k
    BY DEF Count
  <1> HIDE DEF str, k, D
  <1>5. ConnTyped'
    <2>1. conns' \in 0 .. MaxConns /\ leaked' \subseteq 1 .. conns'
      BY <1>1, <1>3
    <2>2. i' \in Nat \ {0} /\ jj' \in Nat /\ jj' < conn_count'
      BY <1>3
    <2>3. DOMAIN m_db_conns' \subseteq Names
      BY <1>1, <1>3
    <2> QED
      BY <1>1, <1>2, <1>3, <2>1, <2>2, <2>3 DEF ConnTyped
  <1>6. /\ DOMAIN m_db_conns'[str] = 1 .. k + 1
        /\ \A a \in D : DOMAIN m_db_conns[a] = 1 .. Len(m_db_conns[a]) /\ Len(m_db_conns[a]) \in Nat
    BY <1>1, <1>3
  <1>7. /\ str \in DOMAIN m_db_conns' /\ k + 1 \in DOMAIN m_db_conns'[str]
        /\ str \in D => k + 1 \notin DOMAIN m_db_conns[str]
    BY <1>1, <1>4, <1>6
  <1>8. ASSUME NEW a \in D, NEW p \in DOMAIN m_db_conns[a]
        PROVE  a \in DOMAIN m_db_conns' /\ p \in DOMAIN m_db_conns'[a] /\ m_db_conns'[a][p] = m_db_conns[a][p]
    <2>1. CASE a # str
      BY <1>1, <2>1
    <2>2. CASE a = str
      <3>1. p \in 1 .. k /\ p \in 1 .. k + 1
        BY <1>1, <1>4, <1>6, <2>2
      <3> QED
        BY <1>1, <1>6, <2>2, <3>1
    <2> QED
      BY <2>1, <2>2
  <1>9. ASSUME NEW a \in DOMAIN m_db_conns', NEW p \in DOMAIN m_db_conns'[a]
        PROVE  \/ a \in D /\ p \in DOMAIN m_db_conns[a] /\ m_db_conns'[a][p] = m_db_conns[a][p]
               \/ a = str /\ p = k + 1 /\ m_db_conns'[a][p] = conns'
    <2>1. CASE a # str
      BY <1>1, <2>1
    <2>2. CASE a = str
      <3>1. CASE p = k + 1
        BY <1>1, <2>2, <3>1
      <3>2. CASE p # k + 1
        <4>1. p \in 1 .. k
          BY <1>1, <1>6, <2>2, <3>2
        <4>2. str \in D /\ p \in DOMAIN m_db_conns[str]
          BY <1>1, <1>4, <1>6, <4>1
        <4> QED
          BY <1>1, <2>2, <4>1, <4>2
      <3> QED
        BY <3>1, <3>2
    <2> QED
      BY <2>1, <2>2
  <1>10. (1 .. conns') \ leaked' = ((1 .. conns) \ leaked) \cup {conns'} /\ conns' \notin 1 .. conns
    <2>1. conns' \notin 1 .. conns /\ \A c : c \in 1 .. conns' <=> (c \in 1 .. conns \/ c = conns')
      <3>1. conns' = conns + 1 /\ conns \in Nat
        BY <1>1, <1>3
      <3> QED
        BY ONLY <3>1
    <2>2. \A c : c \in leaked => c \in 1 .. conns
      BY <1>3
    <2>3. leaked' = leaked
      BY <1>3
    <2> QED
      BY ONLY <2>1, <2>2, <2>3
  <1>11. ConnPlaces'
    <2>1. \A a \in DOMAIN m_db_conns' : Len(m_db_conns'[a]) <= conns'
      <3>1. ASSUME NEW a \in DOMAIN m_db_conns', a # str PROVE Len(m_db_conns'[a]) <= conns'
        <4>1. a \in D /\ m_db_conns'[a] = m_db_conns[a]
          BY <1>1, <3>1
        <4>2. Len(m_db_conns[a]) <= conns /\ Len(m_db_conns[a]) \in Nat
          BY <1>2, <1>6, <4>1 DEF ConnPlaces, D
        <4> QED
          BY <1>1, <1>3, <4>1, <4>2
      <3>2. Len(m_db_conns'[str]) <= conns'
        BY <1>1, <1>3
      <3> QED
        BY <3>1, <3>2
    <2>2. \A a \in DOMAIN m_db_conns' : \A p \in DOMAIN m_db_conns'[a] :
            m_db_conns'[a][p] \in (1 .. conns') \ leaked'
      BY <1>2, <1>9, <1>10 DEF ConnPlaces, D
    <2>3. ASSUME NEW a \in DOMAIN m_db_conns', NEW b \in DOMAIN m_db_conns',
                 NEW p \in DOMAIN m_db_conns'[a], NEW q \in DOMAIN m_db_conns'[b],
                 m_db_conns'[a][p] = m_db_conns'[b][q]
          PROVE  a = b /\ p = q
      <3>1. \A x \in D : \A y \in DOMAIN m_db_conns[x] : m_db_conns[x][y] # conns'
        BY <1>2, <1>10 DEF ConnPlaces, D
      <3>2. \/ a \in D /\ p \in DOMAIN m_db_conns[a] /\ m_db_conns'[a][p] = m_db_conns[a][p]
            \/ a = str /\ p = k + 1 /\ m_db_conns'[a][p] = conns'
        BY <1>9
      <3>3. \/ b \in D /\ q \in DOMAIN m_db_conns[b] /\ m_db_conns'[b][q] = m_db_conns[b][q]
            \/ b = str /\ q = k + 1 /\ m_db_conns'[b][q] = conns'
        BY <1>9
      <3>4. CASE a \in D /\ p \in DOMAIN m_db_conns[a] /\ b \in D /\ q \in DOMAIN m_db_conns[b]
                 /\ m_db_conns[a][p] = m_db_conns[b][q]
        BY <1>2, <3>4 DEF ConnPlaces, D
      <3> QED
        BY <2>3, <3>1, <3>2, <3>3, <3>4
    <2>4. ASSUME NEW c \in (1 .. conns') \ leaked'
          PROVE  \E a \in DOMAIN m_db_conns' : \E p \in DOMAIN m_db_conns'[a] : m_db_conns'[a][p] = c
      <3>1. CASE c = conns'
        BY <1>1, <1>7, <3>1
      <3>2. CASE c \in (1 .. conns) \ leaked
        <4>1. PICK a \in D : \E p \in DOMAIN m_db_conns[a] : m_db_conns[a][p] = c
          BY <1>2, <3>2 DEF ConnPlaces, D
        <4> QED
          BY <1>8, <4>1
      <3> QED
        BY <1>10, <3>1, <3>2
    <2> QED
      BY <2>1, <2>2, <2>3, <2>4 DEF ConnPlaces
  <1>12. ASSUME NEW nm \in Names PROVE Cardinality(Due(nm)') <= Count(nm)'
    <2>1. Conns!Promised(nm)' = Conns!Promised(nm)
      BY <1>3 DEF Conns!Promised
    <2>2. ASSUME NEW x \in Made(nm)'
          PROVE  x \in Made(nm) \/ (nm = str /\ x = <<Len(read) + 1, i, jj + 1>>)
      <3>1. /\ x \in ConnGrid /\ x[1] = Len(read) + 1
            /\ x[2] \in DOMAIN file /\ file[x[2]].name = nm
            /\ (x[2] < i' /\ x[3] <= conn_count) \/ (x[2] = i' /\ x[3] <= jj')
        BY <1>3 DEF Made
      <3>2. x = <<x[1], x[2], x[3]>> /\ x[2] \in Nat /\ x[3] \in Nat \ {0}
        BY <3>1 DEF ConnGrid
      <3>3. \/ x[2] < i /\ x[3] <= conn_count
            \/ x[2] = i /\ x[3] <= jj
            \/ x[2] = i /\ x[3] = jj + 1
        BY <1>3, <3>1, <3>2
      <3>4. CASE (x[2] < i /\ x[3] <= conn_count) \/ (x[2] = i /\ x[3] <= jj)
        BY <1>3, <3>1, <3>4 DEF Made
      <3>5. CASE x[2] = i /\ x[3] = jj + 1
        BY <3>1, <3>2, <3>5 DEF str
      <3> QED
        BY <3>3, <3>4, <3>5
    <2>3. CASE nm # str
      <3>1. Due(nm)' \subseteq Due(nm)
        BY <2>1, <2>2, <2>3 DEF Due
      <3>2. Count(nm)' = Count(nm)
        BY <1>1, <2>3 DEF Count, D
      <3> QED
        BY <3>1, <3>2, DueLess
    <2>4. CASE nm = str
      <3>1. PICK x : x = <<Len(read) + 1, i, jj + 1>>
        OBVIOUS
      <3>2. PICK T : T = Due(nm)'
        OBVIOUS
      <3>3. T \subseteq Due(nm) \cup {x}
        BY <2>1, <2>2, <2>4, <3>1, <3>2 DEF Due
      <3>4. IsFiniteSet(Due(nm)) /\ Cardinality(Due(nm)) \in Nat
        BY DueGrid, GridFinite
      <3>5. /\ IsFiniteSet(Due(nm) \cup {x})
            /\ Cardinality(Due(nm) \cup {x}) \in {Cardinality(Due(nm)), Cardinality(Due(nm)) + 1}
        BY <3>4, FS_AddElement
      <3>6. IsFiniteSet(T) /\ Cardinality(T) <= Cardinality(Due(nm) \cup {x})
        BY <3>3, <3>5, FS_Subset
      <3>7. Cardinality(T) \in Nat
        BY <3>6, FS_CardinalityType
      <3>8. Count(nm)' = k + 1 /\ Cardinality(Due(nm)) <= k
        BY <1>1, <1>2, <1>7, <2>4 DEF Count, k
      <3>9. Cardinality(T) <= k + 1
        BY ONLY <1>1, <3>4, <3>5, <3>6, <3>7, <3>8
      <3> QED
        BY <3>2, <3>8, <3>9
    <2> QED
      BY <2>3, <2>4
  <1> QED
    BY <1>5, <1>11, <1>12 DEF ConnInv

LEMMA ConnNext == ASSUME Conns!ConfigAssumption, ConnInv, [Conns!Next]_Conns!cfVars PROVE ConnInv'
  <1>1. ConnTyped /\ ConnPlaces /\ \A nm \in Names : Cardinality(Due(nm)) <= Count(nm)
    BY DEF ConnInv
  <1>2. /\ MaxConns \in Nat /\ MaxFiles \in Nat /\ MaxItems \in Nat /\ MaxCount \in Nat \ {0}
        /\ conns \in Nat /\ conns <= MaxConns /\ leaked \subseteq 1 .. conns
        /\ read \in Seq([file : Seq(Conns!Items), count : Nat]) /\ Len(read) \in Nat /\ Len(read) <= MaxFiles
        /\ DOMAIN read = 1 .. Len(read)
        /\ file \in Seq(Conns!Items) /\ DOMAIN file = 1 .. Len(file) /\ Len(file) \in Nat
        /\ DOMAIN m_db_conns \subseteq Names /\ m_db_conns \in [DOMAIN m_db_conns -> Seq(Nat)]
    BY <1>1 DEF ConnTyped, Conns!ConfigAssumption
  <1>3. UNCHANGED <<m_db_conns, conns, leaked>> => ConnPlaces'
    BY <1>1 DEF ConnPlaces
  <1>4. ASSUME UNCHANGED m_db_conns, \A nm \in Names : Due(nm)' \subseteq Due(nm)
        PROVE  \A nm \in Names : Cardinality(Due(nm)') <= Count(nm)'
    <2>1. \A nm : Count(nm)' = Count(nm)
      BY <1>4 DEF Count
    <2> QED
      BY <1>4, <2>1, DueLess
  <1>5. ASSUME NEW m \in 0 .. MaxItems, NEW f \in [1 .. m -> Conns!Items], NEW c \in 0 .. MaxCount,
               Conns!InitFromConfigFile(f, c)
        PROVE  ConnInv'
    <2>1. /\ cpc = "idle" /\ Len(read) < MaxFiles /\ file' = f /\ i' = 1 /\ jj' = 0 /\ cpc' = "item"
          /\ conn_count' = IF c < 1 THEN 1 ELSE c
          /\ UNCHANGED <<m_db_conns, conns, leaked, read>>
      BY <1>5 DEF Conns!InitFromConfigFile, Conns!min_db_count
    <2>2. conn_count' \in Nat /\ conn_count' > 0 /\ f \in Seq(Conns!Items)
      <3>1. conn_count' \in Nat /\ conn_count' > 0
        BY <1>2, <2>1
      <3>2. m \in Nat /\ Seq(Conns!Items) = UNION {[1 .. k -> Conns!Items] : k \in Nat}
        BY <1>2, SeqDef
      <3> QED
        BY <3>1, <3>2
    <2>3. ConnTyped'
      BY <1>1, <2>1, <2>2 DEF ConnTyped
    <2>4. ASSUME NEW nm \in Names PROVE Due(nm)' \subseteq Due(nm)
      <3>1. \A x \in ConnGrid : ~(x[2] < 1) /\ ~(x[3] <= 0)
        BY <1>2 DEF ConnGrid
      <3>2. Made(nm)' = {}
        BY <2>1, <3>1 DEF Made
      <3>3. Conns!Promised(nm)' = Conns!Promised(nm)
        BY <2>1 DEF Conns!Promised
      <3> QED
        BY <3>2, <3>3 DEF Due
    <2> QED
      BY <1>3, <1>4, <2>1, <2>3, <2>4 DEF ConnInv
  <1>6. CASE Conns!Finish
    <2>1. /\ cpc = "item" /\ i > Len(file) /\ cpc' = "idle" /\ file' = <<>>
          /\ read' = Append(read, [file |-> file, count |-> conn_count])
          /\ UNCHANGED <<m_db_conns, conns, leaked>>
      BY <1>6 DEF Conns!Finish, Conns!Return
    <2>2. i \in Nat /\ conn_count \in Nat /\ Len(read) < MaxFiles
      BY <1>1, <2>1 DEF ConnTyped
    <2>3. /\ read' \in Seq([file : Seq(Conns!Items), count : Nat]) /\ Len(read') = Len(read) + 1
          /\ DOMAIN read' = 1 .. Len(read) + 1 /\ read'[Len(read) + 1] = [file |-> file, count |-> conn_count]
          /\ \A k \in 1 .. Len(read) : read'[k] = read[k]
      <3>1. [file |-> file, count |-> conn_count] \in [file : Seq(Conns!Items), count : Nat]
        BY <1>2, <2>2
      <3> QED
        BY <1>2, <2>1, <3>1
    <2>4. ConnTyped'
      BY <1>1, <1>2, <2>1, <2>2, <2>3 DEF ConnTyped
    <2>5. ASSUME NEW nm \in Names PROVE Due(nm)' \subseteq Due(nm)
      <3>1. Made(nm)' = {}
        BY <2>1 DEF Made
      <3>2. ASSUME NEW x \in Conns!Promised(nm)' PROVE x \in Due(nm)
        <4>1. /\ x \in ConnGrid /\ x[1] \in DOMAIN read' /\ x[2] \in DOMAIN read'[x[1]].file
              /\ read'[x[1]].file[x[2]].name = nm /\ x[3] <= read'[x[1]].count
          BY DEF Conns!Promised, ConnGrid
        <4>2. CASE x[1] \in 1 .. Len(read)
          BY <1>2, <2>3, <4>1, <4>2 DEF Due, Conns!Promised, ConnGrid
        <4>3. CASE x[1] = Len(read) + 1
          <5>1. read'[x[1]].file = file /\ read'[x[1]].count = conn_count
            BY <2>3, <4>3
          <5>2. x[2] \in DOMAIN file /\ file[x[2]].name = nm /\ x[3] <= conn_count
            BY ONLY <4>1, <5>1
          <5>3. x[2] < i
            BY ONLY <1>2, <2>1, <2>2, <5>2
          <5> QED
            BY <2>1, <4>1, <4>3, <5>2, <5>3 DEF Due, Made
        <4> QED
          <5>1. x[1] \in 1 .. Len(read) + 1 /\ Len(read) \in Nat
            BY <1>2, <2>3, <4>1
          <5>2. x[1] \in 1 .. Len(read) \/ x[1] = Len(read) + 1
            BY ONLY <5>1
          <5> QED
            BY <4>2, <4>3, <5>2, Zenon
      <3> QED
        BY <3>1, <3>2 DEF Due
    <2> QED
      BY <1>3, <1>4, <2>1, <2>4, <2>5 DEF ConnInv
  <1>7. CASE Conns!Refuse
    <2>1. cpc' = "idle" /\ file' = <<>> /\ UNCHANGED <<m_db_conns, conns, leaked, read>>
      BY <1>7 DEF Conns!Refuse, Conns!Return
    <2>2. ConnTyped'
      BY <1>1, <2>1 DEF ConnTyped
    <2>3. ASSUME NEW nm \in Names PROVE Due(nm)' \subseteq Due(nm)
      BY <2>1 DEF Due, Conns!Promised, Made
    <2> QED
      BY <1>3, <1>4, <2>1, <2>2, <2>3 DEF ConnInv
  <1>8. CASE Conns!ConnectFails
    <2>1. /\ cpc' = "idle" /\ file' = <<>> /\ conns' = conns + 1 /\ leaked' = leaked \cup {conns'}
          /\ conns < MaxConns /\ UNCHANGED <<m_db_conns, read>>
      BY <1>8 DEF Conns!ConnectFails, Conns!Return
    <2>2. (1 .. conns') \ leaked' = (1 .. conns) \ leaked /\ conns' \in 0 .. MaxConns /\ leaked' \subseteq 1 .. conns'
      BY <1>2, <2>1
    <2>3. ConnTyped'
      BY <1>1, <2>1, <2>2 DEF ConnTyped
    <2>4. \A a \in DOMAIN m_db_conns : Len(m_db_conns[a]) <= conns'
      <3>1. \A a \in DOMAIN m_db_conns : Len(m_db_conns[a]) <= conns /\ Len(m_db_conns[a]) \in Nat
        BY <1>1, <1>2 DEF ConnPlaces
      <3> QED
        BY <1>2, <2>1, <3>1
    <2>5. ConnPlaces'
      BY <1>1, <2>1, <2>2, <2>4 DEF ConnPlaces
    <2>6. ASSUME NEW nm \in Names PROVE Due(nm)' \subseteq Due(nm)
      BY <2>1 DEF Due, Conns!Promised, Made
    <2> QED
      BY <1>4, <2>1, <2>3, <2>5, <2>6 DEF ConnInv
  <1>9. CASE Conns!Destroy
    <2>1. /\ cpc = "idle" /\ m_db_conns' = [nm \in {} |-> <<>>] /\ read' = <<>> /\ leaked' = {} /\ conns' = 0
          /\ UNCHANGED <<file, cpc>>
      BY <1>9 DEF Conns!Destroy
    <2>2. DOMAIN m_db_conns' = {} /\ m_db_conns' \in [DOMAIN m_db_conns' -> Seq(Nat)]
      BY <2>1
    <2>3. read' \in Seq([file : Seq(Conns!Items), count : Nat]) /\ Len(read') = 0 /\ DOMAIN read' = {}
      BY <2>1
    <2>4. ConnTyped'
      BY <1>2, <2>1, <2>2, <2>3 DEF ConnTyped
    <2>5. ConnPlaces'
      BY <2>1, <2>2 DEF ConnPlaces
    <2>6. ASSUME NEW nm \in Names PROVE Cardinality(Due(nm)') <= Count(nm)'
      <3>1. Due(nm)' = {}
        BY <2>1, <2>3 DEF Due, Conns!Promised, Made
      <3>2. Cardinality({}) = 0 /\ Count(nm)' = 0
        BY <2>2, FS_EmptySet DEF Count
      <3> QED
        BY <3>1, <3>2
    <2> QED
      BY <2>4, <2>5, <2>6 DEF ConnInv
  <1>10. CASE UNCHANGED Conns!cfVars
    <2>1. UNCHANGED <<m_db_conns, conns, leaked, file, i, jj, conn_count, cpc, read>>
      BY <1>10 DEF Conns!cfVars
    <2>2. ConnTyped'
      BY <1>1, <2>1 DEF ConnTyped
    <2>3. ASSUME NEW nm \in Names PROVE Due(nm)' \subseteq Due(nm)
      BY <2>1 DEF Due, Conns!Promised, Made
    <2> QED
      BY <1>3, <1>4, <2>1, <2>2, <2>3 DEF ConnInv
  <1>11. CASE Conns!Connected
    BY <1>11, ConnConnected
  <1> QED
    BY <1>5, <1>6, <1>7, <1>8, <1>9, <1>10, <1>11 DEF Conns!Next

\* What ConnInv says.
LEMMA ConnExact ==
  ASSUME Conns!ConfigAssumption, ConnInv
  PROVE  /\ Conns!TypeOK
         /\ \A x, y \in Conns!Listed : x # y => m_db_conns[x[1]][x[2]] # m_db_conns[y[1]][y[2]]
         /\ {m_db_conns[x[1]][x[2]] : x \in Conns!Listed} = (1 .. conns) \ leaked
         /\ \A nm \in Names : \A k \in 1 .. Cardinality(Conns!Promised(nm)) : Conns!GetConn(nm, k - 1) \in (1 .. conns) \ leaked
  <1>1. ConnTyped /\ ConnPlaces /\ \A nm \in Names : Cardinality(Due(nm)) <= Count(nm)
    BY DEF ConnInv
  <1>2. Conns!TypeOK
    BY <1>1 DEF ConnTyped, Conns!TypeOK
  <1>3. /\ MaxConns \in Nat /\ conns \in Nat /\ conns <= MaxConns
        /\ DOMAIN m_db_conns \subseteq Names /\ m_db_conns \in [DOMAIN m_db_conns -> Seq(Nat)]
        /\ \A a \in DOMAIN m_db_conns : /\ Len(m_db_conns[a]) \in Nat /\ Len(m_db_conns[a]) <= conns
                                        /\ DOMAIN m_db_conns[a] = 1 .. Len(m_db_conns[a])
    BY <1>1 DEF ConnTyped, ConnPlaces, Conns!ConfigAssumption
  <1>4. ASSUME NEW x \in Conns!Listed
        PROVE  x = <<x[1], x[2]>> /\ x[1] \in DOMAIN m_db_conns /\ x[2] \in DOMAIN m_db_conns[x[1]]
    BY <1>3 DEF Conns!Listed
  <1>5. ASSUME NEW a \in DOMAIN m_db_conns, NEW p \in DOMAIN m_db_conns[a] PROVE <<a, p>> \in Conns!Listed
    <2>1. a \in Names /\ p \in 1 .. MaxConns /\ p <= Len(m_db_conns[a])
      BY <1>3
    <2> QED
      BY <2>1 DEF Conns!Listed
  <1>6. \A x, y \in Conns!Listed : x # y => m_db_conns[x[1]][x[2]] # m_db_conns[y[1]][y[2]]
    <2>1. SUFFICES ASSUME NEW x \in Conns!Listed, NEW y \in Conns!Listed, m_db_conns[x[1]][x[2]] = m_db_conns[y[1]][y[2]]
                   PROVE  x = y
      OBVIOUS
    <2>2. x[1] = y[1] /\ x[2] = y[2]
      BY <1>1, <1>4, <2>1 DEF ConnPlaces
    <2> QED
      BY <1>4, <2>2
  <1>7. {m_db_conns[x[1]][x[2]] : x \in Conns!Listed} = (1 .. conns) \ leaked
    <2>1. ASSUME NEW x \in Conns!Listed PROVE m_db_conns[x[1]][x[2]] \in (1 .. conns) \ leaked
      BY <1>1, <1>4 DEF ConnPlaces
    <2>2. ASSUME NEW c \in (1 .. conns) \ leaked PROVE \E x \in Conns!Listed : c = m_db_conns[x[1]][x[2]]
      <3>1. PICK a \in DOMAIN m_db_conns : \E p \in DOMAIN m_db_conns[a] : m_db_conns[a][p] = c
        BY <1>1 DEF ConnPlaces
      <3>2. PICK p \in DOMAIN m_db_conns[a] : m_db_conns[a][p] = c
        BY <3>1
      <3>3. PICK x : x = <<a, p>>
        OBVIOUS
      <3>4. x \in Conns!Listed /\ x[1] = a /\ x[2] = p
        BY <1>5, <3>3
      <3> QED
        BY <3>2, <3>4
    <2> QED
      BY <2>1, <2>2
  <1>8. ASSUME NEW nm \in Names, NEW k \in 1 .. Cardinality(Conns!Promised(nm))
        PROVE  Conns!GetConn(nm, k - 1) \in (1 .. conns) \ leaked
    <2>1. Conns!Promised(nm) \subseteq Due(nm) /\ Due(nm) \subseteq ConnGrid
      BY DueGrid DEF Due
    <2>2. IsFiniteSet(Due(nm)) /\ Cardinality(Due(nm)) \in Nat
      BY <2>1, GridFinite
    <2>3. Cardinality(Conns!Promised(nm)) <= Cardinality(Due(nm)) /\ IsFiniteSet(Conns!Promised(nm))
      BY <2>1, <2>2, FS_Subset
    <2>4. Cardinality(Conns!Promised(nm)) \in Nat
      BY <2>3, FS_CardinalityType
    <2>5. Count(nm) \in Nat /\ Cardinality(Due(nm)) <= Count(nm)
      BY <1>1, <1>3 DEF Count
    <2>6. k \in Nat \ {0} /\ k <= Count(nm)
      BY <2>2, <2>3, <2>4, <2>5
    <2>7. nm \in DOMAIN m_db_conns /\ k <= Len(m_db_conns[nm])
      BY <2>6 DEF Count
    <2>8. k \in DOMAIN m_db_conns[nm] /\ k - 1 < Len(m_db_conns[nm]) /\ k - 1 + 1 = k
      BY <1>3, <2>6, <2>7
    <2>9. Conns!GetConn(nm, k - 1) = m_db_conns[nm][k]
      BY <2>7, <2>8 DEF Conns!GetConn
    <2> QED
      BY <1>1, <2>7, <2>8, <2>9 DEF ConnPlaces
  <1> QED
    BY <1>2, <1>6, <1>7, <1>8

-----------------------------------------------------------------------------
(* LogFile *)

\* Quotients grow with what is divided, and with the remainders say what it was.
LEMMA Divided ==
  ASSUME NEW a \in Nat, NEW b \in Nat \ {0}
  PROVE  a \div b \in Nat /\ a % b \in 0 .. b - 1 /\ a = b * (a \div b) + (a % b)
  OBVIOUS

LEMMA DividedGrows ==
  ASSUME NEW a \in Nat, NEW b \in Nat \ {0}, NEW c \in Nat, a <= c
  PROVE  a \div b <= c \div b
  <1>1. PICK q, r, s, u : q = a \div b /\ r = a % b /\ s = c \div b /\ u = c % b
    OBVIOUS
  <1>2. /\ q \in Nat /\ r \in Nat /\ s \in Nat /\ u \in Nat
        /\ a = b * q + r /\ c = b * s + u /\ u < b /\ r < b
    BY <1>1, Divided
  <1>3. ASSUME s < q PROVE FALSE
    <2>1. b * q >= b * s + b
      BY <1>2, <1>3
    <2> QED
      BY <1>2, <2>1
  <1> QED
    BY <1>1, <1>2, <1>3

\* The number of the day, hour or unit of a time: what its period comes to.
Number(k, x) == IF k = "DAY" THEN Log!DayOf(x) ELSE IF k = "10MIN" THEN x ELSE Log!HourOf(x)

LEMMA NumberGrows ==
  ASSUME Log!LogAssumption, NEW k, NEW x \in Nat, NEW y \in Nat, x <= y
  PROVE  Number(k, x) \in Nat /\ Number(k, y) \in Nat /\ Number(k, x) <= Number(k, y)
  <1>1. TensPerHour \in Nat \ {0} /\ HoursPerDay \in Nat \ {0}
    BY DEF Log!LogAssumption
  <1>2. Log!HourOf(x) \in Nat /\ Log!HourOf(y) \in Nat /\ Log!HourOf(x) <= Log!HourOf(y)
    BY <1>1, Divided, DividedGrows DEF Log!HourOf
  <1>3. Log!DayOf(x) \in Nat /\ Log!DayOf(y) \in Nat /\ Log!DayOf(x) <= Log!DayOf(y)
    BY <1>1, <1>2, Divided, DividedGrows DEF Log!DayOf
  <1> QED
    BY <1>2, <1>3 DEF Number

LEMMA PeriodNumber ==
  ASSUME Log!LogAssumption, NEW k \in Kinds, NEW x \in Nat, NEW y \in Nat
  PROVE  Log!Period(k, x) = Log!Period(k, y) <=> Number(k, x) = Number(k, y)
  <1>1. TensPerHour \in Nat \ {0} /\ HoursPerDay \in Nat \ {0} /\ k \in {"DAY", "HOUR", "HALF-HOUR", "10MIN"}
    BY DEF Log!LogAssumption
  <1>2. /\ Log!HourOf(x) \in Nat /\ x = TensPerHour * Log!HourOf(x) + (x % TensPerHour)
        /\ Log!HourOf(y) \in Nat /\ y = TensPerHour * Log!HourOf(y) + (y % TensPerHour)
    BY <1>1, Divided DEF Log!HourOf
  <1>3. /\ Log!HourOf(x) = HoursPerDay * Log!DayOf(x) + (Log!HourOf(x) % HoursPerDay)
        /\ Log!HourOf(y) = HoursPerDay * Log!DayOf(y) + (Log!HourOf(y) % HoursPerDay)
    BY <1>1, <1>2, Divided DEF Log!DayOf
  <1>4. Log!HourOf(x) = Log!HourOf(y) <=> Log!DayOf(x) = Log!DayOf(y) /\ Log!HourOf(x) % HoursPerDay = Log!HourOf(y) % HoursPerDay
    <2>1. Log!HourOf(x) = Log!HourOf(y) => Log!DayOf(x) = Log!DayOf(y) /\ Log!HourOf(x) % HoursPerDay = Log!HourOf(y) % HoursPerDay
      BY DEF Log!DayOf
    <2> QED
      BY <1>3, <2>1, Zenon
  <1>5. x = y <=> Log!HourOf(x) = Log!HourOf(y) /\ x % TensPerHour = y % TensPerHour
    <2>1. x = y => Log!HourOf(x) = Log!HourOf(y) /\ x % TensPerHour = y % TensPerHour
      BY DEF Log!HourOf
    <2> QED
      BY <1>2, <2>1, Zenon
  <1>6. CASE k = "DAY"
    BY <1>6 DEF Log!Period, Number
  <1>7. CASE k = "HOUR"
    BY <1>4, <1>7 DEF Log!Period, Number
  <1>8. CASE k = "HALF-HOUR"
    BY <1>4, <1>8 DEF Log!Period, Number
  <1>9. CASE k = "10MIN"
    BY <1>4, <1>5, <1>9 DEF Log!Period, Number
  <1> QED
    BY <1>1, <1>6, <1>7, <1>8, <1>9

\* The number of the period of a name.
NumberOf(k, nm) == CHOOSE v : \E x \in Nat : nm[1] = Log!Period(k, x) /\ v = Number(k, x)

LEMMA BareNoBack == Log!Bare # "bak"
  BY Zenon DEF Log!Bare

LEMMA NameNumber ==
  ASSUME Log!LogAssumption, NEW k \in Kinds, NEW x \in Nat, NEW nm, nm[1] = Log!Period(k, x)
  PROVE  NumberOf(k, nm) = Number(k, x)
  <1>1. \E v : \E y \in Nat : nm[1] = Log!Period(k, y) /\ v = Number(k, y)
    OBVIOUS
  <1>2. \E y \in Nat : nm[1] = Log!Period(k, y) /\ NumberOf(k, nm) = Number(k, y)
    BY <1>1, Zenon DEF NumberOf
  <1> QED
    BY <1>2, PeriodNumber

Backs(k) == {<<Log!Period(k, x), "bak">> : x \in Nat}
LogPlaces == {"idle", "look", "lock", "second", "dup", "rename", "write"}
LogTyped == /\ now \in 0 .. MaxTime /\ m_value \in Kinds /\ m_mtTime \in 0 .. now
            /\ files \in Nat /\ fd \in 1 .. files /\ \A a \in DOMAIN dir : dir[a] \in 1 .. files
            /\ m_backup_logs \in Seq(Backs(m_value))
            /\ m_value = "DAY" => Len(m_backup_logs) <= DEFAULT_BACKUP_LOG_COUNT
            /\ \A w \in written : w.at \in 0 .. now /\ w.file \in 1 .. files

\* A thread that has begun a message has the time of now; the one that has the mutex
\* is in doRollback.
LogThreads == /\ pc \in [Threads -> LogPlaces] /\ stamp \in [Threads -> 0 .. now]
              /\ mutex \in Threads \cup {Log!None}
              /\ \A t \in Threads : pc[t] # "idle" => stamp[t] = now
              /\ \A t \in Threads : pc[t] \in {"second", "dup", "rename"} <=> mutex = t

\* A roll over has touched the time, and has not renamed the file; it has not opened
\* the other one.
Rolls == mutex # Log!None /\ pc[mutex] \in {"dup", "rename"}
Dups  == mutex # Log!None /\ pc[mutex] = "dup"
Current == IF Rolls THEN NumberOf(m_value, rolling[1]) ELSE Number(m_value, m_mtTime)

LogRolling == Rolls => \E x \in 0 .. now : /\ rolling = <<Log!FileName(x, Log!Bare), Log!FileName(x, "bak")>>
                                           /\ m_mtTime = now /\ Number(m_value, x) < Number(m_value, now)

\* The open file has a name, which is not a backup's; the backups are older.
LogNamed == ~failed =>
    /\ IF Dups THEN rolling[1] \in DOMAIN dir /\ dir[rolling[1]] = fd
               ELSE Log!FileName(m_mtTime, Log!Bare) \in DOMAIN dir /\ dir[Log!FileName(m_mtTime, Log!Bare)] = fd
    /\ Rolls => rolling[1] \in DOMAIN dir
    /\ \A a, b \in DOMAIN dir : dir[a] = dir[b] => a = b
    /\ \A x \in Nat : Log!FileName(x, "bak") \in DOMAIN dir => Number(m_value, x) < Current

\* The backups that are listed are there, of periods that grow, and no message of one
\* is of a period after the one that was current when it was renamed.
LogBackups == ~failed =>
    /\ \A p \in 1 .. Len(m_backup_logs) : m_backup_logs[p] \in DOMAIN dir
    /\ \A p, q \in 1 .. Len(m_backup_logs) :
         p <= q => NumberOf(m_value, m_backup_logs[q]) >= NumberOf(m_value, m_backup_logs[p]) + q - p
    /\ \A w \in written : \A p \in 1 .. Len(m_backup_logs) :
         w.file = dir[m_backup_logs[p]] =>
           Number(m_value, w.at) <= IF p < Len(m_backup_logs) THEN NumberOf(m_value, m_backup_logs[p + 1])
                                    ELSE Current

LogInv == LogTyped /\ LogThreads /\ LogRolling /\ LogNamed /\ LogBackups /\ Log!NothingLost

LEMMA LogInit == ASSUME Log!LogAssumption, Log!Init PROVE LogInv
  <1>1. PICK nm : nm = Log!FileName(0, Log!Bare)
    OBVIOUS
  <1>2. /\ now = 0 /\ m_mtTime = 0 /\ fd = 1 /\ files = 1 /\ written = {} /\ failed = FALSE /\ MaxTime \in Nat
    BY DEF Log!Init, Log!LogAssumption
  <1>3. m_value \in Kinds /\ mutex = Log!None /\ Log!None \notin Threads
    BY DEF Log!Init, Log!LogAssumption
  <1>4. dir = [m \in {nm} |-> 1]
    BY <1>1 DEF Log!Init
  <1>5. DOMAIN dir = {nm} /\ dir[nm] = 1
    BY <1>4
  <1>6. m_backup_logs = <<>> /\ DEFAULT_BACKUP_LOG_COUNT \in Nat
    BY DEF Log!Init, Log!LogAssumption
  <1>7. /\ m_backup_logs \in Seq(Backs(m_value)) /\ Len(m_backup_logs) <= DEFAULT_BACKUP_LOG_COUNT
        /\ 1 .. Len(m_backup_logs) = {}
    BY <1>6
  <1>8. pc = [t \in Threads |-> "idle"] /\ stamp = [t \in Threads |-> 0]
    BY DEF Log!Init
  <1>9. ~Rolls /\ ~Dups
    BY <1>3 DEF Rolls, Dups
  <1>10. LogTyped
    <2>1. now \in 0 .. MaxTime /\ m_mtTime \in 0 .. now /\ files \in Nat /\ fd \in 1 .. files
      BY <1>2
    <2>2. \A a \in DOMAIN dir : dir[a] \in 1 .. files
      BY <1>2, <1>5
    <2> QED
      BY <1>2, <1>3, <1>7, <2>1, <2>2 DEF LogTyped
  <1>11. LogThreads
    <2>1. pc \in [Threads -> LogPlaces]
      BY <1>8 DEF LogPlaces
    <2>2. stamp \in [Threads -> 0 .. now]
      BY <1>2, <1>8
    <2>3. \A t \in Threads : pc[t] = "idle" /\ mutex # t
      BY <1>3, <1>8
    <2> QED
      BY <1>3, <2>1, <2>2, <2>3 DEF LogThreads
  <1>12. LogNamed
    BY <1>1, <1>2, <1>5, <1>9, BareNoBack DEF LogNamed, Log!FileName
  <1>13. LogBackups
    BY <1>7 DEF LogBackups
  <1> QED
    BY <1>2, <1>9, <1>10, <1>11, <1>12, <1>13 DEF LogInv, LogRolling, Log!NothingLost

\* A step of a thread that the log does not notice.
LEMMA LogFrame ==
  ASSUME LogInv, LogThreads', Rolls' <=> Rolls, Dups' <=> Dups,
         UNCHANGED <<now, m_value, m_mtTime, m_backup_logs, rolling, fd, dir, files, written, failed>>
  PROVE  LogInv'
  <1>1. LogTyped'
    BY DEF LogInv, LogTyped
  <1>2. Current' = Current
    BY DEF Current
  <1>3. LogRolling'
    BY DEF LogInv, LogRolling, Log!FileName
  <1>4. LogNamed'
    BY <1>2 DEF LogInv, LogNamed, Log!FileName
  <1>5. LogBackups'
    BY <1>2 DEF LogInv, LogBackups
  <1>6. Log!NothingLost'
    BY DEF LogInv, Log!NothingLost
  <1> QED
    BY <1>1, <1>3, <1>4, <1>5, <1>6 DEF LogInv

\* open: the name stands for the open file, and the others for what they did.
LEMMA LogOpen ==
  ASSUME LogTyped, NEW nm, Log!OpenFile(nm)
  PROVE  /\ DOMAIN dir' = DOMAIN dir \cup {nm} /\ dir'[nm] = fd'
         /\ \A a \in DOMAIN dir : dir'[a] = dir[a]
         /\ files' \in Nat /\ files <= files' /\ fd' \in 1 .. files' /\ \A a \in DOMAIN dir' : dir'[a] \in 1 .. files'
         /\ (\A a, b \in DOMAIN dir : dir[a] = dir[b] => a = b)
              => (\A a, b \in DOMAIN dir' : dir'[a] = dir'[b] => a = b)
  <1>1. files \in Nat /\ \A a \in DOMAIN dir : dir[a] \in 1 .. files
    BY DEF LogTyped
  <1>2. CASE nm \in DOMAIN dir
    <2>1. /\ files' = files /\ fd' = dir[nm] /\ DOMAIN dir' = DOMAIN dir
          /\ \A a \in DOMAIN dir : dir'[a] = dir[a]
      BY <1>2 DEF Log!OpenFile, Log!Exists
    <2> QED
      BY <1>1, <1>2, <2>1
  <1>3. CASE nm \notin DOMAIN dir
    <2>1. /\ files' = files + 1 /\ fd' = files + 1 /\ DOMAIN dir' = DOMAIN dir \cup {nm}
          /\ \A a \in DOMAIN dir : dir'[a] = dir[a]
          /\ dir'[nm] = files + 1
      BY <1>3 DEF Log!OpenFile, Log!Exists
    <2>2. \A a \in DOMAIN dir : dir[a] # files + 1
      BY <1>1
    <2>3. \A a \in DOMAIN dir' : dir'[a] \in 1 .. files'
      BY <1>1, <2>1
    <2> QED
      BY <1>1, <2>1, <2>2, <2>3
  <1> QED
    BY <1>2, <1>3

LEMMA LogSame ==
  ASSUME LogThreads, NEW t \in Threads, NEW s, pc' = [pc EXCEPT ![t] = s], UNCHANGED mutex, mutex # t
  PROVE  (Rolls' <=> Rolls) /\ (Dups' <=> Dups)
  <1>1. mutex # Log!None => pc'[mutex] = pc[mutex]
    BY DEF LogThreads
  <1> QED
    BY <1>1 DEF Rolls, Dups

\* The place of one thread.
LEMMA LogGoto ==
  ASSUME LogThreads, NEW t \in Threads, NEW s \in LogPlaces, Log!Goto(t, s), UNCHANGED now,
         s # "idle" => stamp'[t] = now, mutex' \in Threads \cup {Log!None},
         stamp' \in [Threads -> 0 .. now], \A u \in Threads : u # t => stamp'[u] = stamp[u],
         s \in {"second", "dup", "rename"} <=> mutex' = t,
         \A u \in Threads : u # t => (mutex' = u <=> mutex = u)
  PROVE  LogThreads'
  <1>1. pc' \in [Threads -> LogPlaces] /\ pc'[t] = s /\ \A u \in Threads : u # t => pc'[u] = pc[u]
    BY DEF LogThreads, Log!Goto
  <1>2. \A u \in Threads : pc'[u] # "idle" => stamp'[u] = now
    BY <1>1 DEF LogThreads
  <1>3. \A u \in Threads : pc'[u] \in {"second", "dup", "rename"} <=> mutex' = u
    BY <1>1 DEF LogThreads
  <1> QED
    BY <1>1, <1>2, <1>3 DEF LogThreads

LEMMA LogWriteLog ==
  ASSUME Log!LogAssumption, LogInv, NEW t \in Threads, Log!WriteLog(t)
  PROVE  LogInv'
  <1>1. LogThreads /\ now \in Nat /\ mutex # t
    BY DEF LogInv, LogTyped, Log!WriteLog, LogThreads, Log!LogAssumption
  <1>2. /\ pc' = [pc EXCEPT ![t] = "look"] /\ Log!Goto(t, "look") /\ stamp' = [stamp EXCEPT ![t] = now] /\ UNCHANGED mutex
        /\ UNCHANGED <<now, m_value, m_mtTime, m_backup_logs, rolling, fd, dir, files, written, failed>>
    BY DEF Log!WriteLog, Log!Goto, Log!state, Log!strategy, Log!disk
  <1>3. now \in 0 .. now /\ stamp \in [Threads -> 0 .. now] /\ mutex \in Threads \cup {Log!None}
    BY <1>1 DEF LogThreads
  <1>4. stamp' \in [Threads -> 0 .. now] /\ stamp'[t] = now /\ \A u \in Threads : u # t => stamp'[u] = stamp[u]
    BY <1>2, <1>3
  <1>5. LogThreads'
    BY <1>1, <1>2, <1>3, <1>4, LogGoto DEF LogPlaces
  <1>6. (Rolls' <=> Rolls) /\ (Dups' <=> Dups)
    BY <1>1, <1>2, LogSame
  <1> QED
    BY <1>2, <1>5, <1>6, LogFrame

LEMMA LogLook ==
  ASSUME Log!LogAssumption, LogInv, NEW t \in Threads, Log!Look(t)
  PROVE  LogInv'
  <1>1. /\ LogThreads /\ mutex # t /\ stamp[t] = now /\ stamp \in [Threads -> 0 .. now]
        /\ mutex \in Threads \cup {Log!None}
    BY DEF LogInv, Log!Look, LogThreads
  <1>2. PICK s \in {"lock", "write"} : Log!Goto(t, s) /\ pc' = [pc EXCEPT ![t] = s]
    BY DEF Log!Look, Log!Goto
  <1>3. /\ UNCHANGED <<mutex, stamp>>
        /\ UNCHANGED <<now, m_value, m_mtTime, m_backup_logs, rolling, fd, dir, files, written, failed>>
    BY DEF Log!Look, Log!state, Log!strategy, Log!disk
  <1>4. LogThreads'
    BY <1>1, <1>2, <1>3, LogGoto DEF LogPlaces
  <1>5. (Rolls' <=> Rolls) /\ (Dups' <=> Dups)
    BY <1>1, <1>2, <1>3, LogSame
  <1> QED
    BY <1>3, <1>4, <1>5, LogFrame

LEMMA LogLockMutex ==
  ASSUME Log!LogAssumption, LogInv, NEW t \in Threads, Log!LockMutex(t)
  PROVE  LogInv'
  <1>1. /\ LogThreads /\ stamp[t] = now /\ stamp \in [Threads -> 0 .. now] /\ mutex = Log!None /\ mutex' = t
        /\ Log!None \notin Threads
    BY DEF LogInv, Log!LockMutex, LogThreads, Log!LogAssumption
  <1>2. Log!Goto(t, "second") /\ pc' = [pc EXCEPT ![t] = "second"]
    BY DEF Log!LockMutex, Log!Goto
  <1>3. /\ UNCHANGED stamp
        /\ UNCHANGED <<now, m_value, m_mtTime, m_backup_logs, rolling, fd, dir, files, written, failed>>
    BY DEF Log!LockMutex, Log!state, Log!strategy, Log!disk
  <1>4. LogThreads'
    BY <1>1, <1>2, <1>3, LogGoto DEF LogPlaces
  <1>5. pc'[t] = "second"
    BY <1>1, <1>2 DEF LogThreads
  <1>6. ~Rolls /\ ~Rolls' /\ ~Dups /\ ~Dups'
    BY <1>1, <1>5 DEF Rolls, Dups
  <1> QED
    BY <1>3, <1>4, <1>6, LogFrame

\* What was lost stays due: the time of the log does not go back.
LEMMA LogLater ==
  ASSUME Log!LogAssumption, LogTyped, Log!NothingLost, m_mtTime' \in Nat, m_mtTime <= m_mtTime', UNCHANGED <<m_value, written>>,
         ~failed' => ~failed /\ \A a \in DOMAIN dir : \E b \in DOMAIN dir' : dir'[b] = dir[a]
  PROVE  Log!NothingLost'
  <1>1. m_mtTime \in Nat /\ \A w \in written : w.at \in Nat
    BY DEF LogTyped
  <1>2. SUFFICES ASSUME ~failed', NEW w \in written
                 PROVE  \/ \E a \in DOMAIN dir' : dir'[a] = w.file
                        \/ m_value = "DAY" /\ Log!DayOf(m_mtTime') - Log!DayOf(w.at) >= DEFAULT_BACKUP_LOG_COUNT
    BY DEF Log!NothingLost, Log!DayOf, Log!HourOf
  <1>3. CASE \E a \in DOMAIN dir : dir[a] = w.file
    BY <1>2, <1>3
  <1>4. CASE m_value = "DAY" /\ Log!DayOf(m_mtTime) - Log!DayOf(w.at) >= DEFAULT_BACKUP_LOG_COUNT
    <2>1. Log!DayOf(m_mtTime) <= Log!DayOf(m_mtTime') /\ Log!DayOf(m_mtTime) \in Nat /\ Log!DayOf(m_mtTime') \in Nat
      <3>1. Number("DAY", m_mtTime) <= Number("DAY", m_mtTime')
            /\ Number("DAY", m_mtTime) \in Nat /\ Number("DAY", m_mtTime') \in Nat
        BY <1>1, NumberGrows
      <3> QED
        BY <3>1 DEF Number
    <2>2. Log!DayOf(w.at) \in Nat
      <3>1. Number("DAY", w.at) \in Nat
        BY <1>1, NumberGrows
      <3> QED
        BY <3>1 DEF Number
    <2>3. DEFAULT_BACKUP_LOG_COUNT \in Nat
      BY DEF Log!LogAssumption
    <2> QED
      BY <1>4, <2>1, <2>2, <2>3
  <1> QED
    BY <1>2, <1>3, <1>4 DEF Log!NothingLost

LEMMA LogDoRollback ==
  ASSUME Log!LogAssumption, LogInv, NEW t \in Threads, Log!DoRollback(t)
  PROVE  LogInv'
  <1>1. /\ LogThreads /\ mutex = t /\ stamp[t] = now /\ stamp \in [Threads -> 0 .. now] /\ pc[t] = "second"
        /\ Log!None \notin Threads
    BY DEF LogInv, Log!DoRollback, LogThreads, Log!LogAssumption
  <1>2. /\ UNCHANGED stamp /\ UNCHANGED <<now, m_value, m_backup_logs, fd, dir, files, written, failed>>
    BY DEF Log!DoRollback, Log!disk
  <1>3. ~Rolls /\ ~Dups
    BY <1>1 DEF Rolls, Dups
  <1>4. CASE ~Log!NeedRollback(now)
    <2>1. mutex' = Log!None /\ Log!Goto(t, "write") /\ UNCHANGED <<rolling, m_mtTime>>
      BY <1>1, <1>4 DEF Log!DoRollback
    <2>2. LogThreads'
      BY <1>1, <1>2, <2>1, LogGoto DEF LogPlaces
    <2>3. ~Rolls' /\ ~Dups'
      BY <2>1 DEF Rolls, Dups
    <2> QED
      BY <1>2, <1>3, <2>1, <2>2, <2>3, LogFrame
  <1>5. CASE Log!NeedRollback(now)
    <2>1. /\ rolling' = <<Log!FileName(m_mtTime, Log!Bare), Log!FileName(m_mtTime, "bak")>> /\ m_mtTime' = now
          /\ Log!Goto(t, "dup") /\ UNCHANGED mutex
      BY <1>1, <1>5 DEF Log!DoRollback
    <2>2. LogThreads'
      BY <1>1, <1>2, <2>1, LogGoto DEF LogPlaces
    <2>3. pc'[t] = "dup"
      BY <1>1, <2>1 DEF Log!Goto, LogThreads
    <2>4. Rolls' /\ Dups'
      BY <1>1, <2>1, <2>3 DEF Rolls, Dups
    <2>5. LogTyped /\ LogNamed /\ LogBackups /\ Log!NothingLost
      BY DEF LogInv
    <2>6. /\ now \in Nat /\ m_mtTime \in Nat /\ m_mtTime <= now /\ m_value \in Kinds
          /\ m_mtTime \in 0 .. now /\ now \in 0 .. now
      BY <2>5 DEF LogTyped
    <2>7. /\ Number(m_value, m_mtTime) \in Nat /\ Number(m_value, now) \in Nat
          /\ Number(m_value, m_mtTime) <= Number(m_value, now)
      BY <2>6, NumberGrows
    <2>8. Number(m_value, m_mtTime) # Number(m_value, now)
      BY <1>5, <2>6, PeriodNumber DEF Log!NeedRollback
    <2>9. Number(m_value, m_mtTime) < Number(m_value, now)
      BY ONLY <2>7, <2>8
    <2>10. Current' = Current
      <3>1. rolling'[1] = Log!FileName(m_mtTime, Log!Bare) /\ rolling'[1][1] = Log!Period(m_value, m_mtTime)
        BY <2>1 DEF Log!FileName
      <3>2. NumberOf(m_value, rolling'[1]) = Number(m_value, m_mtTime)
        BY <2>6, <3>1, NameNumber
      <3> QED
        BY <1>2, <1>3, <2>4, <3>2 DEF Current
    <2>11. LogTyped'
      BY <1>2, <2>1, <2>5, <2>6 DEF LogTyped
    <2>12. LogRolling'
      BY <1>2, <2>1, <2>6, <2>9 DEF LogRolling, Log!FileName
    <2>13. LogNamed'
      BY <1>2, <1>3, <2>1, <2>4, <2>5, <2>10 DEF LogNamed, Log!FileName
    <2>14. LogBackups'
      BY <1>2, <2>5, <2>10 DEF LogBackups
    <2>15. Log!NothingLost'
      BY <1>2, <2>1, <2>5, <2>6, LogLater
    <2> QED
      BY <2>2, <2>11, <2>12, <2>13, <2>14, <2>15 DEF LogInv
  <1> QED
    BY <1>4, <1>5

LEMMA LogDup2 ==
  ASSUME Log!LogAssumption, LogInv, NEW t \in Threads, Log!Dup2(t)
  PROVE  LogInv'
  <1>1. /\ LogThreads /\ mutex = t /\ stamp[t] = now /\ stamp \in [Threads -> 0 .. now] /\ pc[t] = "dup"
        /\ Log!None \notin Threads
    BY DEF LogInv, Log!Dup2, LogThreads, Log!LogAssumption
  <1>2. /\ UNCHANGED <<stamp, mutex>> /\ UNCHANGED <<now, m_value, m_mtTime, m_backup_logs, rolling, written>>
        /\ Log!Goto(t, "rename")
    BY DEF Log!Dup2, Log!state, Log!strategy
  <1>3. LogThreads'
    BY <1>1, <1>2, LogGoto DEF LogPlaces
  <1>4. pc'[t] = "rename"
    BY <1>1, <1>2 DEF Log!Goto, LogThreads
  <1>5. Rolls /\ Rolls' /\ ~Dups' /\ Dups
    BY <1>1, <1>2, <1>4 DEF Rolls, Dups
  <1>6. Current' = Current
    BY <1>2, <1>5 DEF Current
  <1>7. LogTyped /\ LogRolling /\ LogNamed /\ LogBackups /\ Log!NothingLost /\ m_mtTime \in Nat
    BY DEF LogInv, LogTyped
  <1>8. LogRolling'
    BY <1>2, <1>5, <1>7 DEF LogRolling, Log!FileName
  <1>9. CASE failed' = TRUE /\ UNCHANGED <<fd, dir, files>>
    <2>1. LogTyped'
      BY <1>2, <1>7, <1>9 DEF LogTyped
    <2> QED
      BY <1>3, <1>8, <1>9, <2>1 DEF LogInv, LogNamed, LogBackups, Log!NothingLost
  <1>10. CASE Log!OpenFile(Log!FileName(m_mtTime, Log!Bare)) /\ UNCHANGED failed
    <2>1. PICK nm : nm = Log!FileName(m_mtTime, Log!Bare)
      OBVIOUS
    <2>2. Log!OpenFile(nm)
      BY <1>10, <2>1
    <2>3. /\ DOMAIN dir' = DOMAIN dir \cup {nm} /\ dir'[nm] = fd'
          /\ \A a \in DOMAIN dir : dir'[a] = dir[a]
          /\ files' \in Nat /\ files <= files' /\ fd' \in 1 .. files' /\ \A a \in DOMAIN dir' : dir'[a] \in 1 .. files'
          /\ (\A a, b \in DOMAIN dir : dir[a] = dir[b] => a = b)
               => (\A a, b \in DOMAIN dir' : dir'[a] = dir'[b] => a = b)
      BY <1>7, <2>2, LogOpen
    <2>4. \A w \in written : w.file \in 1 .. files'
      BY <1>7, <2>3 DEF LogTyped
    <2>5. LogTyped'
      BY <1>2, <1>7, <2>3, <2>4 DEF LogTyped
    <2>6. \A x : Log!FileName(x, "bak") # nm
      BY <2>1, BareNoBack DEF Log!FileName
    <2>7. LogNamed'
      <3>1. SUFFICES ASSUME ~failed' PROVE LogNamed'
        BY DEF LogNamed
      <3>2. /\ rolling[1] \in DOMAIN dir /\ \A a, b \in DOMAIN dir : dir[a] = dir[b] => a = b
            /\ \A x \in Nat : Log!FileName(x, "bak") \in DOMAIN dir => Number(m_value, x) < Current
        BY <1>5, <1>7, <1>10, <3>1 DEF LogNamed
      <3>3. \A x \in Nat : Log!FileName(x, "bak") \in DOMAIN dir' => Number(m_value, x) < Current
        BY <2>3, <2>6, <3>2
      <3>4. \A x : Log!FileName(x, "bak")' = Log!FileName(x, "bak") /\ Log!FileName(m_mtTime, Log!Bare)' = nm
        BY <1>2, <2>1 DEF Log!FileName
      <3>5. \A a, b \in DOMAIN dir' : dir'[a] = dir'[b] => a = b
        BY <2>3, <3>2
      <3>6. \A x \in Nat : Log!FileName(x, "bak")' \in DOMAIN dir' => Number(m_value, x)' < Current'
        BY <1>2, <1>6, <3>3, <3>4 DEF Number, Log!FileName
      <3>7. rolling'[1] \in DOMAIN dir' /\ Log!FileName(m_mtTime, Log!Bare)' \in DOMAIN dir' /\ dir'[Log!FileName(m_mtTime, Log!Bare)'] = fd'
        BY <1>2, <2>3, <3>2, <3>4
      <3> QED
        BY <1>5, <3>5, <3>6, <3>7 DEF LogNamed
    <2>8. LogBackups'
      <3>1. SUFFICES ASSUME ~failed' PROVE LogBackups'
        BY DEF LogBackups
      <3>2. \A p \in 1 .. Len(m_backup_logs) : m_backup_logs[p] \in DOMAIN dir
        BY <1>7, <1>10, <3>1 DEF LogBackups
      <3>3. \A p \in 1 .. Len(m_backup_logs) : dir'[m_backup_logs[p]] = dir[m_backup_logs[p]]
        BY <2>3, <3>2
      <3> QED
        BY <1>2, <1>6, <1>7, <1>10, <2>3, <3>1, <3>2, <3>3 DEF LogBackups
    <2>9. Log!NothingLost'
      <3>1. \A a \in DOMAIN dir : \E b \in DOMAIN dir' : dir'[b] = dir[a]
        BY <2>3
      <3>2. m_mtTime' \in Nat /\ m_mtTime <= m_mtTime'
        BY <1>2, <1>7
      <3>3. LogTyped /\ Log!NothingLost /\ UNCHANGED <<m_value, written>> /\ (~failed' => ~failed)
        BY <1>2, <1>7, <1>10
      <3> QED
        BY <3>1, <3>2, <3>3, LogLater
    <2> QED
      BY <1>3, <1>8, <2>5, <2>7, <2>8, <2>9 DEF LogInv
  <1> QED
    BY <1>9, <1>10 DEF Log!Dup2

LEMMA BackNumber ==
  ASSUME Log!LogAssumption, m_value \in Kinds, NEW b \in Backs(m_value)
  PROVE  \E x \in Nat : /\ b = Log!FileName(x, "bak") /\ NumberOf(m_value, b) = Number(m_value, x)
                        /\ NumberOf(m_value, b) \in Nat /\ b[2] = "bak"
  <1>1. PICK x \in Nat : b = <<Log!Period(m_value, x), "bak">>
    BY DEF Backs
  <1>2. b = Log!FileName(x, "bak") /\ b[1] = Log!Period(m_value, x) /\ b[2] = "bak"
    BY <1>1 DEF Log!FileName
  <1>3. NumberOf(m_value, b) = Number(m_value, x)
    BY <1>2, NameNumber
  <1>4. Number(m_value, x) \in Nat
    BY NumberGrows
  <1> QED
    BY <1>2, <1>3, <1>4

\* What LogNamed and LogBackups say of a directory, a list of backups and the number
\* of the period that is current.
Kept(d, L, c) ==
    /\ \A a, b \in DOMAIN d : d[a] = d[b] => a = b
    /\ \A x \in Nat : Log!FileName(x, "bak") \in DOMAIN d => Number(m_value, x) < c
    /\ \A p \in 1 .. Len(L) : L[p] \in DOMAIN d
    /\ \A p, q \in 1 .. Len(L) : p <= q => NumberOf(m_value, L[q]) >= NumberOf(m_value, L[p]) + q - p
    /\ \A w \in written : \A p \in 1 .. Len(L) :
         w.file = d[L[p]] =>
           Number(m_value, w.at) <= IF p < Len(L) THEN NumberOf(m_value, L[p + 1]) ELSE c

\* rename, of the file and its new name, in the directory; no message is of a period
\* after c.
Renaming(d, e, aa, bb) == /\ aa \in DOMAIN d /\ DOMAIN e = (DOMAIN d \ {aa}) \cup {bb} /\ e[bb] = d[aa]
                            /\ \A a \in DOMAIN d : a \notin {aa, bb} => e[a] = d[a]
NoLater(c) == \A w \in written : Number(m_value, w.at) <= c

\* rename: one backup more.
LEMMA LogRenamed ==
  ASSUME Log!LogAssumption, m_value \in Kinds, NEW d, NEW L \in Seq(Backs(m_value)), NEW x \in Nat, NEW c \in Nat, NEW e,
         NEW aa, NEW bb, aa = Log!FileName(x, Log!Bare), bb = Log!FileName(x, "bak"),
         Kept(d, L, Number(m_value, x)), Number(m_value, x) < c, NoLater(c), Renaming(d, e, aa, bb)
  PROVE  /\ Append(L, bb) \in Seq(Backs(m_value)) /\ Kept(e, Append(L, bb), c)
         /\ \A a \in DOMAIN d : \E b \in DOMAIN e : e[b] = d[a]
         /\ \A y \in Nat : Number(m_value, y) = c /\ Log!FileName(y, Log!Bare) \in DOMAIN d
                             => Log!FileName(y, Log!Bare) \in DOMAIN e /\ e[Log!FileName(y, Log!Bare)] = d[Log!FileName(y, Log!Bare)]
  <1>1. aa = Log!FileName(x, Log!Bare) /\ bb = Log!FileName(x, "bak")
    OBVIOUS
  <1>2. m_value \in Kinds /\ Number(m_value, x) \in Nat /\ bb \in Backs(m_value)
    <2>1. Number(m_value, x) \in Nat
      BY NumberGrows
    <2>2. bb \in Backs(m_value)
      BY <1>1 DEF Backs, Log!FileName
    <2> QED
      BY <2>1, <2>2
  <1>3. bb \notin DOMAIN d
    <2>1. ASSUME bb \in DOMAIN d PROVE Number(m_value, x) < Number(m_value, x)
      BY <1>1, <2>1 DEF Kept
    <2> QED
      BY <1>2, <2>1
  <1>4. /\ DOMAIN e = (DOMAIN d \ {aa}) \cup {bb} /\ e[bb] = d[aa]
        /\ \A a \in DOMAIN d : a # aa => e[a] = d[a]
    BY <1>3 DEF Renaming
  <1>5. aa[2] = Log!Bare /\ bb[2] = "bak" /\ aa \in DOMAIN d
    BY <1>1 DEF Log!FileName, Renaming
  <1>6. \A a, b \in DOMAIN d : d[a] = d[b] => a = b
    BY DEF Kept
  <1>7. \A a, b \in DOMAIN e : e[a] = e[b] => a = b
    <2>1. SUFFICES ASSUME NEW a \in DOMAIN e, NEW b \in DOMAIN e, e[a] = e[b] PROVE a = b
      OBVIOUS
    <2>2. CASE a = bb /\ b # bb
      <3>1. b \in DOMAIN d /\ b # aa /\ e[b] = d[b]
        BY ONLY <1>4, <2>2, b \in DOMAIN e
      <3> QED
        BY <1>4, <1>5, <1>6, <2>1, <2>2, <3>1
    <2>3. CASE b = bb /\ a # bb
      <3>1. a \in DOMAIN d /\ a # aa /\ e[a] = d[a]
        BY ONLY <1>4, <2>3, a \in DOMAIN e
      <3> QED
        BY <1>4, <1>5, <1>6, <2>1, <2>3, <3>1
    <2>4. CASE a # bb /\ b # bb
      <3>1. a \in DOMAIN d /\ e[a] = d[a] /\ b \in DOMAIN d /\ e[b] = d[b]
        BY ONLY <1>4, <2>4, a \in DOMAIN e, b \in DOMAIN e
      <3> QED
        BY <1>6, <2>1, <3>1
    <2> QED
      BY <2>2, <2>3, <2>4
  <1>8. \A y \in Nat : Log!FileName(y, "bak") \in DOMAIN e => Number(m_value, y) < c
    <2>1. SUFFICES ASSUME NEW y \in Nat, Log!FileName(y, "bak") \in DOMAIN e PROVE Number(m_value, y) < c
      OBVIOUS
    <2>2. Number(m_value, y) \in Nat
      BY NumberGrows
    <2>3. CASE Log!FileName(y, "bak") = bb
      <3>1. Log!Period(m_value, y) = Log!Period(m_value, x)
        BY <1>1, <2>3 DEF Log!FileName
      <3>2. Number(m_value, y) = Number(m_value, x)
        BY <1>2, <3>1, PeriodNumber
      <3> QED
        BY <3>2
    <2>4. CASE Log!FileName(y, "bak") \in DOMAIN d
      <3>1. Number(m_value, y) < Number(m_value, x)
        BY <2>4 DEF Kept
      <3> QED
        BY <1>2, <2>2, <3>1
    <2> QED
      BY <1>4, <2>1, <2>3, <2>4
  <1>9. PICK M : M = Append(L, bb)
    OBVIOUS
  <1>10. /\ M \in Seq(Backs(m_value)) /\ Len(L) \in Nat /\ Len(M) = Len(L) + 1 /\ M[Len(L) + 1] = bb
         /\ \A p \in 1 .. Len(L) : M[p] = L[p] /\ L[p] \in Backs(m_value)
    BY <1>2, <1>9
  <1>11. ASSUME NEW p \in 1 .. Len(L)
         PROVE  /\ L[p] \in DOMAIN d /\ L[p] # aa /\ L[p] # bb /\ L[p] \in DOMAIN e /\ e[L[p]] = d[L[p]]
                /\ NumberOf(m_value, L[p]) \in Nat /\ NumberOf(m_value, L[p]) < Number(m_value, x)
    <2>1. L[p] \in DOMAIN d /\ L[p] \in Backs(m_value)
      BY <1>10 DEF Kept
    <2>2. PICK y \in Nat : /\ L[p] = Log!FileName(y, "bak") /\ NumberOf(m_value, L[p]) = Number(m_value, y)
                           /\ NumberOf(m_value, L[p]) \in Nat /\ L[p][2] = "bak"
      BY <1>2, <2>1, BackNumber
    <2>3. Number(m_value, y) < Number(m_value, x)
      BY <2>1, <2>2 DEF Kept
    <2>4. L[p] # aa /\ L[p] # bb
      BY <1>3, <1>5, <2>1, <2>2
    <2>5. L[p] \in DOMAIN e /\ e[L[p]] = d[L[p]]
      BY <1>4, <2>1, <2>4
    <2> QED
      BY <2>1, <2>2, <2>3, <2>4, <2>5
  <1>12. NumberOf(m_value, bb) = Number(m_value, x)
    <2>1. bb[1] = Log!Period(m_value, x)
      BY <1>1 DEF Log!FileName
    <2> QED
      BY <1>2, <2>1, NameNumber
  <1>13. \A p \in 1 .. Len(M) : M[p] \in DOMAIN e
    <2>1. ASSUME NEW p \in 1 .. Len(M) PROVE M[p] \in DOMAIN e
      <3>1. p \in 1 .. Len(L) \/ p = Len(L) + 1
        BY <1>10
      <3> QED
        BY <1>4, <1>10, <1>11, <3>1
    <2> QED
      BY <2>1
  <1>14. \A p, q \in 1 .. Len(M) : p <= q => NumberOf(m_value, M[q]) >= NumberOf(m_value, M[p]) + q - p
    <2>1. SUFFICES ASSUME NEW p \in 1 .. Len(M), NEW q \in 1 .. Len(M), p <= q
                   PROVE  NumberOf(m_value, M[q]) >= NumberOf(m_value, M[p]) + q - p
      OBVIOUS
    <2>2. CASE q \in 1 .. Len(L)
      <3>1. p \in 1 .. Len(L)
        BY <1>10, <2>1, <2>2
      <3>2. NumberOf(m_value, L[q]) >= NumberOf(m_value, L[p]) + q - p
        BY <2>1, <2>2, <3>1 DEF Kept
      <3> QED
        BY <1>10, <2>2, <3>1, <3>2
    <2>3. CASE q = Len(L) + 1 /\ p = Len(L) + 1
      BY <1>2, <1>10, <1>12, <2>3
    <2>4. CASE q = Len(L) + 1 /\ p \in 1 .. Len(L)
      <3>1. PICK l \in 1 .. Len(L) : l = Len(L)
        BY <1>10, <2>4
      <3>2. NumberOf(m_value, L[l]) >= NumberOf(m_value, L[p]) + l - p
        BY <2>4, <3>1 DEF Kept
      <3>3. /\ NumberOf(m_value, L[l]) \in Nat /\ NumberOf(m_value, L[l]) < Number(m_value, x)
            /\ NumberOf(m_value, L[p]) \in Nat
        BY <1>11, <2>4
      <3>4. Number(m_value, x) >= NumberOf(m_value, L[p]) + q - p
        BY ONLY <1>2, <1>10, <2>4, <3>1, <3>2, <3>3
      <3> QED
        BY <1>10, <1>12, <2>4, <3>4
    <2> QED
      BY <1>10, <2>1, <2>2, <2>3, <2>4
  <1>15. ASSUME NEW w \in written, NEW p \in 1 .. Len(M), w.file = e[M[p]]
         PROVE  Number(m_value, w.at) <= IF p < Len(M) THEN NumberOf(m_value, M[p + 1]) ELSE c
    <2>1. CASE p = Len(L) + 1
      BY <1>10, <2>1 DEF NoLater
    <2>2. CASE p \in 1 .. Len(L) - 1
      <3>1. p \in 1 .. Len(L) /\ p + 1 \in 1 .. Len(L) /\ p < Len(L) /\ p < Len(M)
        BY <1>10, <2>2
      <3>2. w.file = d[L[p]]
        BY <1>10, <1>11, <1>15, <3>1
      <3>3. Number(m_value, w.at) <= NumberOf(m_value, L[p + 1])
        BY <3>1, <3>2 DEF Kept
      <3> QED
        BY <1>10, <3>1, <3>3
    <2>3. CASE p = Len(L)
      <3>1. p \in 1 .. Len(L) /\ ~(p < Len(L)) /\ p < Len(M) /\ M[p + 1] = bb
        BY <1>10, <2>3
      <3>2. w.file = d[L[p]]
        BY <1>10, <1>11, <1>15, <3>1
      <3>3. Number(m_value, w.at) <= Number(m_value, x)
        BY <3>1, <3>2 DEF Kept
      <3> QED
        BY <1>12, <3>1, <3>3
    <2> QED
      BY <1>10, <2>1, <2>2, <2>3
  <1>16. Kept(e, M, c)
    BY <1>7, <1>8, <1>13, <1>14, <1>15 DEF Kept
  <1>17. ASSUME NEW a \in DOMAIN d PROVE \E b \in DOMAIN e : e[b] = d[a]
    <2>1. CASE a = aa
      BY <1>4, <2>1
    <2>2. CASE a # aa
      BY <1>4, <2>2
    <2> QED
      BY <2>1, <2>2
  <1>18. ASSUME NEW y \in Nat, Number(m_value, y) = c, Log!FileName(y, Log!Bare) \in DOMAIN d
         PROVE  Log!FileName(y, Log!Bare) \in DOMAIN e /\ e[Log!FileName(y, Log!Bare)] = d[Log!FileName(y, Log!Bare)]
    <2>1. Log!Period(m_value, y) # Log!Period(m_value, x)
      BY <1>2, <1>18, PeriodNumber
    <2>2. Log!FileName(y, Log!Bare) # aa
      BY <1>1, <2>1 DEF Log!FileName
    <2> QED
      BY <1>4, <1>18, <2>2
  <1> QED
    BY <1>1, <1>9, <1>10, <1>16, <1>17, <1>18

\* The oldest backup is removed: no other is, and its messages are of periods that
\* are as far away as there are other backups.
LEMMA LogRemoved ==
  ASSUME Log!LogAssumption, m_value \in Kinds, NEW d, NEW L \in Seq(Backs(m_value)), NEW c \in Nat, NEW e,
         Kept(d, L, c), L # <<>>, e = Log!Without(d, Head(L)),
         \A w \in written : w.at \in Nat
  PROVE  /\ Tail(L) \in Seq(Backs(m_value)) /\ Kept(e, Tail(L), c)
         /\ \A a \in DOMAIN d : a[2] # "bak" => a \in DOMAIN e /\ e[a] = d[a]
         /\ \A w \in written : \A a \in DOMAIN d :
              d[a] = w.file => \/ \E b \in DOMAIN e : e[b] = w.file
                               \/ c >= Number(m_value, w.at) + Len(L) - 1
  <1>1. PICK h, M : h = Head(L) /\ M = Tail(L)
    OBVIOUS
  <1>2. /\ Len(L) \in Nat \ {0} /\ h = L[1] /\ M \in Seq(Backs(m_value)) /\ Len(M) = Len(L) - 1
        /\ \A p \in 1 .. Len(L) - 1 : M[p] = L[p + 1]
        /\ \A p \in 1 .. Len(L) : L[p] \in Backs(m_value)
    BY <1>1
  <1>3. DOMAIN e = DOMAIN d \ {h} /\ \A a \in DOMAIN d : a # h => e[a] = d[a]
    BY <1>1 DEF Log!Without
  <1>4. /\ \A a, b \in DOMAIN d : d[a] = d[b] => a = b
        /\ \A x \in Nat : Log!FileName(x, "bak") \in DOMAIN d => Number(m_value, x) < c
        /\ \A p \in 1 .. Len(L) : L[p] \in DOMAIN d
    BY DEF Kept
  <1>5. \A p, q \in 1 .. Len(L) : p <= q => NumberOf(m_value, L[q]) >= NumberOf(m_value, L[p]) + q - p
    BY DEF Kept
  <1>6. ASSUME NEW p \in 1 .. Len(L)
        PROVE  /\ NumberOf(m_value, L[p]) \in Nat /\ NumberOf(m_value, L[p]) < c
               /\ L[p] \in DOMAIN d /\ L[p][2] = "bak"
    <2>1. PICK y \in Nat : /\ L[p] = Log!FileName(y, "bak") /\ NumberOf(m_value, L[p]) = Number(m_value, y)
                           /\ NumberOf(m_value, L[p]) \in Nat /\ L[p][2] = "bak"
      BY <1>2, BackNumber
    <2> QED
      BY <1>4, <2>1
  <1>7. ASSUME NEW p \in 2 .. Len(L) PROVE L[p] # h /\ L[p] \in DOMAIN e /\ e[L[p]] = d[L[p]]
    <2>1. p \in 1 .. Len(L) /\ 1 \in 1 .. Len(L) /\ 1 <= p
      BY <1>2
    <2>2. NumberOf(m_value, L[p]) >= NumberOf(m_value, L[1]) + p - 1
      BY <1>5, <2>1
    <2>3. NumberOf(m_value, L[p]) \in Nat /\ NumberOf(m_value, L[1]) \in Nat
      BY <1>6, <2>1
    <2>4. NumberOf(m_value, L[p]) # NumberOf(m_value, L[1])
      BY ONLY <1>2, <2>2, <2>3, p \in 2 .. Len(L)
    <2>5. L[p] # h
      BY <1>2, <2>4
    <2> QED
      BY <1>3, <1>4, <2>1, <2>5
  <1>8. ASSUME NEW p \in 1 .. Len(M)
        PROVE  p + 1 \in 2 .. Len(L) /\ p + 1 \in 1 .. Len(L) /\ M[p] = L[p + 1]
    BY <1>2
  <1>9. Kept(e, M, c)
    <2>1. \A a, b \in DOMAIN e : e[a] = e[b] => a = b
      BY <1>3, <1>4
    <2>2. \A x \in Nat : Log!FileName(x, "bak") \in DOMAIN e => Number(m_value, x) < c
      BY <1>3, <1>4
    <2>3. \A p \in 1 .. Len(M) : M[p] \in DOMAIN e
      BY <1>7, <1>8
    <2>4. ASSUME NEW p \in 1 .. Len(M), NEW q \in 1 .. Len(M), p <= q
          PROVE  NumberOf(m_value, M[q]) >= NumberOf(m_value, M[p]) + q - p
      <3>1. PICK u \in 1 .. Len(L), v \in 1 .. Len(L) : u = p + 1 /\ v = q + 1
        BY <1>8
      <3>2. u <= v /\ M[p] = L[u] /\ M[q] = L[v]
        BY <1>2, <1>8, <2>4, <3>1
      <3>3. NumberOf(m_value, L[v]) >= NumberOf(m_value, L[u]) + v - u
        BY <1>5, <3>2
      <3>4. NumberOf(m_value, L[v]) \in Nat /\ NumberOf(m_value, L[u]) \in Nat
        BY <1>6
      <3>5. NumberOf(m_value, L[v]) >= NumberOf(m_value, L[u]) + q - p
        BY ONLY <1>2, <3>1, <3>3, <3>4, p \in 1 .. Len(M), q \in 1 .. Len(M)
      <3> QED
        BY <3>2, <3>5
    <2>5. ASSUME NEW w \in written, NEW p \in 1 .. Len(M), w.file = e[M[p]]
          PROVE  Number(m_value, w.at) <= IF p < Len(M) THEN NumberOf(m_value, M[p + 1]) ELSE c
      <3>1. PICK u \in 1 .. Len(L) : u = p + 1 /\ u \in 2 .. Len(L) /\ M[p] = L[u]
        BY <1>8
      <3>2. w.file = d[L[u]]
        BY <1>7, <2>5, <3>1
      <3>3. Number(m_value, w.at) <= IF u < Len(L) THEN NumberOf(m_value, L[u + 1]) ELSE c
        BY <3>2 DEF Kept
      <3>4. CASE p < Len(M)
        <4>1. u < Len(L) /\ p + 1 \in 1 .. Len(M)
          BY <1>2, <3>1, <3>4
        <4>2. M[p + 1] = L[u + 1]
          BY <1>8, <3>1, <4>1
        <4> QED
          BY <3>3, <3>4, <4>1, <4>2
      <3>5. CASE ~(p < Len(M))
        <4>1. ~(u < Len(L))
          BY <1>2, <3>1, <3>5
        <4> QED
          BY <3>3, <3>5, <4>1
      <3> QED
        BY <3>4, <3>5
    <2> QED
      BY <2>1, <2>2, <2>3, <2>4, <2>5 DEF Kept
  <1>10. ASSUME NEW a \in DOMAIN d, a[2] # "bak" PROVE a \in DOMAIN e /\ e[a] = d[a]
    <2>1. 1 \in 1 .. Len(L)
      BY <1>2
    <2>2. h[2] = "bak"
      BY <1>2, <1>6, <2>1
    <2> QED
      BY <1>3, <1>10, <2>2
  <1>11. ASSUME NEW w \in written, NEW a \in DOMAIN d, d[a] = w.file
         PROVE  \/ \E b \in DOMAIN e : e[b] = w.file
                \/ c >= Number(m_value, w.at) + Len(L) - 1
    <2>1. CASE a # h
      BY <1>3, <1>11, <2>1
    <2>2. CASE a = h
      <3>1. 1 \in 1 .. Len(L) /\ w.file = d[L[1]]
        BY <1>2, <1>11, <2>2
      <3>2. Number(m_value, w.at) <= IF 1 < Len(L) THEN NumberOf(m_value, L[1 + 1]) ELSE c
        BY <3>1 DEF Kept
      <3>3. Number(m_value, w.at) \in Nat
        BY NumberGrows
      <3>4. CASE ~(1 < Len(L))
        <4>1. Len(L) = 1 /\ Number(m_value, w.at) <= c
          BY <1>2, <3>2, <3>4
        <4> QED
          BY <3>3, <4>1
      <3>5. CASE 1 < Len(L)
        <4>1. PICK u \in 1 .. Len(L), v \in 1 .. Len(L) : u = 2 /\ v = Len(L)
          BY <1>2, <3>5
        <4>2. u <= v /\ 1 + 1 = u
          BY <3>5, <4>1
        <4>3. Number(m_value, w.at) <= NumberOf(m_value, L[u])
          BY <3>2, <3>5, <4>2
        <4>4. NumberOf(m_value, L[v]) >= NumberOf(m_value, L[u]) + v - u
          BY <1>5, <4>2
        <4>5. NumberOf(m_value, L[u]) \in Nat /\ NumberOf(m_value, L[v]) \in Nat /\ NumberOf(m_value, L[v]) < c
          BY <1>6
        <4>6. c >= Number(m_value, w.at) + v - 1
          BY ONLY <3>3, <4>1, <4>3, <4>4, <4>5, c \in Nat, <1>2
        <4> QED
          BY <4>1, <4>6
      <3> QED
        BY <3>4, <3>5
    <2> QED
      BY <2>1, <2>2
  <1> QED
    BY <1>1, <1>2, <1>9, <1>10, <1>11

LEMMA LogRename ==
  ASSUME Log!LogAssumption, LogInv, NEW t \in Threads, Log!RenameAndRemove(t)
  PROVE  LogInv'
  <1> DEFINE aa == rolling[1]
             bb == rolling[2]
             L  == m_backup_logs
             e  == Log!Renamed(aa, bb)
             M  == Append(L, bb)
             full == Len(M) > DEFAULT_BACKUP_LOG_COUNT /\ m_value = "DAY"
  <1>1. /\ LogThreads /\ mutex = t /\ stamp[t] = now /\ stamp \in [Threads -> 0 .. now] /\ pc[t] = "rename"
        /\ Log!None \notin Threads
    BY DEF LogInv, Log!RenameAndRemove, LogThreads, Log!LogAssumption
  <1>2. /\ UNCHANGED stamp /\ UNCHANGED <<now, m_value, m_mtTime, fd, files, written, failed>>
        /\ Log!Goto(t, "write") /\ mutex' = Log!None
    BY DEF Log!RenameAndRemove
  <1>3. LogThreads'
    BY <1>1, <1>2, LogGoto DEF LogPlaces
  <1>4. Rolls /\ ~Rolls' /\ ~Dups /\ ~Dups'
    BY <1>1, <1>2 DEF Rolls, Dups
  <1>5. /\ dir' = IF full THEN Log!Without(e, Head(M)) ELSE e
        /\ m_backup_logs' = IF full THEN Tail(M) ELSE M
    BY DEF Log!RenameAndRemove
  <1>6. LogTyped /\ LogRolling /\ LogNamed /\ LogBackups /\ Log!NothingLost
    BY DEF LogInv
  <1>7. PICK x \in 0 .. now : /\ rolling = <<Log!FileName(x, Log!Bare), Log!FileName(x, "bak")>>
                              /\ m_mtTime = now /\ Number(m_value, x) < Number(m_value, now)
    BY <1>4, <1>6 DEF LogRolling
  <1>8. aa = Log!FileName(x, Log!Bare) /\ bb = Log!FileName(x, "bak")
    BY <1>7
  <1>9. /\ now \in Nat /\ x \in Nat /\ m_value \in Kinds /\ files \in Nat /\ L \in Seq(Backs(m_value))
        /\ DEFAULT_BACKUP_LOG_COUNT \in Nat /\ \A w \in written : w.at \in Nat /\ w.at <= now
    BY <1>6 DEF LogTyped, Log!LogAssumption
  <1>10. /\ Number(m_value, x) \in Nat /\ Number(m_value, now) \in Nat
         /\ \A w \in written : Number(m_value, w.at) \in Nat /\ Number(m_value, w.at) <= Number(m_value, now)
    BY <1>9, NumberGrows
  <1>11. Current = Number(m_value, x) /\ Current' = Number(m_value, now)
    <2>1. aa[1] = Log!Period(m_value, x)
      BY <1>8 DEF Log!FileName
    <2>2. NumberOf(m_value, aa) = Number(m_value, x)
      BY <1>9, <2>1, NameNumber
    <2>3. m_mtTime' = now /\ m_value' = m_value
      BY <1>2, <1>7
    <2> QED
      BY <1>4, <2>2, <2>3 DEF Current
  <1>12. bb \in Backs(m_value)
    BY <1>8, <1>9 DEF Backs, Log!FileName
  <1>13. M \in Seq(Backs(m_value)) /\ Len(M) = Len(L) + 1 /\ Len(L) \in Nat /\ M # <<>>
    BY <1>9, <1>12
  <1>14. \A a \in DOMAIN e : e[a] \in 1 .. files
    <2>1. \A a \in DOMAIN dir : dir[a] \in 1 .. files
      BY <1>6 DEF LogTyped
    <2> QED
      BY <2>1 DEF Log!Renamed, Log!Exists
  <1> HIDE DEF aa, bb, L, e, M
  <1>15. LogTyped'
    <2>1. \A a \in DOMAIN dir' : dir'[a] \in 1 .. files
      BY <1>5, <1>14 DEF Log!Without
    <2>2. Tail(M) \in Seq(Backs(m_value)) /\ Len(Tail(M)) = Len(L)
      BY <1>13
    <2>3. m_value = "DAY" => Len(L) <= DEFAULT_BACKUP_LOG_COUNT
      BY <1>6 DEF LogTyped, L
    <2>4. m_backup_logs' \in Seq(Backs(m_value)) /\ (m_value = "DAY" => Len(m_backup_logs') <= DEFAULT_BACKUP_LOG_COUNT)
      BY <1>5, <1>9, <1>13, <2>2, <2>3
    <2> QED
      BY <1>2, <1>6, <2>1, <2>4 DEF LogTyped
  <1>16. CASE failed
    BY <1>2, <1>3, <1>4, <1>15, <1>16 DEF LogInv, LogRolling, LogNamed, LogBackups, Log!NothingLost
  <1>17. CASE ~failed
    <2>1. /\ aa \in DOMAIN dir
          /\ Log!FileName(now, Log!Bare) \in DOMAIN dir /\ dir[Log!FileName(now, Log!Bare)] = fd
      BY <1>4, <1>6, <1>7, <1>17 DEF LogNamed, aa
    <2>2. Kept(dir, L, Number(m_value, x))
      BY <1>6, <1>11, <1>17 DEF Kept, LogNamed, LogBackups, L
    <2>3. Renaming(dir, e, aa, bb)
      <3>1. e = [m \in (DOMAIN dir \ {aa}) \cup {bb} |-> IF m = bb THEN dir[aa] ELSE dir[m]]
        BY <2>1 DEF e, Log!Renamed, Log!Exists
      <3> QED
        BY <2>1, <3>1 DEF Renaming
    <2>4. NoLater(Number(m_value, now))
      BY <1>10 DEF NoLater
    <2>5. /\ Kept(e, M, Number(m_value, now))
          /\ \A a \in DOMAIN dir : \E b \in DOMAIN e : e[b] = dir[a]
          /\ Log!FileName(now, Log!Bare) \in DOMAIN e /\ e[Log!FileName(now, Log!Bare)] = fd
      <3>1. /\ L \in Seq(Backs(m_value)) /\ m_value \in Kinds /\ x \in Nat /\ now \in Nat
            /\ Number(m_value, now) \in Nat /\ Number(m_value, x) < Number(m_value, now)
        BY <1>7, <1>9, <1>10
      <3>2. /\ Kept(e, Append(L, bb), Number(m_value, now))
            /\ \A a \in DOMAIN dir : \E b \in DOMAIN e : e[b] = dir[a]
            /\ \A y \in Nat : Number(m_value, y) = Number(m_value, now) /\ Log!FileName(y, Log!Bare) \in DOMAIN dir
                              => Log!FileName(y, Log!Bare) \in DOMAIN e /\ e[Log!FileName(y, Log!Bare)] = dir[Log!FileName(y, Log!Bare)]
        BY <1>8, <2>2, <2>3, <2>4, <3>1, LogRenamed
      <3> QED
        BY <2>1, <3>1, <3>2 DEF M
    <2>6. /\ Kept(dir', m_backup_logs', Number(m_value, now))
          /\ Log!FileName(now, Log!Bare) \in DOMAIN dir' /\ dir'[Log!FileName(now, Log!Bare)] = fd
          /\ \A w \in written : \A a \in DOMAIN e :
               e[a] = w.file => \/ \E b \in DOMAIN dir' : dir'[b] = w.file
                                \/ m_value = "DAY" /\ Number(m_value, now) >= Number(m_value, w.at) + DEFAULT_BACKUP_LOG_COUNT
      <3>1. CASE ~full
        BY <1>5, <2>5, <3>1
      <3>2. CASE full
        <4>1. dir' = Log!Without(e, Head(M)) /\ m_backup_logs' = Tail(M) /\ Len(M) - 1 >= DEFAULT_BACKUP_LOG_COUNT
          BY <1>5, <1>9, <1>13, <3>2
        <4>2. PICK g, c : g = dir' /\ c = Number(m_value, now)
          OBVIOUS
        <4>3. /\ g = Log!Without(e, Head(M)) /\ Kept(e, M, c) /\ c \in Nat /\ \A w \in written : w.at \in Nat
          BY <1>9, <1>10, <2>5, <4>1, <4>2
        <4>4. /\ Kept(g, Tail(M), c)
              /\ \A a \in DOMAIN e : a[2] # "bak" => a \in DOMAIN g /\ g[a] = e[a]
              /\ \A w \in written : \A a \in DOMAIN e :
                   e[a] = w.file => \/ \E b \in DOMAIN g : g[b] = w.file
                                    \/ c >= Number(m_value, w.at) + Len(M) - 1
          BY <1>9, <1>13, <4>3, LogRemoved
        <4>5. Log!FileName(now, Log!Bare)[2] # "bak"
          BY BareNoBack DEF Log!FileName
        <4>6. Log!FileName(now, Log!Bare) \in DOMAIN dir' /\ dir'[Log!FileName(now, Log!Bare)] = fd
          BY <2>5, <4>2, <4>4, <4>5
        <4>7. ASSUME NEW w \in written, c >= Number(m_value, w.at) + Len(M) - 1
              PROVE  c >= Number(m_value, w.at) + DEFAULT_BACKUP_LOG_COUNT
          <5>1. Number(m_value, w.at) \in Nat
            BY <1>10
          <5> QED
            BY ONLY <1>9, <1>13, <4>1, <4>3, <4>7, <5>1
        <4>8. ASSUME NEW w \in written, NEW a \in DOMAIN e, e[a] = w.file
              PROVE  \/ \E b \in DOMAIN dir' : dir'[b] = w.file
                     \/ m_value = "DAY" /\ Number(m_value, now) >= Number(m_value, w.at) + DEFAULT_BACKUP_LOG_COUNT
          BY <3>2, <4>2, <4>4, <4>7, <4>8
        <4> QED
          BY <4>1, <4>2, <4>4, <4>6, <4>8
      <3> QED
        BY <3>1, <3>2
    <2>7. LogNamed' /\ LogBackups'
      <3>1. PICK g, K, c : g = dir' /\ K = m_backup_logs' /\ c = Number(m_value, now)
        OBVIOUS
      <3>2. /\ Kept(g, K, c) /\ Log!FileName(now, Log!Bare) \in DOMAIN g /\ g[Log!FileName(now, Log!Bare)] = fd /\ Current' = c
            /\ m_mtTime' = now /\ m_value' = m_value /\ written' = written /\ fd' = fd
        BY <1>2, <1>7, <1>11, <2>6, <3>1
      <3>3. LogNamed'
        BY <1>4, <3>1, <3>2 DEF LogNamed, Kept, Log!FileName
      <3>4. LogBackups'
        BY <3>1, <3>2 DEF LogBackups, Kept
      <3> QED
        BY <3>3, <3>4
    <2>8. Log!NothingLost'
      <3>1. SUFFICES ASSUME NEW w \in written
                     PROVE  \/ \E a \in DOMAIN dir' : dir'[a] = w.file
                            \/ m_value = "DAY" /\ Log!DayOf(m_mtTime) - Log!DayOf(w.at) >= DEFAULT_BACKUP_LOG_COUNT
        BY <1>2 DEF Log!NothingLost, Log!DayOf, Log!HourOf
      <3>2. CASE \E a \in DOMAIN dir : dir[a] = w.file
        <4>1. PICK a \in DOMAIN e : e[a] = w.file
          BY <2>5, <3>2
        <4>2. CASE m_value = "DAY" /\ Number(m_value, now) >= Number(m_value, w.at) + DEFAULT_BACKUP_LOG_COUNT
          <5>1. Number(m_value, now) = Log!DayOf(m_mtTime) /\ Number(m_value, w.at) = Log!DayOf(w.at)
            BY <1>7, <4>2 DEF Number
          <5>2. Number(m_value, now) - Number(m_value, w.at) >= DEFAULT_BACKUP_LOG_COUNT
            BY <1>9, <1>10, <4>2
          <5> QED
            BY <4>2, <5>1, <5>2
        <4> QED
          BY <2>6, <4>1, <4>2
      <3>3. CASE m_value = "DAY" /\ Log!DayOf(m_mtTime) - Log!DayOf(w.at) >= DEFAULT_BACKUP_LOG_COUNT
        BY <3>3
      <3> QED
        BY <1>6, <1>17, <3>2, <3>3 DEF Log!NothingLost
    <2> QED
      BY <1>3, <1>4, <1>15, <2>7, <2>8 DEF LogInv, LogRolling
  <1> QED
    BY <1>16, <1>17

LEMMA LogWrite ==
  ASSUME Log!LogAssumption, LogInv, NEW t \in Threads, Log!Write(t)
  PROVE  LogInv'
  <1>1. /\ LogThreads /\ mutex # t /\ stamp[t] = now /\ stamp \in [Threads -> 0 .. now] /\ now \in Nat
        /\ mutex \in Threads \cup {Log!None}
    BY DEF LogInv, Log!Write, LogThreads, LogTyped
  <1>2. /\ stamp' = [stamp EXCEPT ![t] = 0] /\ Log!Goto(t, "idle") /\ pc' = [pc EXCEPT ![t] = "idle"] /\ UNCHANGED mutex
        /\ UNCHANGED <<now, m_value, m_mtTime, m_backup_logs, rolling, fd, dir, files, failed>>
    BY DEF Log!Write, Log!Goto, Log!state, Log!strategy
  <1>3. PICK v : /\ written' = written \cup {v} /\ v = [id |-> Log!Cardinality(written), at |-> stamp[t], file |-> fd]
    BY DEF Log!Write
  <1>4. v.at = now /\ v.file = fd
    BY <1>1, <1>3
  <1>5. LogThreads'
    <2>1. 0 \in 0 .. now
      BY <1>1
    <2>2. stamp' \in [Threads -> 0 .. now] /\ \A u \in Threads : u # t => stamp'[u] = stamp[u]
      BY <1>1, <1>2, <2>1
    <2> QED
      BY <1>1, <1>2, <2>2, LogGoto DEF LogPlaces
  <1>6. (Rolls' <=> Rolls) /\ (Dups' <=> Dups)
    BY <1>1, <1>2, LogSame
  <1>7. LogTyped /\ LogRolling /\ LogNamed /\ LogBackups /\ Log!NothingLost
    BY DEF LogInv
  <1>8. Current' = Current
    BY <1>2, <1>6 DEF Current
  <1>9. LogTyped'
    <2>1. now \in 0 .. now /\ fd \in 1 .. files
      BY <1>1, <1>7 DEF LogTyped
    <2>2. \A w \in written' : w.at \in 0 .. now /\ w.file \in 1 .. files
      BY <1>3, <1>4, <1>7, <2>1 DEF LogTyped
    <2> QED
      BY <1>2, <1>7, <2>2 DEF LogTyped
  <1>10. LogRolling' /\ LogNamed'
    BY <1>2, <1>6, <1>7, <1>8 DEF LogRolling, LogNamed, Log!FileName
  <1>11. ASSUME ~failed PROVE \E a \in DOMAIN dir : dir[a] = fd /\ a[2] # "bak"
    <2>1. CASE Dups
      <3>1. rolling[1] \in DOMAIN dir /\ dir[rolling[1]] = fd
        BY <1>7, <1>11, <2>1 DEF LogNamed
      <3>2. PICK x : rolling = <<Log!FileName(x, Log!Bare), Log!FileName(x, "bak")>>
        BY <1>7, <2>1 DEF LogRolling, Rolls, Dups
      <3>3. rolling[1][2] = Log!Bare
        BY <3>2 DEF Log!FileName
      <3> QED
        BY <3>1, <3>3, BareNoBack
    <2>2. CASE ~Dups
      <3>1. Log!FileName(m_mtTime, Log!Bare) \in DOMAIN dir /\ dir[Log!FileName(m_mtTime, Log!Bare)] = fd
        BY <1>7, <1>11, <2>2 DEF LogNamed
      <3>2. Log!FileName(m_mtTime, Log!Bare)[2] = Log!Bare
        BY DEF Log!FileName
      <3> QED
        BY <3>1, <3>2, BareNoBack
    <2> QED
      BY <2>1, <2>2
  <1>12. LogBackups'
    <2>1. SUFFICES ASSUME ~failed PROVE LogBackups'
      BY <1>2 DEF LogBackups
    <2>2. PICK a \in DOMAIN dir : dir[a] = fd /\ a[2] # "bak"
      BY <1>11, <2>1
    <2>3. ASSUME NEW p \in 1 .. Len(m_backup_logs) PROVE dir[m_backup_logs[p]] # fd
      <3>1. m_backup_logs[p] \in Backs(m_value) /\ m_value \in Kinds
        BY <1>7 DEF LogTyped
      <3>2. m_backup_logs[p][2] = "bak"
        BY <3>1 DEF Backs
      <3>3. m_backup_logs[p] \in DOMAIN dir /\ \A b, c \in DOMAIN dir : dir[b] = dir[c] => b = c
        BY <1>7, <2>1 DEF LogBackups, LogNamed
      <3> QED
        BY <2>2, <3>2, <3>3
    <2> QED
      BY <1>2, <1>3, <1>4, <1>7, <1>8, <2>1, <2>3 DEF LogBackups
  <1>13. Log!NothingLost'
    <2>1. SUFFICES ASSUME ~failed, NEW w \in written'
                   PROVE  \/ \E a \in DOMAIN dir : dir[a] = w.file
                          \/ m_value = "DAY" /\ Log!DayOf(m_mtTime) - Log!DayOf(w.at) >= DEFAULT_BACKUP_LOG_COUNT
      BY <1>2 DEF Log!NothingLost, Log!DayOf, Log!HourOf
    <2>2. CASE w = v
      BY <1>4, <1>11, <2>1, <2>2
    <2>3. CASE w \in written
      BY <1>7, <2>1, <2>3 DEF Log!NothingLost
    <2> QED
      BY <1>3, <2>2, <2>3
  <1> QED
    BY <1>5, <1>9, <1>10, <1>12, <1>13 DEF LogInv

LEMMA LogTick ==
  ASSUME Log!LogAssumption, Delays = FALSE, LogInv, Log!Tick
  PROVE  LogInv'
  <1>1. /\ LogThreads /\ now \in Nat /\ MaxTime \in Nat /\ \A t \in Threads : pc[t] = "idle"
        /\ now < MaxTime /\ now' = now + 1
    BY DEF LogInv, LogTyped, Log!Tick, Log!LogAssumption
  <1>2. UNCHANGED <<m_value, m_mtTime, m_backup_logs, mutex, pc, stamp, rolling, fd, dir, files, written, failed>>
    BY DEF Log!Tick, Log!state, Log!strategy, Log!disk
  <1>3. mutex = Log!None
    BY <1>1 DEF LogThreads
  <1>4. ~Rolls /\ ~Rolls' /\ ~Dups /\ ~Dups'
    BY <1>2, <1>3 DEF Rolls, Dups
  <1>5. LogTyped /\ LogNamed /\ LogBackups /\ Log!NothingLost
    BY DEF LogInv
  <1>6. \A v : v \in 0 .. now => v \in 0 .. now'
    BY <1>1
  <1>7. LogTyped'
    <2>1. now' \in 0 .. MaxTime
      BY <1>1
    <2> QED
      BY <1>2, <1>5, <1>6, <2>1 DEF LogTyped
  <1>8. LogThreads'
    <2>1. stamp \in [Threads -> 0 .. now']
      BY <1>1, <1>6 DEF LogThreads
    <2> QED
      BY <1>1, <1>2, <2>1 DEF LogThreads
  <1>9. Current' = Current
    BY <1>2, <1>4 DEF Current
  <1>10. LogNamed'
    BY <1>2, <1>4, <1>5, <1>9 DEF LogNamed, Log!FileName
  <1>11. LogBackups' /\ Log!NothingLost'
    BY <1>2, <1>5, <1>9 DEF LogBackups, Log!NothingLost
  <1> QED
    BY <1>4, <1>7, <1>8, <1>10, <1>11 DEF LogInv, LogRolling

LEMMA LogRestart ==
  ASSUME Log!LogAssumption, LogInv, Log!Restart
  PROVE  LogInv'
  <1>1. /\ m_mtTime' = now /\ mutex' = Log!None /\ UNCHANGED <<now, m_value, written, failed>>
        /\ Log!OpenFile(Log!FileName(now, Log!Bare)) /\ m_backup_logs' = <<>>
    BY DEF Log!Restart
  <1>2. pc' = [t \in Threads |-> "idle"] /\ stamp' = [t \in Threads |-> 0]
    BY DEF Log!Restart
  <1>3. LogTyped /\ LogRolling /\ LogNamed /\ Log!NothingLost
    BY DEF LogInv
  <1>4. /\ now \in Nat /\ m_mtTime \in Nat /\ m_mtTime <= now /\ Log!None \notin Threads /\ m_value \in Kinds
        /\ DEFAULT_BACKUP_LOG_COUNT \in Nat
    BY <1>3 DEF LogTyped, Log!LogAssumption
  <1>5. PICK nm : nm = Log!FileName(now, Log!Bare)
    OBVIOUS
  <1>6. /\ DOMAIN dir' = DOMAIN dir \cup {nm} /\ dir'[nm] = fd'
        /\ \A a \in DOMAIN dir : dir'[a] = dir[a]
        /\ files' \in Nat /\ files <= files' /\ fd' \in 1 .. files' /\ \A a \in DOMAIN dir' : dir'[a] \in 1 .. files'
        /\ (\A a, b \in DOMAIN dir : dir[a] = dir[b] => a = b)
             => (\A a, b \in DOMAIN dir' : dir'[a] = dir'[b] => a = b)
    BY <1>1, <1>3, <1>5, LogOpen
  <1>7. ~Rolls' /\ ~Dups'
    BY <1>1 DEF Rolls, Dups
  <1>8. LogThreads'
    <2>1. pc' \in [Threads -> LogPlaces]
      BY <1>2 DEF LogPlaces
    <2>2. stamp' \in [Threads -> 0 .. now']
      BY <1>1, <1>2, <1>4
    <2>3. \A t \in Threads : pc'[t] = "idle" /\ mutex' # t
      BY <1>1, <1>2, <1>4
    <2> QED
      BY <1>1, <2>1, <2>2, <2>3 DEF LogThreads
  <1>9. /\ m_backup_logs' \in Seq(Backs(m_value)) /\ Len(m_backup_logs') <= DEFAULT_BACKUP_LOG_COUNT
        /\ 1 .. Len(m_backup_logs') = {}
    BY <1>1, <1>4
  <1>10. LogTyped'
    <2>1. m_mtTime' \in 0 .. now
      BY <1>1, <1>4
    <2>2. \A w \in written : w.file \in 1 .. files'
      BY <1>3, <1>6 DEF LogTyped
    <2> QED
      BY <1>1, <1>3, <1>6, <1>9, <2>1, <2>2 DEF LogTyped
  <1>11. Current' = Number(m_value, now)
    BY <1>1, <1>7 DEF Current
  <1>12. Current <= Number(m_value, now) /\ Number(m_value, now) \in Nat /\ Current \in Nat
    <2>1. CASE Rolls
      <3>1. PICK x \in 0 .. now : rolling = <<Log!FileName(x, Log!Bare), Log!FileName(x, "bak")>>
        BY <1>3, <2>1 DEF LogRolling
      <3>2. x \in Nat /\ x <= now /\ rolling[1][1] = Log!Period(m_value, x)
        BY <1>4, <3>1 DEF Log!FileName
      <3>3. NumberOf(m_value, rolling[1]) = Number(m_value, x)
        BY <1>4, <3>2, NameNumber
      <3>4. Number(m_value, x) <= Number(m_value, now) /\ Number(m_value, x) \in Nat /\ Number(m_value, now) \in Nat
        BY <1>4, <3>2, NumberGrows
      <3> QED
        BY <2>1, <3>3, <3>4 DEF Current
    <2>2. CASE ~Rolls
      <3>1. /\ Number(m_value, m_mtTime) <= Number(m_value, now) /\ Number(m_value, m_mtTime) \in Nat
            /\ Number(m_value, now) \in Nat
        BY <1>4, NumberGrows
      <3> QED
        BY <2>2, <3>1 DEF Current
    <2> QED
      BY <2>1, <2>2
  <1>13. LogNamed'
    <2>1. SUFFICES ASSUME ~failed PROVE LogNamed'
      BY <1>1 DEF LogNamed
    <2>2. /\ \A a, b \in DOMAIN dir : dir[a] = dir[b] => a = b
          /\ \A x \in Nat : Log!FileName(x, "bak") \in DOMAIN dir => Number(m_value, x) < Current
      BY <1>3, <2>1 DEF LogNamed
    <2>3. \A x : Log!FileName(x, "bak") # nm
      BY <1>5, BareNoBack DEF Log!FileName
    <2>4. ASSUME NEW x \in Nat, Log!FileName(x, "bak") \in DOMAIN dir' PROVE Number(m_value, x) < Number(m_value, now)
      <3>1. Log!FileName(x, "bak") \in DOMAIN dir
        BY <1>6, <2>3, <2>4
      <3>2. Number(m_value, x) < Current /\ Number(m_value, x) \in Nat
        BY <2>2, <3>1, NumberGrows
      <3> QED
        BY <1>12, <3>2
    <2>5. \A a, b \in DOMAIN dir' : dir'[a] = dir'[b] => a = b
      BY <1>6, <2>2
    <2>6. Log!FileName(m_mtTime, Log!Bare)' = nm /\ \A x : Log!FileName(x, "bak")' = Log!FileName(x, "bak")
      BY <1>1, <1>5 DEF Log!FileName
    <2>7. m_value' = m_value /\ nm \in DOMAIN dir'
      BY <1>1, <1>6
    <2>8. \A x \in Nat : Log!FileName(x, "bak")' \in DOMAIN dir' => Number(m_value', x) < Current'
      BY <1>11, <2>4, <2>6, <2>7
    <2> QED
      BY <1>6, <1>7, <2>5, <2>6, <2>7, <2>8 DEF LogNamed
  <1>14. LogBackups'
    BY <1>9 DEF LogBackups
  <1>15. Log!NothingLost'
    <2>1. \A a \in DOMAIN dir : \E b \in DOMAIN dir' : dir'[b] = dir[a]
      BY <1>6
    <2> QED
      BY <1>1, <1>3, <1>4, <2>1, LogLater
  <1> QED
    BY <1>7, <1>8, <1>10, <1>13, <1>14, <1>15 DEF LogInv, LogRolling

LEMMA LogNext ==
  ASSUME Log!LogAssumption, Delays = FALSE, LogInv, [Log!Next]_Log!lfVars
  PROVE  LogInv'
  <1>1. ASSUME NEW t \in Threads, Log!WriteLog(t) \/ Log!Step(t) PROVE LogInv'
    BY <1>1, LogWriteLog, LogLook, LogLockMutex, LogDoRollback, LogDup2, LogRename, LogWrite DEF Log!Step
  <1>2. CASE UNCHANGED Log!lfVars
    <2>1. /\ UNCHANGED <<pc, stamp, mutex>>
          /\ UNCHANGED <<now, m_value, m_mtTime, m_backup_logs, rolling, fd, dir, files, written, failed>>
      BY <1>2 DEF Log!lfVars
    <2>2. (Rolls' <=> Rolls) /\ (Dups' <=> Dups)
      BY <2>1 DEF Rolls, Dups
    <2>3. LogThreads'
      BY <2>1 DEF LogInv, LogThreads
    <2> QED
      BY <2>1, <2>2, <2>3, LogFrame
  <1> QED
    BY <1>1, <1>2, LogTick, LogRestart DEF Log!Next

\* What LogInv says.
LEMMA LogExact ==
  ASSUME Log!LogAssumption, LogInv
  PROVE  Log!TypeOK /\ Log!OpenFileNamed /\ Log!KeepsBackups /\ Log!NothingLost
  <1>1. LogTyped /\ LogThreads /\ LogNamed /\ LogBackups /\ Log!NothingLost
    BY DEF LogInv
  <1>2. now \in Nat /\ MaxTime \in Nat /\ now <= MaxTime
    BY <1>1 DEF LogTyped, Log!LogAssumption
  <1>3. \A v : v \in 0 .. now => v \in 0 .. MaxTime
    BY <1>2
  <1>4. Log!TypeOK
    <2>1. stamp \in [Threads -> 0 .. MaxTime]
      BY <1>1, <1>3 DEF LogThreads
    <2> QED
      BY <1>1, <1>3, <2>1 DEF LogTyped, LogThreads, LogPlaces, Log!TypeOK
  <1>5. Log!OpenFileNamed
    <2>1. mutex = Log!None => ~Dups
      BY DEF Dups
    <2> QED
      BY <1>1, <2>1 DEF LogNamed, Log!OpenFileNamed, Log!Exists
  <1>6. Log!KeepsBackups
    BY <1>1 DEF LogTyped, LogBackups, Log!KeepsBackups, Log!Exists
  <1> QED
    BY <1>1, <1>4, <1>5, <1>6

-----------------------------------------------------------------------------
(* LogFile, by one thread *)

\* With these types, two times have the same name exactly when they are of the same
\* day, hour or ten minutes.
LEMMA PeriodCalled ==
  ASSUME KindsLog!LogAssumption, NEW k \in {"DAY", "HOUR", "10MIN"}, NEW x \in Nat, NEW y \in Nat,
         KindsLog!Period(k, x) = KindsLog!Period(k, y)
  PROVE  KindsLog!Called(k, x) = KindsLog!Called(k, y)
  <1>1. KindTens \in Nat \ {0} /\ KindHours \in Nat \ {0}
    BY DEF KindsLog!LogAssumption
  <1>2. /\ KindsLog!HourOf(x) \in Nat /\ x = KindTens * KindsLog!HourOf(x) + (x % KindTens)
        /\ KindsLog!HourOf(y) \in Nat /\ y = KindTens * KindsLog!HourOf(y) + (y % KindTens)
    BY <1>1, Divided DEF KindsLog!HourOf
  <1>3. /\ KindsLog!HourOf(x) = KindHours * KindsLog!DayOf(x) + (KindsLog!HourOf(x) % KindHours)
        /\ KindsLog!HourOf(y) = KindHours * KindsLog!DayOf(y) + (KindsLog!HourOf(y) % KindHours)
    BY <1>1, <1>2, Divided DEF KindsLog!DayOf
  <1>4. CASE k = "DAY"
    BY <1>4 DEF KindsLog!Period, KindsLog!Called
  <1>5. KindsLog!DayOf(x) = KindsLog!DayOf(y) /\ KindsLog!HourOf(x) % KindHours = KindsLog!HourOf(y) % KindHours
          => KindsLog!HourOf(x) = KindsLog!HourOf(y)
    BY <1>3, Zenon
  <1>6. CASE k = "HOUR"
    BY <1>5, <1>6 DEF KindsLog!Period, KindsLog!Called
  <1>7. CASE k = "10MIN"
    <2>1. KindsLog!HourOf(x) = KindsLog!HourOf(y) /\ x % KindTens = y % KindTens
      BY <1>5, <1>7 DEF KindsLog!Period
    <2>2. x = y
      BY <1>2, <2>1, Zenon
    <2> QED
      BY <2>2
  <1> QED
    BY <1>4, <1>6, <1>7

\* The types that matter, and that a message that is begun has the time of now.
KindBacks(k) == {<<KindsLog!Period(k, x), "bak">> : x \in Nat}
KindTyped == /\ now \in Nat /\ m_mtTime \in Nat /\ m_value \in {"DAY", "HOUR", "10MIN"}
             /\ files \in Nat /\ fd \in 1 .. files /\ \A a \in DOMAIN dir : dir[a] \in 1 .. files
             /\ \A w \in written : w.at \in Nat /\ w.file \in 1 .. files
             /\ m_backup_logs \in Seq(KindBacks(m_value))
             /\ pc \in [{Writer} -> LogPlaces] /\ stamp \in [{Writer} -> Nat]
             /\ pc[Writer] # "idle" => stamp[Writer] = now

\* The place of the one thread.
Place == pc[Writer]

\* A message is written to a file of its period; a roll over goes to another one.
KindTurns == /\ Place = "write" => KindsLog!Period(m_value, now) = KindsLog!Period(m_value, m_mtTime)
             /\ Place \in {"dup", "rename"} =>
                  /\ m_mtTime = now
                  /\ \E x \in Nat :
                       /\ rolling = <<KindsLog!FileName(x, KindsLog!Bare), KindsLog!FileName(x, "bak")>>
                       /\ KindsLog!Period(m_value, x) # KindsLog!Period(m_value, now)

\* The open file is under the name of its period, files have the names of one period
\* only, and the messages of a file are of the period of its name.
KindNames == ~failed =>
    /\ IF Place = "dup" THEN rolling[1] \in DOMAIN dir /\ dir[rolling[1]] = fd
       ELSE /\ KindsLog!FileName(m_mtTime, KindsLog!Bare) \in DOMAIN dir
            /\ dir[KindsLog!FileName(m_mtTime, KindsLog!Bare)] = fd
    /\ \A a, b \in DOMAIN dir : dir[a] = dir[b] => a[1] = b[1]
    /\ \A w \in written : \A a \in DOMAIN dir : dir[a] = w.file => a[1] = KindsLog!Period(m_value, w.at)

KindInv == KindTyped /\ KindTurns /\ KindNames /\ KindsLog!FilesOfOnePeriod

LEMMA KindInit == ASSUME KindsLog!LogAssumption, KindsLog!Init PROVE KindInv
  <1>1. PICK nm : nm = KindsLog!FileName(0, KindsLog!Bare)
    OBVIOUS
  <1>2. /\ now = 0 /\ m_mtTime = 0 /\ fd = 1 /\ files = 1 /\ written = {} /\ m_backup_logs = <<>>
        /\ m_value \in {"DAY", "HOUR", "10MIN"}
        /\ pc = [t \in {Writer} |-> "idle"] /\ stamp = [t \in {Writer} |-> 0]
    BY DEF KindsLog!Init
  <1>3. dir = [a \in {nm} |-> 1]
    BY <1>1 DEF KindsLog!Init
  <1>4. DOMAIN dir = {nm} /\ dir[nm] = 1
    BY <1>3
  <1>5. KindTyped
    <2>1. pc \in [{Writer} -> LogPlaces] /\ stamp \in [{Writer} -> Nat] /\ pc[Writer] = "idle"
      BY <1>2 DEF LogPlaces
    <2>2. m_backup_logs \in Seq(KindBacks(m_value))
      BY <1>2
    <2>3. fd \in 1 .. files /\ \A a \in DOMAIN dir : dir[a] \in 1 .. files
      BY <1>2, <1>4
    <2> QED
      BY <1>2, <2>1, <2>2, <2>3 DEF KindTyped
  <1>6. Place = "idle"
    BY <1>2 DEF Place
  <1>7. KindTurns
    BY <1>6 DEF KindTurns
  <1>8. KindNames
    BY <1>1, <1>2, <1>4, <1>6 DEF KindNames
  <1> QED
    BY <1>2, <1>5, <1>7, <1>8 DEF KindInv, KindsLog!FilesOfOnePeriod

\* A step of the thread that the log does not notice.
LEMMA KindFrame ==
  ASSUME KindInv, NEW s \in LogPlaces, pc' = [pc EXCEPT ![Writer] = s],
         stamp' \in [{Writer} -> Nat], s # "idle" => stamp'[Writer] = now,
         Place \notin {"dup", "rename"}, s \notin {"dup", "rename"},
         s = "write" => KindsLog!Period(m_value, now) = KindsLog!Period(m_value, m_mtTime),
         UNCHANGED <<now, m_value, m_mtTime, m_backup_logs, fd, dir, files, written, failed>>
  PROVE  KindInv'
  <1>1. /\ pc' \in [{Writer} -> LogPlaces] /\ pc'[Writer] = s /\ Place' = s
    BY DEF KindInv, KindTyped, Place
  <1>2. KindTyped'
    BY <1>1 DEF KindInv, KindTyped
  <1>3. KindTurns'
    BY <1>1 DEF KindTurns
  <1>4. KindNames'
    BY <1>1 DEF KindInv, KindNames, KindsLog!FileName
  <1>5. KindsLog!FilesOfOnePeriod'
    BY DEF KindInv, KindsLog!FilesOfOnePeriod
  <1> QED
    BY <1>2, <1>3, <1>4, <1>5 DEF KindInv

\* open: a file that is new has no message yet, nor another name.
LEMMA KindOpen ==
  ASSUME KindInv, NEW nm, KindsLog!OpenFile(nm), UNCHANGED <<m_value, written, failed>>
  PROVE  /\ DOMAIN dir' = DOMAIN dir \cup {nm} /\ dir'[nm] = fd' /\ \A a \in DOMAIN dir : dir'[a] = dir[a]
         /\ files' \in Nat /\ files <= files' /\ fd' \in 1 .. files' /\ \A a \in DOMAIN dir' : dir'[a] \in 1 .. files'
         /\ ~failed =>
              /\ \A a, b \in DOMAIN dir' : dir'[a] = dir'[b] => a[1] = b[1]
              /\ \A w \in written : \A a \in DOMAIN dir' :
                   dir'[a] = w.file => a[1] = KindsLog!Period(m_value, w.at)
         /\ KindsLog!FilesOfOnePeriod'
  <1>1. /\ files \in Nat /\ \A a \in DOMAIN dir : dir[a] \in 1 .. files
        /\ \A w \in written : w.file \in 1 .. files
    BY DEF KindInv, KindTyped
  <1>2. ~failed =>
           /\ \A a, b \in DOMAIN dir : dir[a] = dir[b] => a[1] = b[1]
           /\ \A w \in written : \A a \in DOMAIN dir : dir[a] = w.file => a[1] = KindsLog!Period(m_value, w.at)
    BY DEF KindInv, KindNames
  <1>3. KindsLog!FilesOfOnePeriod'
    BY DEF KindInv, KindsLog!FilesOfOnePeriod
  <1>4. CASE nm \in DOMAIN dir
    <2>1. /\ files' = files /\ fd' = dir[nm] /\ DOMAIN dir' = DOMAIN dir
          /\ \A a \in DOMAIN dir : dir'[a] = dir[a]
      BY <1>4 DEF KindsLog!OpenFile, KindsLog!Exists
    <2> QED
      BY <1>1, <1>2, <1>3, <1>4, <2>1
  <1>5. CASE nm \notin DOMAIN dir
    <2>1. /\ files' = files + 1 /\ fd' = files + 1 /\ DOMAIN dir' = DOMAIN dir \cup {nm}
          /\ \A a \in DOMAIN dir : dir'[a] = dir[a]
          /\ dir'[nm] = files + 1
      BY <1>5 DEF KindsLog!OpenFile, KindsLog!Exists
    <2>2. /\ \A a \in DOMAIN dir : dir[a] # files + 1
          /\ \A w \in written : w.file # files + 1
      BY <1>1
    <2>3. files' \in Nat /\ files <= files' /\ fd' \in 1 .. files' /\ \A a \in DOMAIN dir' : dir'[a] \in 1 .. files'
      BY <1>1, <2>1
    <2> QED
      BY <1>2, <1>3, <2>1, <2>2, <2>3
  <1> QED
    BY <1>4, <1>5

LEMMA KindDoRollback ==
  ASSUME KindsLog!LogAssumption, KindInv, KindsLog!DoRollback(Writer)
  PROVE  KindInv'
  <1>1. KindTyped /\ stamp[Writer] = now /\ Place = "second" /\ now \in Nat /\ m_mtTime \in Nat
    BY DEF KindInv, KindTyped, KindsLog!DoRollback, Place
  <1>2. UNCHANGED <<stamp, now, m_value, m_backup_logs, fd, dir, files, written, failed>>
    BY DEF KindsLog!DoRollback, KindsLog!disk
  <1>3. CASE ~KindsLog!NeedRollback(now)
    <2>1. pc' = [pc EXCEPT ![Writer] = "write"] /\ UNCHANGED m_mtTime
      BY <1>1, <1>3 DEF KindsLog!DoRollback, KindsLog!Goto
    <2>2. KindsLog!Period(m_value, now) = KindsLog!Period(m_value, m_mtTime)
      BY <1>3 DEF KindsLog!NeedRollback
    <2>3. stamp' \in [{Writer} -> Nat] /\ stamp'[Writer] = now
      BY <1>1, <1>2 DEF KindTyped
    <2> QED
      BY <1>1, <1>2, <2>1, <2>2, <2>3, KindFrame DEF LogPlaces
  <1>4. CASE KindsLog!NeedRollback(now)
    <2>1. /\ rolling' = <<KindsLog!FileName(m_mtTime, KindsLog!Bare), KindsLog!FileName(m_mtTime, "bak")>>
          /\ m_mtTime' = now /\ pc' = [pc EXCEPT ![Writer] = "dup"]
      BY <1>1, <1>4 DEF KindsLog!DoRollback, KindsLog!Goto
    <2>2. pc' \in [{Writer} -> LogPlaces] /\ pc'[Writer] = "dup" /\ Place' = "dup"
      BY <1>1, <2>1 DEF KindTyped, Place, LogPlaces
    <2>3. KindTyped'
      BY <1>1, <1>2, <2>1, <2>2 DEF KindTyped
    <2>4. KindTurns'
      BY <1>1, <1>2, <1>4, <2>1, <2>2 DEF KindTurns, KindsLog!NeedRollback, KindsLog!FileName
    <2>5. KindNames'
      BY <1>1, <1>2, <2>1, <2>2 DEF KindInv, KindNames, KindsLog!FileName
    <2>6. KindsLog!FilesOfOnePeriod'
      BY <1>2 DEF KindInv, KindsLog!FilesOfOnePeriod
    <2> QED
      BY <2>3, <2>4, <2>5, <2>6 DEF KindInv
  <1> QED
    BY <1>3, <1>4

LEMMA KindDup2 ==
  ASSUME KindsLog!LogAssumption, KindInv, KindsLog!Dup2(Writer)
  PROVE  KindInv'
  <1>1. KindTyped /\ stamp[Writer] = now /\ Place = "dup" /\ KindTurns
    BY DEF KindInv, KindTyped, KindsLog!Dup2, Place
  <1>2. /\ UNCHANGED <<stamp, now, m_value, m_mtTime, m_backup_logs, rolling, written>>
        /\ pc' = [pc EXCEPT ![Writer] = "rename"]
    BY DEF KindsLog!Dup2, KindsLog!state, KindsLog!strategy, KindsLog!Goto
  <1>3. pc' \in [{Writer} -> LogPlaces] /\ pc'[Writer] = "rename" /\ Place' = "rename"
    BY <1>1, <1>2 DEF KindTyped, Place, LogPlaces
  <1>4. KindTurns'
    BY <1>1, <1>2, <1>3 DEF KindTurns, KindsLog!FileName
  <1>5. CASE KindsLog!OpenFile(KindsLog!FileName(m_mtTime, KindsLog!Bare)) /\ UNCHANGED failed
    <2>1. PICK nm : nm = KindsLog!FileName(m_mtTime, KindsLog!Bare)
      OBVIOUS
    <2>2. /\ DOMAIN dir' = DOMAIN dir \cup {nm} /\ dir'[nm] = fd'
          /\ files' \in Nat /\ files <= files' /\ fd' \in 1 .. files' /\ \A a \in DOMAIN dir' : dir'[a] \in 1 .. files'
          /\ ~failed =>
               /\ \A a, b \in DOMAIN dir' : dir'[a] = dir'[b] => a[1] = b[1]
               /\ \A w \in written : \A a \in DOMAIN dir' :
                    dir'[a] = w.file => a[1] = KindsLog!Period(m_value, w.at)
          /\ KindsLog!FilesOfOnePeriod'
      BY <1>2, <1>5, <2>1, KindOpen
    <2>3. \A w \in written : w.file \in 1 .. files'
      BY <1>1, <2>2 DEF KindTyped
    <2>4. KindTyped'
      BY <1>1, <1>2, <1>3, <2>2, <2>3 DEF KindTyped
    <2>5. KindsLog!FileName(m_mtTime, KindsLog!Bare)' = nm
      BY <1>2, <2>1 DEF KindsLog!FileName
    <2>6. KindNames'
      BY <1>2, <1>3, <1>5, <2>2, <2>5 DEF KindNames
    <2> QED
      BY <1>4, <2>2, <2>4, <2>6 DEF KindInv
  <1>6. CASE failed' = TRUE /\ UNCHANGED <<fd, dir, files>>
    <2>1. KindTyped'
      BY <1>1, <1>2, <1>3, <1>6 DEF KindTyped
    <2> QED
      BY <1>4, <1>6, <2>1 DEF KindInv, KindNames, KindsLog!FilesOfOnePeriod
  <1> QED
    BY <1>5, <1>6 DEF KindsLog!Dup2

\* rename and remove: a name goes to another of its period, or away.
LEMMA KindRename ==
  ASSUME KindsLog!LogAssumption, KindInv, KindsLog!RenameAndRemove(Writer)
  PROVE  KindInv'
  <1>1. KindTyped /\ stamp[Writer] = now /\ Place = "rename" /\ KindTurns /\ KindNames /\ m_mtTime = now
    BY DEF KindInv, KindTyped, KindTurns, KindsLog!RenameAndRemove, Place
  <1>2. /\ UNCHANGED <<stamp, now, m_value, m_mtTime, fd, files, written, failed>>
        /\ pc' = [pc EXCEPT ![Writer] = "write"]
    BY DEF KindsLog!RenameAndRemove, KindsLog!Goto
  <1>3. pc' \in [{Writer} -> LogPlaces] /\ pc'[Writer] = "write" /\ Place' = "write"
    BY <1>1, <1>2 DEF KindTyped, Place, LogPlaces
  <1>4. PICK x \in Nat : /\ rolling = <<KindsLog!FileName(x, KindsLog!Bare), KindsLog!FileName(x, "bak")>>
                         /\ KindsLog!Period(m_value, x) # KindsLog!Period(m_value, now)
    BY <1>1 DEF KindTurns
  <1>5. PICK from, to, nm : /\ from = KindsLog!FileName(x, KindsLog!Bare) /\ to = KindsLog!FileName(x, "bak")
                            /\ nm = KindsLog!FileName(m_mtTime, KindsLog!Bare)
    OBVIOUS
  <1>6. /\ from[1] = to[1] /\ from[1] # nm[1] /\ to \in KindBacks(m_value)
        /\ \A b \in KindBacks(m_value) : b # nm
    <2>1. KindsLog!Bare # "bak"
      BY Zenon DEF KindsLog!Bare
    <2> QED
      BY <1>1, <1>4, <1>5, <2>1 DEF KindsLog!FileName, KindBacks
  <1>7. PICK d : d = KindsLog!Renamed(from, to)
    OBVIOUS
  <1>8. PICK logs : logs = Append(m_backup_logs, to)
    OBVIOUS
  <1>9. /\ logs \in Seq(KindBacks(m_value)) /\ Len(logs) \in Nat /\ Len(logs) > 0
        /\ Head(logs) \in KindBacks(m_value) /\ Tail(logs) \in Seq(KindBacks(m_value))
    <2>1. m_backup_logs \in Seq(KindBacks(m_value))
      BY <1>1 DEF KindTyped
    <2> QED
      BY <1>6, <1>8, <2>1
  <1>10. /\ rolling[1] = from /\ rolling[2] = to
    BY <1>4, <1>5
  <1>11. \/ dir' = KindsLog!Without(d, Head(logs)) /\ m_backup_logs' = Tail(logs)
         \/ dir' = d /\ m_backup_logs' = logs
    BY <1>7, <1>8, <1>10 DEF KindsLog!RenameAndRemove
  <1>12. /\ \A a \in DOMAIN d : \E b \in DOMAIN dir : d[a] = dir[b] /\ a[1] = b[1]
         /\ \A a \in DOMAIN dir : a # from /\ a # to => a \in DOMAIN d /\ d[a] = dir[a]
    <2>1. CASE from \in DOMAIN dir
      <3>1. /\ DOMAIN d = (DOMAIN dir \ {from}) \cup {to}
            /\ \A a \in DOMAIN d : d[a] = IF a = to THEN dir[from] ELSE dir[a]
        BY <1>7, <2>1 DEF KindsLog!Renamed, KindsLog!Exists
      <3> QED
        BY <1>6, <2>1, <3>1
    <2>2. CASE from \notin DOMAIN dir
      BY <1>7, <2>2 DEF KindsLog!Renamed, KindsLog!Exists
    <2> QED
      BY <2>1, <2>2
  <1>13. /\ \A a \in DOMAIN dir' : \E b \in DOMAIN dir : dir'[a] = dir[b] /\ a[1] = b[1]
         /\ nm \in DOMAIN dir => nm \in DOMAIN dir' /\ dir'[nm] = dir[nm]
    <2>1. nm # from /\ nm # to /\ nm # Head(logs)
      BY <1>6, <1>9
    <2>2. CASE dir' = d
      BY <1>12, <2>1, <2>2
    <2>3. CASE dir' = KindsLog!Without(d, Head(logs))
      <3>1. DOMAIN dir' = DOMAIN d \ {Head(logs)} /\ \A a \in DOMAIN dir' : dir'[a] = d[a]
        BY <2>3 DEF KindsLog!Without
      <3> QED
        BY <1>12, <2>1, <3>1
    <2> QED
      BY <1>11, <2>2, <2>3
  <1>14. KindTyped'
    <2>1. \A a \in DOMAIN dir' : dir'[a] \in 1 .. files
      BY <1>1, <1>13 DEF KindTyped
    <2>2. m_backup_logs' \in Seq(KindBacks(m_value))
      BY <1>9, <1>11
    <2> QED
      BY <1>1, <1>2, <1>3, <2>1, <2>2 DEF KindTyped
  <1>15. KindTurns'
    BY <1>1, <1>2, <1>3 DEF KindTurns
  <1>16. KindNames'
    <2>1. SUFFICES ASSUME ~failed PROVE KindNames'
      BY <1>2 DEF KindNames
    <2>2. /\ nm \in DOMAIN dir /\ dir[nm] = fd
          /\ \A a, b \in DOMAIN dir : dir[a] = dir[b] => a[1] = b[1]
          /\ \A w \in written : \A a \in DOMAIN dir : dir[a] = w.file => a[1] = KindsLog!Period(m_value, w.at)
      BY <1>1, <1>5, <2>1 DEF KindNames
    <2>3. /\ \A a, b \in DOMAIN dir' : dir'[a] = dir'[b] => a[1] = b[1]
          /\ \A w \in written : \A a \in DOMAIN dir' : dir'[a] = w.file => a[1] = KindsLog!Period(m_value, w.at)
      BY <1>13, <2>2
    <2>4. KindsLog!FileName(m_mtTime, KindsLog!Bare)' = nm
      BY <1>2, <1>5 DEF KindsLog!FileName
    <2>5. nm \in DOMAIN dir' /\ dir'[nm] = fd
      BY <1>13, <2>2
    <2> QED
      BY <1>2, <1>3, <2>3, <2>4, <2>5 DEF KindNames
  <1>17. KindsLog!FilesOfOnePeriod'
    BY <1>2 DEF KindInv, KindsLog!FilesOfOnePeriod
  <1> QED
    BY <1>14, <1>15, <1>16, <1>17 DEF KindInv

\* WriteString: the open file has the name of the period of the message.
LEMMA KindWrite ==
  ASSUME KindsLog!LogAssumption, KindInv, KindsLog!Write(Writer)
  PROVE  KindInv'
  <1>1. /\ KindTyped /\ stamp[Writer] = now /\ Place = "write" /\ now \in Nat /\ m_mtTime \in Nat
        /\ m_value \in {"DAY", "HOUR", "10MIN"} /\ fd \in 1 .. files
        /\ KindsLog!Period(m_value, now) = KindsLog!Period(m_value, m_mtTime)
    BY DEF KindInv, KindTyped, KindTurns, KindsLog!Write, Place
  <1>2. /\ UNCHANGED <<now, m_value, m_mtTime, m_backup_logs, rolling, fd, dir, files, failed>>
        /\ pc' = [pc EXCEPT ![Writer] = "idle"] /\ stamp' = [stamp EXCEPT ![Writer] = 0]
    BY DEF KindsLog!Write, KindsLog!Goto, KindsLog!state, KindsLog!strategy
  <1>3. PICK v : written' = written \cup {v} /\ v = [id |-> KindsLog!Cardinality(written), at |-> stamp[Writer], file |-> fd]
    BY DEF KindsLog!Write
  <1>4. v.at = now /\ v.file = fd
    BY <1>1, <1>3
  <1>5. pc' \in [{Writer} -> LogPlaces] /\ pc'[Writer] = "idle" /\ Place' = "idle" /\ stamp' \in [{Writer} -> Nat]
    BY <1>1, <1>2 DEF KindTyped, Place, LogPlaces
  <1>6. KindTyped'
    BY <1>1, <1>2, <1>3, <1>4, <1>5 DEF KindTyped
  <1>7. KindTurns'
    BY <1>5 DEF KindTurns
  <1>8. PICK nm : nm = KindsLog!FileName(m_mtTime, KindsLog!Bare)
    OBVIOUS
  <1>9. ~failed => /\ nm \in DOMAIN dir /\ dir[nm] = fd /\ nm[1] = KindsLog!Period(m_value, now)
                   /\ \A a, b \in DOMAIN dir : dir[a] = dir[b] => a[1] = b[1]
                   /\ \A w \in written : \A a \in DOMAIN dir : dir[a] = w.file => a[1] = KindsLog!Period(m_value, w.at)
    BY <1>1, <1>8 DEF KindInv, KindNames, KindsLog!FileName
  <1>10. KindNames'
    <2>1. KindsLog!FileName(m_mtTime, KindsLog!Bare)' = nm
      BY <1>2, <1>8 DEF KindsLog!FileName
    <2>2. ~failed => \A w \in written' : \A a \in DOMAIN dir : dir[a] = w.file => a[1] = KindsLog!Period(m_value, w.at)
      BY <1>3, <1>4, <1>9
    <2> QED
      BY <1>2, <1>5, <1>9, <2>1, <2>2 DEF KindNames
  <1>11. KindsLog!FilesOfOnePeriod'
    <2>1. SUFFICES ASSUME ~failed, NEW w \in written', NEW u \in written', w.file = u.file
                   PROVE  KindsLog!Called(m_value, w.at) = KindsLog!Called(m_value, u.at)
      BY <1>2 DEF KindsLog!FilesOfOnePeriod, KindsLog!Called, KindsLog!DayOf, KindsLog!HourOf
    <2>2. w \in written /\ u \in written => KindsLog!Called(m_value, w.at) = KindsLog!Called(m_value, u.at)
      BY <2>1 DEF KindInv, KindsLog!FilesOfOnePeriod
    <2>3. ASSUME NEW z \in written, z.file = fd
          PROVE  KindsLog!Called(m_value, z.at) = KindsLog!Called(m_value, now)
      <3>1. KindsLog!Period(m_value, z.at) = KindsLog!Period(m_value, now) /\ z.at \in Nat
        BY <1>1, <1>9, <2>1, <2>3 DEF KindTyped
      <3> QED
        BY <1>1, <3>1, PeriodCalled
    <2> QED
      BY <1>3, <1>4, <2>1, <2>2, <2>3
  <1> QED
    BY <1>6, <1>7, <1>10, <1>11 DEF KindInv

LEMMA KindTick ==
  ASSUME KindsLog!LogAssumption, Delays = FALSE, KindInv, KindsLog!Tick
  PROVE  KindInv'
  <1>1. pc[Writer] = "idle" /\ Place = "idle" /\ now' = now + 1
    BY DEF KindsLog!Tick, Place
  <1>2. UNCHANGED <<pc, stamp, m_value, m_mtTime, m_backup_logs, rolling, fd, dir, files, written, failed>>
    BY DEF KindsLog!Tick, KindsLog!state, KindsLog!strategy, KindsLog!disk
  <1>3. Place' = "idle" /\ now' \in Nat
    BY <1>1, <1>2 DEF Place, KindInv, KindTyped
  <1>4. KindTyped'
    BY <1>1, <1>2, <1>3 DEF KindInv, KindTyped
  <1>5. KindTurns' /\ KindNames' /\ KindsLog!FilesOfOnePeriod'
    BY <1>1, <1>2, <1>3 DEF KindInv, KindTurns, KindNames, KindsLog!FilesOfOnePeriod, KindsLog!FileName
  <1> QED
    BY <1>4, <1>5 DEF KindInv

LEMMA KindRestart ==
  ASSUME KindsLog!LogAssumption, KindInv, KindsLog!Restart
  PROVE  KindInv'
  <1>1. /\ m_mtTime' = now /\ UNCHANGED <<now, m_value, written, failed>>
        /\ KindsLog!OpenFile(KindsLog!FileName(now, KindsLog!Bare)) /\ m_backup_logs' = <<>>
        /\ pc' = [t \in {Writer} |-> "idle"] /\ stamp' = [t \in {Writer} |-> 0]
    BY DEF KindsLog!Restart
  <1>2. PICK nm : nm = KindsLog!FileName(now, KindsLog!Bare)
    OBVIOUS
  <1>3. /\ DOMAIN dir' = DOMAIN dir \cup {nm} /\ dir'[nm] = fd'
        /\ files' \in Nat /\ files <= files' /\ fd' \in 1 .. files' /\ \A a \in DOMAIN dir' : dir'[a] \in 1 .. files'
        /\ ~failed =>
             /\ \A a, b \in DOMAIN dir' : dir'[a] = dir'[b] => a[1] = b[1]
             /\ \A w \in written : \A a \in DOMAIN dir' :
                  dir'[a] = w.file => a[1] = KindsLog!Period(m_value, w.at)
        /\ KindsLog!FilesOfOnePeriod'
    BY <1>1, <1>2, KindOpen
  <1>4. /\ pc' \in [{Writer} -> LogPlaces] /\ pc'[Writer] = "idle" /\ Place' = "idle" /\ stamp' \in [{Writer} -> Nat]
        /\ m_backup_logs' \in Seq(KindBacks(m_value))
    BY <1>1 DEF Place, LogPlaces
  <1>5. \A w \in written : w.file \in 1 .. files'
    BY <1>3 DEF KindInv, KindTyped
  <1>6. KindTyped'
    BY <1>1, <1>3, <1>4, <1>5 DEF KindInv, KindTyped
  <1>7. KindsLog!FileName(m_mtTime, KindsLog!Bare)' = nm
    BY <1>1, <1>2 DEF KindsLog!FileName
  <1>8. KindNames'
    BY <1>1, <1>3, <1>4, <1>7 DEF KindNames
  <1>9. KindTurns'
    BY <1>4 DEF KindTurns
  <1> QED
    BY <1>3, <1>6, <1>8, <1>9 DEF KindInv

LEMMA KindNext ==
  ASSUME KindsLog!LogAssumption, Delays = FALSE, KindInv, [KindsLog!Next]_KindsLog!lfVars
  PROVE  KindInv'
  <1>1. now \in Nat /\ stamp \in [{Writer} -> Nat] /\ (pc[Writer] # "idle" => stamp[Writer] = now)
    BY DEF KindInv, KindTyped
  <1>2. CASE KindsLog!WriteLog(Writer)
    <2>1. Place = "idle" /\ pc' = [pc EXCEPT ![Writer] = "look"] /\ stamp' = [stamp EXCEPT ![Writer] = now]
      BY <1>2 DEF KindsLog!WriteLog, KindsLog!Goto, Place
    <2>2. UNCHANGED <<now, m_value, m_mtTime, m_backup_logs, fd, dir, files, written, failed>>
      BY <1>2 DEF KindsLog!WriteLog, KindsLog!state, KindsLog!strategy, KindsLog!disk
    <2>3. stamp' \in [{Writer} -> Nat] /\ stamp'[Writer] = now
      BY <1>1, <2>1
    <2> QED
      BY <2>1, <2>2, <2>3, KindFrame DEF LogPlaces
  <1>3. CASE KindsLog!Look(Writer)
    <2>1. PICK s \in {"lock", "write"} : /\ pc' = [pc EXCEPT ![Writer] = s] /\ stamp' = stamp
                                         /\ s = "write" => ~KindsLog!NeedRollback(stamp[Writer])
      BY <1>3 DEF KindsLog!Look, KindsLog!Goto
    <2>2. UNCHANGED <<now, m_value, m_mtTime, m_backup_logs, fd, dir, files, written, failed>>
      BY <1>3 DEF KindsLog!Look, KindsLog!state, KindsLog!strategy, KindsLog!disk
    <2>3. Place = "look" /\ stamp[Writer] = now
      BY <1>1, <1>3 DEF KindsLog!Look, Place
    <2>4. s = "write" => KindsLog!Period(m_value, now) = KindsLog!Period(m_value, m_mtTime)
      BY <2>1, <2>3 DEF KindsLog!NeedRollback
    <2> QED
      BY <1>1, <2>1, <2>2, <2>3, <2>4, KindFrame DEF LogPlaces
  <1>4. CASE KindsLog!LockMutex(Writer)
    <2>1. Place = "lock" /\ pc' = [pc EXCEPT ![Writer] = "second"] /\ stamp' = stamp /\ stamp[Writer] = now
      BY <1>1, <1>4 DEF KindsLog!LockMutex, KindsLog!Goto, Place
    <2>2. UNCHANGED <<now, m_value, m_mtTime, m_backup_logs, fd, dir, files, written, failed>>
      BY <1>4 DEF KindsLog!LockMutex, KindsLog!state, KindsLog!strategy, KindsLog!disk
    <2> QED
      BY <1>1, <2>1, <2>2, KindFrame DEF LogPlaces
  <1>5. CASE UNCHANGED KindsLog!lfVars
    <2>1. UNCHANGED <<pc, stamp, now, m_value, m_mtTime, m_backup_logs, rolling, fd, dir, files, written, failed>>
      BY <1>5 DEF KindsLog!lfVars
    <2>2. Place' = Place /\ KindTyped'
      BY <2>1 DEF Place, KindInv, KindTyped
    <2> QED
      BY <2>1, <2>2 DEF KindInv, KindTurns, KindNames, KindsLog!FilesOfOnePeriod, KindsLog!FileName
  <1>6. ASSUME NEW t \in {Writer}, KindsLog!WriteLog(t) \/ KindsLog!Step(t) PROVE KindInv'
    <2>1. t = Writer
      OBVIOUS
    <2>2. KindsLog!WriteLog(Writer) \/ KindsLog!Step(Writer)
      BY <1>6, <2>1
    <2> QED
      BY <1>2, <1>3, <1>4, <2>2, KindDoRollback, KindDup2, KindRename, KindWrite DEF KindsLog!Step
  <1> QED
    BY <1>5, <1>6, KindTick, KindRestart DEF KindsLog!Next

-----------------------------------------------------------------------------
(* DataStream *)

\* A sequence of two parts is cut between them.
LEMMA CutParts ==
  ASSUME NEW S, NEW a \in Seq(S), NEW b \in Seq(S)
  PROVE  Stream!First(a \o b, Len(a)) = a /\ Stream!Drop(a \o b, Len(a)) = b
  <1>1. PICK s : s = a \o b
    OBVIOUS
  <1>2. /\ s \in Seq(S) /\ Len(s) = Len(a) + Len(b) /\ Len(a) \in Nat /\ Len(b) \in Nat
        /\ \A m \in 1 .. Len(a) + Len(b) : s[m] = IF m <= Len(a) THEN a[m] ELSE b[m - Len(a)]
    BY <1>1, ConcatProperties
  <1>3. SubSeq(s, 1, Len(a)) = a
    <2>1. PICK f : f = SubSeq(s, 1, Len(a))
      OBVIOUS
    <2>2. \A m \in 1 .. Len(a) : s[m] \in S /\ s[m] = a[m]
      BY <1>2
    <2>3. /\ f \in Seq(S) /\ Len(f) = IF 1 <= Len(a) THEN Len(a) - 1 + 1 ELSE 0
          /\ \A m \in 1 .. Len(a) - 1 + 1 : f[m] = s[1 + m - 1]
      BY <1>2, <2>1, <2>2, SubSeqProperties
    <2>4. Len(f) = Len(a) /\ \A m \in 1 .. Len(a) : f[m] = a[m]
      BY <1>2, <2>2, <2>3
    <2> QED
      BY <2>1, <2>3, <2>4, SeqEqual
  <1>4. SubSeq(s, Len(a) + 1, Len(s)) = b
    <2>1. PICK f : f = SubSeq(s, Len(a) + 1, Len(s))
      OBVIOUS
    <2>2. \A m \in Len(a) + 1 .. Len(s) : s[m] \in S
      BY <1>2
    <2>3. Len(a) + 1 \in Int /\ Len(s) \in Int
      BY <1>2
    <2>4. /\ f \in Seq(S) /\ Len(f) = IF Len(a) + 1 <= Len(s) THEN Len(s) - (Len(a) + 1) + 1 ELSE 0
          /\ \A m \in 1 .. Len(s) - (Len(a) + 1) + 1 : f[m] = s[Len(a) + 1 + m - 1]
      BY <2>1, <2>2, <2>3, SubSeqProperties
    <2>5. Len(f) = Len(b) /\ Len(s) - (Len(a) + 1) + 1 = Len(b)
      BY <1>2, <2>4
    <2>6. ASSUME NEW m \in 1 .. Len(b) PROVE f[m] = b[m]
      <3>1. /\ Len(a) + 1 + m - 1 = Len(a) + m /\ Len(a) + m \in 1 .. Len(a) + Len(b)
            /\ ~(Len(a) + m <= Len(a)) /\ Len(a) + m - Len(a) = m
        BY <1>2
      <3>2. f[m] = s[Len(a) + m]
        BY <2>4, <2>5, <3>1
      <3>3. PICK q \in 1 .. Len(a) + Len(b) : q = Len(a) + m
        BY <3>1
      <3>4. s[q] = b[q - Len(a)]
        BY <1>2, <3>1, <3>3
      <3> QED
        BY <3>1, <3>2, <3>3, <3>4
    <2> QED
      BY <2>1, <2>4, <2>5, <2>6, SeqEqual
  <1> QED
    BY <1>1, <1>3, <1>4 DEF Stream!First, Stream!Drop

\* A sequence is its first elements and the others.
LEMMA CutSplit ==
  ASSUME NEW S, NEW s \in Seq(S), NEW m \in 0 .. Len(s)
  PROVE  /\ Stream!First(s, m) \in Seq(S) /\ Len(Stream!First(s, m)) = m
         /\ Stream!Drop(s, m) \in Seq(S) /\ Len(Stream!Drop(s, m)) = Len(s) - m
         /\ Stream!First(s, m) \o Stream!Drop(s, m) = s
  <1>1. Len(s) \in Nat /\ \A k \in 1 .. Len(s) : s[k] \in S
    OBVIOUS
  <1>2. SubSeq(s, 1, m) \in Seq(S) /\ Len(SubSeq(s, 1, m)) = m
    <2>1. \A k \in 1 .. m : s[k] \in S
      BY <1>1
    <2>2. SubSeq(s, 1, m) \in Seq(S) /\ Len(SubSeq(s, 1, m)) = IF 1 <= m THEN m - 1 + 1 ELSE 0
      BY <2>1, SubSeqProperties
    <2> QED
      BY <1>1, <2>2
  <1>3. SubSeq(s, m + 1, Len(s)) \in Seq(S) /\ Len(SubSeq(s, m + 1, Len(s))) = Len(s) - m
    <2>1. (\A k \in m + 1 .. Len(s) : s[k] \in S) /\ m + 1 \in Int /\ Len(s) \in Int
      BY <1>1
    <2>2. /\ SubSeq(s, m + 1, Len(s)) \in Seq(S)
          /\ Len(SubSeq(s, m + 1, Len(s))) = IF m + 1 <= Len(s) THEN Len(s) - (m + 1) + 1 ELSE 0
      BY <2>1, SubSeqProperties
    <2> QED
      BY <1>1, <2>2
  <1>4. SubSeq(s, 1, m) \o SubSeq(s, m + 1, Len(s)) = s
    <2>1. 1 \in 1 .. Len(s) + 1 /\ m \in 1 - 1 .. Len(s) /\ Len(s) \in m .. Len(s)
      BY <1>1
    <2>2. SubSeq(s, 1, m) \o SubSeq(s, m + 1, Len(s)) = SubSeq(s, 1, Len(s))
      BY <2>1, ConcatAdjacentSubSeq
    <2> QED
      BY <2>2, SubSeqFull
  <1> QED
    BY <1>2, <1>3, <1>4 DEF Stream!First, Stream!Drop

LEMMA Joined ==
  ASSUME NEW S, NEW s \in Seq(S), NEW t \in Seq(S)
  PROVE  s \o t \in Seq(S) /\ Len(s \o t) = Len(s) + Len(t)
  BY ConcatProperties

\* Words are joined in any order.
Regroups(s, t, u) == (s \o t) \o u = s \o (t \o u)

LEMMA Regrouped ==
  ASSUME NEW S, NEW s \in Seq(S), NEW t \in Seq(S), NEW u \in Seq(S)
  PROVE  Regroups(s, t, u)
  BY ConcatAssociative, SMTT(30) DEF Regroups

\* A cut behind the first part, and one within it.
LEMMA CutBehind ==
  ASSUME NEW S, NEW a \in Seq(S), NEW b \in Seq(S), NEW m \in 0 .. Len(b)
  PROVE  Stream!First(a \o b, Len(a) + m) = a \o Stream!First(b, m) /\ Stream!Drop(a \o b, Len(a) + m) = Stream!Drop(b, m)
  <1> DEFINE c == Stream!First(b, m)
             d == Stream!Drop(b, m)
  <1>1. c \in Seq(S) /\ d \in Seq(S) /\ Len(c) = m /\ c \o d = b
    BY CutSplit
  <1> HIDE DEF c, d
  <1>2. PICK e : e = a \o c
    OBVIOUS
  <1>5. e \in Seq(S) /\ Len(e) = Len(a) + m
    BY <1>1, <1>2, ConcatProperties
  <1>3. e \o d = a \o b
    <2>1. a \in Seq(S) /\ c \in Seq(S) /\ d \in Seq(S) /\ e = a \o c /\ b = c \o d
      BY <1>1, <1>2
    <2>2. Regroups(a, c, d)
      BY ONLY <2>1, Regrouped, Zenon
    <2> QED
      BY ONLY <2>1, <2>2, Zenon DEF Regroups
  <1>4. Stream!First(e \o d, Len(e)) = e /\ Stream!Drop(e \o d, Len(e)) = d
    BY <1>1, <1>5, CutParts
  <1> QED
    BY <1>2, <1>3, <1>4, <1>5 DEF c, d

LEMMA CutWithin ==
  ASSUME NEW S, NEW a \in Seq(S), NEW b \in Seq(S), NEW m \in 0 .. Len(a)
  PROVE  Stream!First(a \o b, m) = Stream!First(a, m)
  <1> DEFINE c == Stream!First(a, m)
             d == Stream!Drop(a, m)
  <1>1. c \in Seq(S) /\ d \in Seq(S) /\ Len(c) = m /\ c \o d = a
    BY CutSplit
  <1> HIDE DEF c, d
  <1>2. PICK e : e = d \o b
    OBVIOUS
  <1>5. e \in Seq(S)
    BY <1>1, <1>2, ConcatProperties
  <1>3. c \o e = a \o b
    <2>1. c \in Seq(S) /\ d \in Seq(S) /\ b \in Seq(S) /\ a = c \o d /\ e = d \o b
      BY <1>1, <1>2
    <2>2. Regroups(c, d, b)
      BY ONLY <2>1, Regrouped, Zenon
    <2> QED
      BY ONLY <2>1, <2>2, Zenon DEF Regroups
  <1>4. Stream!First(c \o e, Len(c)) = c
    BY <1>1, <1>5, CutParts
  <1> QED
    BY <1>1, <1>3, <1>4 DEF c

\* More than all is nothing.
LEMMA CutAll ==
  ASSUME NEW S, NEW s \in Seq(S), NEW m \in Nat, m >= Len(s)
  PROVE  Stream!Drop(s, m) = <<>>
  <1>1. Len(s) \in Nat /\ Len(s) < m + 1 /\ m + 1 \in Int
    OBVIOUS
  <1> QED
    BY <1>1, SubSeqEmpty DEF Stream!Drop

LEMMA WordGives ==
  ASSUME NEW w \in Stream!Words(2)
  PROVE  w \in Seq(Bytes) /\ Len(w) \in 1 .. 2
  <1>1. PICK m \in 1 .. 2 : w \in [1 .. m -> Bytes]
    BY DEF Stream!Words
  <1>2. m \in Nat /\ Seq(Bytes) = UNION {[1 .. k -> Bytes] : k \in Nat}
    BY <1>1, SeqDef
  <1>3. w \in Seq(Bytes) /\ DOMAIN w = 1 .. m
    BY <1>1, <1>2
  <1>4. Len(w) = m
    BY <1>2, <1>3
  <1> QED
    BY <1>1, <1>3, <1>4

\* The buffer is what was taken, up to nReadPos, and what is held.
StreamInv == /\ past \in Seq(Bytes) /\ held \in Seq(Bytes) /\ vch = past \o held
             /\ nReadPos = Len(past) /\ Len(vch) <= StreamLength

LEMMA StreamSizes ==
  ASSUME StreamInv
  PROVE  /\ vch \in Seq(Bytes) /\ Len(vch) = nReadPos + Len(held) /\ nReadPos \in Nat /\ Len(held) \in Nat
         /\ Stream!size = Len(held) /\ Stream!Unread = held
  <1>1. /\ vch \in Seq(Bytes) /\ Len(vch) = Len(past) + Len(held) /\ nReadPos = Len(past)
        /\ Len(past) \in Nat /\ Len(held) \in Nat
    BY ConcatProperties DEF StreamInv
  <1>2. Stream!Drop(vch, nReadPos) = held
    BY CutParts DEF StreamInv
  <1> QED
    BY <1>1, <1>2 DEF Stream!size, Stream!Unread, Stream!Drop

\* What is left of the invariant when a step gives two parts.
LEMMA StreamParts ==
  ASSUME NEW p \in Seq(Bytes), NEW h \in Seq(Bytes), past' = p, held' = h, vch' = p \o h, nReadPos' = Len(p),
         Len(p \o h) <= StreamLength
  PROVE  StreamInv'
  BY DEF StreamInv

LEMMA StreamInit == ASSUME Stream!StreamAssumption, Stream!Init PROVE StreamInv
  <1>1. /\ <<>> \in Seq(Bytes) /\ Len(<<>>) = 0 /\ 0 <= StreamLength
    BY DEF Stream!StreamAssumption
  <1>2. <<>> \o <<>> = <<>>
    BY <1>1, ConcatEmptySeq
  <1> QED
    BY <1>1, <1>2 DEF Stream!Init, StreamInv

\* The stream is empty.
LEMMA StreamEmptied ==
  ASSUME Stream!StreamAssumption, vch' = <<>>, nReadPos' = 0, held' = <<>>, past' = <<>>
  PROVE  StreamInv'
  <1>1. /\ <<>> \in Seq(Bytes) /\ Len(<<>>) = 0 /\ 0 <= StreamLength
    BY DEF Stream!StreamAssumption
  <1>2. <<>> \o <<>> = <<>>
    BY <1>1, ConcatEmptySeq
  <1> QED
    BY <1>1, <1>2 DEF StreamInv

\* The first m bytes are taken: all of them, or fewer.
LEMMA StreamTaken ==
  ASSUME Stream!StreamAssumption, StreamInv, NEW m \in Nat, Stream!Taken(m),
         IF nReadPos + m >= Len(vch) THEN vch' = <<>> /\ nReadPos' = 0
                                     ELSE nReadPos' = nReadPos + m /\ UNCHANGED vch
  PROVE  StreamInv'
  <1>1. /\ vch \in Seq(Bytes) /\ Len(vch) = nReadPos + Len(held) /\ nReadPos \in Nat /\ Len(held) \in Nat
    BY StreamSizes
  <1>2. CASE m >= Len(held)
    <2>1. vch' = <<>> /\ nReadPos' = 0
      BY <1>1, <1>2
    <2>2. held' = Stream!Drop(held, m) /\ past' = <<>>
      BY <1>2 DEF Stream!Taken
    <2>3. Stream!Drop(held, m) = <<>>
      BY <1>2, CutAll DEF StreamInv
    <2> QED
      BY <2>1, <2>2, <2>3, StreamEmptied
  <1>3. CASE ~(m >= Len(held))
    <2>1. nReadPos' = nReadPos + m /\ vch' = vch /\ m \in 0 .. Len(held)
      BY <1>1, <1>3
    <2>2. held' = Stream!Drop(held, m) /\ past' = past \o Stream!First(held, m)
      BY <1>3 DEF Stream!Taken
    <2>3. PICK f, h : f = Stream!First(held, m) /\ h = Stream!Drop(held, m)
      OBVIOUS
    <2>4. f \in Seq(Bytes) /\ h \in Seq(Bytes) /\ Len(f) = m /\ f \o h = held
      BY <2>1, <2>3, CutSplit DEF StreamInv
    <2>5. past \o f \in Seq(Bytes) /\ Len(past \o f) = Len(past) + m
      BY <2>4, ConcatProperties DEF StreamInv
    <2>6. (past \o f) \o h = vch
      <3>1. past \in Seq(Bytes) /\ f \in Seq(Bytes) /\ h \in Seq(Bytes) /\ held = f \o h
        BY <2>4 DEF StreamInv
      <3>2. (past \o f) \o h = past \o held
        <4>1. Regroups(past, f, h)
          BY ONLY <3>1, Regrouped, Zenon
        <4> QED
          BY ONLY <3>1, <4>1, Zenon DEF Regroups
      <3> QED
        BY <3>2 DEF StreamInv
    <2> QED
      BY <2>1, <2>2, <2>3, <2>4, <2>5, <2>6 DEF StreamInv
  <1> QED
    BY <1>2, <1>3

\* More bytes at the end.
LEMMA StreamMore ==
  ASSUME StreamInv, NEW w \in Seq(Bytes), vch' = vch \o w, held' = held \o w, UNCHANGED <<nReadPos, past>>,
         Len(vch) + Len(w) <= StreamLength
  PROVE  StreamInv'
  <1>1. held \o w \in Seq(Bytes)
    BY ConcatProperties DEF StreamInv
  <1>2. past \o (held \o w) = vch \o w
    <2>1. past \in Seq(Bytes) /\ held \in Seq(Bytes) /\ w \in Seq(Bytes) /\ vch = past \o held
      BY DEF StreamInv
    <2>2. Regroups(past, held, w)
      BY ONLY <2>1, Regrouped, Zenon
    <2> QED
      BY ONLY <2>1, <2>2, Zenon DEF Regroups
  <1>3. Len(vch \o w) = Len(vch) + Len(w)
    BY StreamSizes, ConcatProperties
  <1> QED
    BY <1>1, <1>2, <1>3 DEF StreamInv

\* The bytes between the first m and the first q of those held go.
LEMMA StreamCutOut ==
  ASSUME Stream!StreamAssumption, StreamInv, NEW m \in Nat, NEW q \in Nat, m <= q, q <= Len(held),
         vch' = Stream!First(vch, nReadPos + m) \o Stream!Drop(vch, nReadPos + q),
         held' = Stream!First(held, m) \o Stream!Drop(held, q), UNCHANGED <<nReadPos, past>>
  PROVE  StreamInv'
  <1>1. /\ vch \in Seq(Bytes) /\ Len(vch) = nReadPos + Len(held) /\ nReadPos \in Nat /\ Len(held) \in Nat
        /\ held \in Seq(Bytes) /\ past \in Seq(Bytes) /\ vch = past \o held /\ nReadPos = Len(past)
        /\ Len(vch) <= StreamLength
    BY StreamSizes DEF StreamInv
  <1>2. m \in 0 .. Len(held) /\ q \in 0 .. Len(held)
    BY <1>1
  <1>3. PICK f, h : f = Stream!First(held, m) /\ h = Stream!Drop(held, q)
    OBVIOUS
  <1>4. f \in Seq(Bytes) /\ h \in Seq(Bytes) /\ Len(f) = m /\ Len(h) = Len(held) - q
    BY <1>1, <1>2, <1>3, CutSplit
  <1>5. Stream!First(vch, nReadPos + m) = past \o f /\ Stream!Drop(vch, nReadPos + q) = h
    <2>1. Stream!First(past \o held, Len(past) + m) = past \o Stream!First(held, m)
      <3>1. past \in Seq(Bytes) /\ held \in Seq(Bytes) /\ m \in 0 .. Len(held)
        BY <1>1, <1>2
      <3> QED
        BY ONLY <3>1, CutBehind, Zenon
    <2>2. Stream!Drop(past \o held, Len(past) + q) = Stream!Drop(held, q)
      <3>1. past \in Seq(Bytes) /\ held \in Seq(Bytes) /\ q \in 0 .. Len(held)
        BY <1>1, <1>2
      <3> QED
        BY ONLY <3>1, CutBehind, Zenon
    <2> QED
      BY <1>1, <1>3, <2>1, <2>2
  <1>6. f \o h \in Seq(Bytes) /\ Len(f \o h) = m + Len(held) - q
    <2>1. f \o h \in Seq(Bytes) /\ Len(f \o h) = Len(f) + Len(h)
      BY ONLY <1>4, Joined
    <2> QED
      BY <1>1, <1>2, <1>4, <2>1
  <1>7. (past \o f) \o h = past \o (f \o h)
    <2>1. past \in Seq(Bytes) /\ f \in Seq(Bytes) /\ h \in Seq(Bytes)
      BY <1>1, <1>4
    <2>2. Regroups(past, f, h)
      BY ONLY <2>1, Regrouped, Zenon
    <2> QED
      BY <2>2, Zenon DEF Regroups
  <1>8. Len(past \o (f \o h)) = Len(past) + Len(f \o h)
    <2>1. past \in Seq(Bytes)
      BY <1>1
    <2> QED
      BY ONLY <1>6, <2>1, Joined
  <1>9. Len(past \o (f \o h)) <= StreamLength
    <2>1. Len(past \o (f \o h)) <= Len(vch) /\ Len(past \o (f \o h)) \in Nat /\ Len(vch) \in Nat
      <3>1. PICK x : x = Len(past \o (f \o h))
        OBVIOUS
      <3>2. x = nReadPos + (m + Len(held) - q) /\ Len(vch) = nReadPos + Len(held)
        BY <1>1, <1>6, <1>8, <3>1, Zenon
      <3>3. x <= Len(vch) /\ x \in Nat /\ Len(vch) \in Nat
        <4>1. nReadPos \in Nat /\ Len(held) \in Nat
          BY <1>1
        <4> QED
          BY ONLY <3>2, <4>1, m \in Nat, q \in Nat, m <= q, q <= Len(held)
      <3> QED
        BY ONLY <3>1, <3>3, Zenon
    <2> QED
      BY <1>1, <2>1 DEF Stream!StreamAssumption
  <1> QED
    BY <1>1, <1>3, <1>5, <1>6, <1>7, <1>9 DEF StreamInv

LEMMA CutNone ==
  ASSUME NEW S, NEW s \in Seq(S)
  PROVE  Stream!First(s, 0) = <<>> /\ Stream!Drop(s, 0) = s
  <1>1. SubSeq(s, 1, 0) = <<>>
    BY SubSeqEmpty
  <1>2. SubSeq(s, 1, Len(s)) = s
    BY SubSeqFull
  <1> QED
    BY <1>1, <1>2 DEF Stream!First, Stream!Drop

\* A word over the bytes that were read.
LEMMA StreamOver ==
  ASSUME Stream!StreamAssumption, StreamInv, NEW w \in Seq(Bytes), Len(w) <= nReadPos,
         vch' = Stream!First(vch, nReadPos - Len(w)) \o w \o Stream!Unread, nReadPos' = nReadPos - Len(w),
         past' = Stream!First(past, Len(past) - Len(w)), held' = Stream!First(held, 0) \o w \o Stream!Drop(held, 0)
  PROVE  StreamInv'
  <1>1. /\ held \in Seq(Bytes) /\ past \in Seq(Bytes) /\ vch = past \o held /\ nReadPos = Len(past)
        /\ Len(vch) <= StreamLength /\ Len(vch) = nReadPos + Len(held) /\ nReadPos \in Nat /\ Len(held) \in Nat
        /\ Stream!Unread = held /\ Len(w) \in Nat
    BY StreamSizes DEF StreamInv
  <1>2. PICK m \in 0 .. Len(past) : m = Len(past) - Len(w)
    BY <1>1
  <1>3. PICK f : f = Stream!First(past, m)
    OBVIOUS
  <1>4. f \in Seq(Bytes) /\ Len(f) = m
    BY <1>1, <1>2, <1>3, CutSplit
  <1>5. Stream!First(vch, m) = f
    BY <1>1, <1>2, <1>3, CutWithin, SMTT(30)
  <1>6. Stream!First(held, 0) = <<>> /\ Stream!Drop(held, 0) = held
    BY <1>1, CutNone
  <1>7. <<>> \o w = w
    BY ConcatEmptySeq
  <1>8. w \o held \in Seq(Bytes) /\ Len(w \o held) = Len(w) + Len(held)
    BY <1>1, Joined
  <1>9. held' = w \o held /\ past' = f /\ nReadPos' = m /\ vch' = (f \o w) \o held
    BY <1>1, <1>2, <1>3, <1>5, <1>6, <1>7
  <1>10. (f \o w) \o held = f \o (w \o held)
    <2>1. f \in Seq(Bytes) /\ w \in Seq(Bytes) /\ held \in Seq(Bytes)
      BY <1>1, <1>4
    <2>2. Regroups(f, w, held)
      BY ONLY <2>1, Regrouped, Zenon
    <2> QED
      BY <2>2, Zenon DEF Regroups
  <1>11. Len(f \o (w \o held)) = Len(f) + Len(w \o held)
    BY ONLY <1>4, <1>8, Joined
  <1>12. Len(f \o (w \o held)) = Len(vch)
    BY <1>1, <1>2, <1>4, <1>8, <1>11
  <1> QED
    BY <1>1, <1>4, <1>8, <1>9, <1>10, <1>12 DEF StreamInv

\* A word between the bytes that are held.
LEMMA StreamBetween ==
  ASSUME Stream!StreamAssumption, StreamInv, NEW w \in Seq(Bytes), NEW k \in Nat, k <= Len(held),
         Len(vch) + Len(w) <= StreamLength,
         vch' = Stream!First(vch, nReadPos + k) \o w \o Stream!Drop(vch, nReadPos + k),
         held' = Stream!First(held, k) \o w \o Stream!Drop(held, k), UNCHANGED <<nReadPos, past>>
  PROVE  StreamInv'
  <1>1. /\ held \in Seq(Bytes) /\ past \in Seq(Bytes) /\ vch = past \o held /\ nReadPos = Len(past)
        /\ Len(vch) = nReadPos + Len(held) /\ nReadPos \in Nat /\ Len(held) \in Nat
        /\ Len(w) \in Nat /\ k \in 0 .. Len(held)
    BY StreamSizes DEF StreamInv
  <1>2. PICK f, h : f = Stream!First(held, k) /\ h = Stream!Drop(held, k)
    OBVIOUS
  <1>3. f \in Seq(Bytes) /\ h \in Seq(Bytes) /\ Len(f) = k /\ Len(h) = Len(held) - k
    BY <1>1, <1>2, CutSplit
  <1>4. Stream!First(vch, nReadPos + k) = past \o f /\ Stream!Drop(vch, nReadPos + k) = h
    <2>1. Stream!First(past \o held, Len(past) + k) = past \o Stream!First(held, k) /\ Stream!Drop(past \o held, Len(past) + k) = Stream!Drop(held, k)
      BY <1>1, CutBehind, Zenon
    <2> QED
      BY <1>1, <1>2, <2>1
  <1>5. PICK g : g = f \o w
    OBVIOUS
  <1>6. g \in Seq(Bytes) /\ Len(g) = k + Len(w)
    <2>1. g \in Seq(Bytes) /\ Len(g) = Len(f) + Len(w)
      BY <1>3, <1>5, Joined
    <2> QED
      BY <1>3, <2>1
  <1>7. g \o h \in Seq(Bytes) /\ Len(g \o h) = Len(g) + Len(h)
    BY ONLY <1>3, <1>6, Joined
  <1>8. (past \o f) \o w = past \o g
    <2>1. past \in Seq(Bytes) /\ f \in Seq(Bytes) /\ w \in Seq(Bytes) /\ g = f \o w
      BY <1>1, <1>3, <1>5
    <2>2. Regroups(past, f, w)
      BY ONLY <2>1, Regrouped, Zenon
    <2> QED
      BY ONLY <2>1, <2>2, Zenon DEF Regroups
  <1>9. (past \o g) \o h = past \o (g \o h)
    <2>1. past \in Seq(Bytes) /\ g \in Seq(Bytes) /\ h \in Seq(Bytes)
      BY <1>1, <1>3, <1>6
    <2>2. Regroups(past, g, h)
      BY ONLY <2>1, Regrouped, Zenon
    <2> QED
      BY <2>2, Zenon DEF Regroups
  <1>10. Len(past \o (g \o h)) = Len(past) + Len(g \o h)
    <2>1. past \in Seq(Bytes)
      BY <1>1
    <2> QED
      BY ONLY <1>7, <2>1, Joined
  <1>11. Len(past \o (g \o h)) = Len(vch) + Len(w)
    BY <1>1, <1>3, <1>6, <1>7, <1>10
  <1>12. held' = g \o h /\ vch' = past \o (g \o h)
    BY <1>2, <1>4, <1>5, <1>8, <1>9
  <1> QED
    BY <1>1, <1>7, <1>11, <1>12 DEF StreamInv

\* Bytes that were read are given back.
LEMMA StreamBack ==
  ASSUME Stream!StreamAssumption, StreamInv, NEW m \in Nat, m <= nReadPos, nReadPos' = nReadPos - m,
         held' = Stream!Final(past, m) \o held, past' = Stream!First(past, Len(past) - m), UNCHANGED vch
  PROVE  StreamInv'
  <1>1. /\ held \in Seq(Bytes) /\ past \in Seq(Bytes) /\ vch = past \o held /\ nReadPos = Len(past)
        /\ Len(vch) <= StreamLength /\ nReadPos \in Nat
    BY StreamSizes DEF StreamInv
  <1>2. PICK k \in 0 .. Len(past) : k = Len(past) - m
    BY <1>1
  <1>3. PICK f, h : f = Stream!First(past, k) /\ h = Stream!Drop(past, k)
    OBVIOUS
  <1>4. f \in Seq(Bytes) /\ h \in Seq(Bytes) /\ Len(f) = k /\ f \o h = past
    BY <1>1, <1>2, <1>3, CutSplit
  <1>5. Stream!Final(past, m) = h
    BY <1>1, <1>2, <1>3 DEF Stream!Final, Stream!Drop
  <1>6. h \o held \in Seq(Bytes)
    BY <1>1, <1>4, Joined
  <1>7. f \o (h \o held) = vch
    <2>1. f \in Seq(Bytes) /\ h \in Seq(Bytes) /\ held \in Seq(Bytes) /\ past = f \o h
      BY <1>1, <1>4
    <2>2. past \o held = f \o (h \o held)
      <3>1. Regroups(f, h, held)
        BY ONLY <2>1, Regrouped, Zenon
      <3> QED
        BY ONLY <2>1, <3>1, Zenon DEF Regroups
    <2> QED
      BY <1>1, <2>2
  <1>8. held' = h \o held /\ past' = f /\ nReadPos' = k
    BY <1>1, <1>2, <1>3, <1>5
  <1> QED
    BY <1>1, <1>4, <1>6, <1>7, <1>8 DEF StreamInv

LEMMA StreamNext == ASSUME Stream!StreamAssumption, StreamInv, [Stream!Next]_Stream!dsVars PROVE StreamInv'
  <1>1. /\ vch \in Seq(Bytes) /\ Len(vch) = nReadPos + Len(held) /\ nReadPos \in Nat /\ Len(held) \in Nat
        /\ Stream!size = Len(held) /\ Stream!Unread = held
        /\ past \in Seq(Bytes) /\ held \in Seq(Bytes) /\ nReadPos = Len(past) /\ Len(vch) <= StreamLength
    BY StreamSizes DEF StreamInv
  <1>2. ASSUME NEW w \in Stream!Words(2), Stream!write(w) PROVE StreamInv'
    BY <1>2, WordGives, StreamMore DEF Stream!write
  <1>3. ASSUME NEW w \in Stream!Words(2), NEW k \in 0 .. 2, Stream!insert(k, w) PROVE StreamInv'
    <2>1. w \in Seq(Bytes) /\ k \in Nat
      BY WordGives
    <2>2. /\ k <= Len(held) /\ Len(vch) + Len(w) <= StreamLength
          /\ held' = Stream!First(held, k) \o w \o Stream!Drop(held, k)
      BY <1>1, <1>3 DEF Stream!insert
    <2>3. CASE k = 0 /\ Len(w) <= nReadPos
      BY <1>1, <1>3, <2>1, <2>2, <2>3, StreamOver DEF Stream!insert
    <2>4. CASE ~(k = 0 /\ Len(w) <= nReadPos)
      BY <1>1, <1>3, <2>1, <2>2, <2>4, StreamBetween DEF Stream!insert
    <2> QED
      BY <2>3, <2>4
  <1>4. ASSUME NEW m \in Stream!Amounts, Stream!read(m) PROVE StreamInv'
    BY <1>1, <1>4, StreamTaken DEF Stream!read, Stream!Amounts
  <1>5. ASSUME NEW m \in Stream!Amounts, Stream!ignore(m) PROVE StreamInv'
    <2>1. m \in Nat /\ (nReadPos + m # Len(vch) \/ nReadPos = 0) /\ Stream!Taken(m)
          /\ IF nReadPos + m >= Len(vch)
             THEN vch' = <<>> /\ nReadPos' = IF nReadPos + m > Len(vch) THEN 0 ELSE nReadPos
             ELSE nReadPos' = nReadPos + m /\ UNCHANGED vch
      BY <1>5 DEF Stream!ignore, Stream!Amounts
    <2>2. nReadPos + m >= Len(vch) => nReadPos' = 0
      BY <1>1, <2>1
    <2> QED
      BY <2>1, <2>2, StreamTaken
  <1>6. ASSUME NEW m \in Stream!Amounts, Stream!Rewind(m) PROVE StreamInv'
    <2>1. m \in Nat
      BY DEF Stream!Amounts
    <2>2. CASE m <= nReadPos
      BY <1>6, <2>1, <2>2, StreamBack DEF Stream!Rewind
    <2>3. CASE ~(m <= nReadPos)
      <3>1. UNCHANGED <<vch, nReadPos, held, past>>
        BY <1>6, <2>3 DEF Stream!Rewind
      <3> QED
        BY <3>1 DEF StreamInv
    <2> QED
      BY <2>2, <2>3
  <1>7. ASSUME NEW k \in 0 .. 2, Stream!eraseOne(k) PROVE StreamInv'
    <2>1. k \in Nat /\ k < Len(held)
      BY <1>1, <1>7 DEF Stream!eraseOne
    <2>2. CASE k = 0
      <3>1. /\ Stream!Taken(1)
            /\ IF nReadPos + 1 >= Len(vch) THEN vch' = <<>> /\ nReadPos' = 0
               ELSE nReadPos' = nReadPos + 1 /\ UNCHANGED vch
        BY <1>7, <2>2 DEF Stream!eraseOne
      <3> QED
        BY <3>1, StreamTaken
    <2>3. CASE k # 0
      <3>1. /\ vch' = Stream!First(vch, nReadPos + k) \o Stream!Drop(vch, nReadPos + k + 1)
            /\ held' = Stream!First(held, k) \o Stream!Drop(held, k + 1) /\ UNCHANGED <<nReadPos, past>>
        BY <1>7, <2>3 DEF Stream!eraseOne
      <3>2. nReadPos + k + 1 = nReadPos + (k + 1) /\ k + 1 \in Nat /\ k <= k + 1 /\ k + 1 <= Len(held)
        BY <1>1, <2>1
      <3> QED
        BY <2>1, <3>1, <3>2, StreamCutOut
    <2> QED
      BY <2>2, <2>3
  <1>8. ASSUME NEW k \in 0 .. 2, NEW m \in 1 .. 2, Stream!erase(k, m) PROVE StreamInv'
    <2>1. k \in Nat /\ m \in Nat /\ m > 0 /\ k + m <= Len(held)
      BY <1>1, <1>8 DEF Stream!erase
    <2>2. CASE k = 0
      <3>1. Stream!Taken(m)
        BY <1>8, <2>2 DEF Stream!erase
      <3>2. CASE m = Stream!size
        <4>1. vch' = <<>> /\ nReadPos' = 0
          BY <1>8, <2>2, <3>2 DEF Stream!erase
        <4>2. nReadPos + m >= Len(vch)
          BY <1>1, <3>2
        <4> QED
          BY <2>1, <3>1, <4>1, <4>2, StreamTaken
      <3>3. CASE m # Stream!size
        <4>1. nReadPos' = nReadPos + m /\ UNCHANGED vch
          BY <1>8, <2>2, <3>3 DEF Stream!erase
        <4>2. ~(nReadPos + m >= Len(vch))
          BY <1>1, <2>1, <2>2, <3>3
        <4> QED
          BY <2>1, <3>1, <4>1, <4>2, StreamTaken
      <3> QED
        BY <3>2, <3>3
    <2>3. CASE k # 0
      <3>1. /\ vch' = Stream!First(vch, nReadPos + k) \o Stream!Drop(vch, nReadPos + k + m)
            /\ held' = Stream!First(held, k) \o Stream!Drop(held, k + m) /\ UNCHANGED <<nReadPos, past>>
        BY <1>8, <2>3 DEF Stream!erase
      <3>2. nReadPos + k + m = nReadPos + (k + m) /\ k + m \in Nat /\ k <= k + m /\ k + m <= Len(held)
        BY <1>1, <2>1
      <3> QED
        BY <2>1, <3>1, <3>2, StreamCutOut
    <2> QED
      BY <2>2, <2>3
  <1>9. ASSUME NEW b \in Stream!Words(2), NEW pos \in 0 .. 1, Stream!append(b, pos) PROVE StreamInv'
    <2>1. b \in Seq(Bytes) /\ Len(b) \in 1 .. 2 /\ pos \in 0 .. Len(b)
      <3>1. b \in Seq(Bytes) /\ Len(b) \in 1 .. 2
        BY WordGives
      <3>2. PICK q : q = Len(b)
        OBVIOUS
      <3>3. pos \in 0 .. q
        BY ONLY <3>1, <3>2, pos \in 0 .. 1
      <3> QED
        BY <3>1, <3>2, <3>3
    <2>2. PICK w : w = Stream!Drop(b, pos)
      OBVIOUS
    <2>3. w \in Seq(Bytes) /\ Len(w) = Len(b) - pos
      BY <2>1, <2>2, CutSplit
    <2>4. /\ Len(vch) + Len(b) - pos <= StreamLength /\ vch' = vch \o w /\ held' = held \o w
          /\ UNCHANGED <<nReadPos, past>>
      BY <1>9, <2>2 DEF Stream!append
    <2>5. Len(vch) + Len(w) <= StreamLength
      <3>1. Len(vch) \in Nat /\ Len(b) \in Nat /\ pos \in Nat
        BY <1>1, <2>1
      <3>2. Len(vch) + Len(w) = Len(vch) + Len(b) - pos
        BY ONLY <2>3, <3>1
      <3> QED
        BY <2>4, <3>2
    <2> QED
      BY <2>3, <2>4, <2>5, StreamMore
  <1>10. ASSUME NEW b \in Stream!Words(2), NEW pos \in 0 .. 1, Stream!shift(b, pos) PROVE StreamInv'
    <2>1. /\ pos = 0 /\ Len(vch) + Len(b) <= StreamLength /\ vch' = vch \o b /\ held' = held \o Stream!Drop(b, 0)
          /\ UNCHANGED <<nReadPos, past>> /\ b \in Seq(Bytes)
      BY <1>10, WordGives DEF Stream!shift
    <2>2. Stream!Drop(b, 0) = b
      BY <2>1, CutNone
    <2> QED
      BY <2>1, <2>2, StreamMore
  <1>11. CASE Stream!Compact
    <2>1. vch' = held /\ nReadPos' = 0 /\ past' = <<>> /\ held' = held
      BY <1>1, <1>11 DEF Stream!Compact
    <2>2. <<>> \o held = held /\ <<>> \in Seq(Bytes) /\ Len(<<>>) = 0
      BY <1>1, ConcatEmptySeq
    <2>3. Len(held) <= StreamLength
      BY <1>1 DEF Stream!StreamAssumption
    <2> QED
      BY <1>1, <2>1, <2>2, <2>3 DEF StreamInv
  <1>12. CASE Stream!GetAndClear
    BY <1>12, StreamEmptied DEF Stream!GetAndClear
  <1>13. CASE UNCHANGED Stream!dsVars
    BY <1>13 DEF Stream!dsVars, StreamInv
  <1> QED
    BY <1>2, <1>3, <1>4, <1>5, <1>6, <1>7, <1>8, <1>9, <1>10, <1>11, <1>12, <1>13 DEF Stream!Next

\* What StreamInv says of a state and of a read.
LEMMA StreamHolds == ASSUME StreamInv PROVE Stream!TypeOK /\ Stream!HoldsExactly
  <1>1. /\ vch \in Seq(Bytes) /\ Len(vch) = nReadPos + Len(held) /\ nReadPos \in Nat /\ Len(held) \in Nat
        /\ Stream!Unread = held
    BY StreamSizes
  <1>2. nReadPos \in 0 .. Len(vch)
    BY <1>1
  <1> QED
    BY <1>1, <1>2 DEF StreamInv, Stream!TypeOK, Stream!HoldsExactly

LEMMA StreamReads ==
  ASSUME StreamInv, NEW m \in Stream!Amounts, Stream!read(m), NEW k \in 1 .. m
  PROVE  result'[k] = IF k <= Len(held) THEN held[k] ELSE 0
  <1>1. /\ Len(vch) = nReadPos + Len(held) /\ nReadPos \in Nat /\ Len(held) \in Nat /\ Stream!size = Len(held)
        /\ past \in Seq(Bytes) /\ held \in Seq(Bytes) /\ vch = past \o held /\ nReadPos = Len(past)
    BY StreamSizes DEF StreamInv
  <1>2. result'[k] = IF k <= Stream!size THEN vch[nReadPos + k] ELSE 0
    BY DEF Stream!read
  <1>3. ASSUME k <= Len(held) PROVE vch[nReadPos + k] = held[k]
    <2>1. k \in Nat \ {0}
      BY DEF Stream!Amounts
    <2>2. PICK q \in 1 .. Len(past) + Len(held) : q = nReadPos + k
      BY <1>1, <1>3, <2>1
    <2>3. (past \o held)[q] = IF q <= Len(past) THEN past[q] ELSE held[q - Len(past)]
      BY <1>1, ConcatProperties
    <2>4. ~(q <= Len(past)) /\ q - Len(past) = k
      BY <1>1, <2>1, <2>2
    <2> QED
      BY <1>1, <2>2, <2>3, <2>4
  <1> QED
    BY <1>1, <1>2, <1>3

-----------------------------------------------------------------------------
(* Services: a step of it is one of its part, and leaves the others alone. *)

\* MessageQueue and SharedMemory, for any processes, types and sizes of messages,
\* capacity, faults and kills: a message is received once at most and in the order of
\* its type, those that are gone were received, cleared or went with their queue, and
\* a process has mapped what its object points to, of the segment whose id it has.
THEOREM IpcAlways == ServSpec => []IpcExact
  <1> DEFINE Inv == QueueInv /\ MemoryInv
  <1>1. ServInit => Inv
    BY ServicesAssumption, QueueInit, MemoryInit DEF ServInit, ServicesAssumption
  <1>2. Inv /\ [ServNext]_servVars => Inv'
    <2>1. SUFFICES ASSUME QueueInv, MemoryInv, [ServNext]_servVars PROVE Inv'
      OBVIOUS
    <2>2. [Queue!Next]_Queue!mqVars
      BY <2>1 DEF ServNext, servVars, ipcVars, Queue!mqVars, Queue!kernel, Queue!process
    <2>3. [Memory!Next]_Memory!shVars
      BY <2>1 DEF ServNext, servVars, shmVars, Memory!shVars
    <2> QED
      BY <2>1, <2>2, <2>3, ServicesAssumption, QueueNext, MemoryNext DEF ServicesAssumption
  <1>3. Inv => IpcExact
    BY ServicesAssumption, QueueExact, MemoryMapped DEF ServicesAssumption, IpcExact
  <1> QED
    BY <1>1, <1>2, <1>3, PTL DEF ServSpec

\* What RedisExact says, in the words of RedisClient.
LEMMA RedisOnce ==
  ASSUME Redis!RedisAssumption, RedisInv
  PROVE  Redis!OnceAtMost /\ Redis!Heals
  <1>1. /\ Distinct(items) /\ Distinct(given)
        /\ Elems(items) \cap withdrawn = {} /\ Elems(items) \cup withdrawn = applied
        /\ Elems(given) \subseteq withdrawn
        /\ \A k \in applied : k <= n
        /\ Cardinality(withdrawn \ Elems(given)) <= outages + (IF rpc = "reply" THEN 1 ELSE 0)
        /\ Redis!Heals
    BY RedisExact
  <1>2. \A S : Redis!Cardinality(S) = Cardinality(S)
    BY Zenon DEF Redis!Cardinality, Cardinality
  <1>3. \A s : Redis!Range(s) = Elems(s) /\ (Redis!IsInjective(s) <=> Distinct(s))
    BY Zenon DEF Redis!Range, Redis!IsInjective, Elems, Distinct
  <1> QED
    BY <1>1, <1>2, <1>3, Zenon DEF Redis!OnceAtMost

\* DbConnection, for statements of any number, batches of any size, any drive and any
\* losses of the session: a MultiExec that returned OK has all its statements in the
\* database and one that failed none, and no transaction is left open.
THEOREM AllOrNoneAlways == ServSpec => []AllOrNone
  <1>1. ServInit => DbInv
    BY ServicesAssumption, DbInit DEF ServInit, ServicesAssumption
  <1>2. DbInv /\ [ServNext]_servVars => DbInv'
    <2>1. SUFFICES ASSUME DbInv, [ServNext]_servVars PROVE DbInv'
      OBVIOUS
    <2>2. [Db!Next]_Db!dbVars
      BY <2>1 DEF ServNext, servVars, dbVars, Db!dbVars
    <2> QED
      BY <2>1, <2>2, ServicesAssumption, DbNext DEF ServicesAssumption
  <1>3. DbInv => AllOrNone
    BY ServicesAssumption, DbExact DEF ServicesAssumption, AllOrNone
  <1> QED
    BY <1>1, <1>2, <1>3, PTL DEF ServSpec

\* DbConnection: an Execute or MultiInsert that returned OK has put in every row, once
\* and in order while the session stays.  RedisClient: a command is executed once at
\* most, an item reaches one caller at most, and the call after a failed one is good.
THEOREM RowsAlways == ServSpec => []RowsStored
  <1> DEFINE Inv == DbInv /\ RedisInv
  <1>1. ServInit => Inv
    BY ServicesAssumption, DbInit, RedisInit DEF ServInit, ServicesAssumption
  <1>2. Inv /\ [ServNext]_servVars => Inv'
    <2>1. SUFFICES ASSUME DbInv, RedisInv, [ServNext]_servVars PROVE Inv'
      OBVIOUS
    <2>2. [Db!Next]_Db!dbVars
      BY <2>1 DEF ServNext, servVars, dbVars, Db!dbVars
    <2>3. [Redis!Next]_Redis!redisVars
      BY <2>1 DEF ServNext, servVars, rdVars, Redis!redisVars
    <2> QED
      BY <2>1, <2>2, <2>3, ServicesAssumption, DbNext, RedisNext DEF ServicesAssumption
  <1>3. Inv => RowsStored
    BY ServicesAssumption, DbExact, RedisOnce DEF ServicesAssumption, RowsStored
  <1> QED
    BY <1>1, <1>2, <1>3, PTL DEF ServSpec

\* What ResultExact and ConnExact say, in the words of DbResult and DbConnConfig.
LEMMA HandlesKept ==
  ASSUME Result!ResultAssumption, ResultInv
  PROVE  Result!TypeOK /\ Result!OneStatement /\ Result!HandlesExact
  <1>1. /\ Result!TypeOK /\ Result!OneStatement
        /\ Result!IsInited => r_st \in DOMAIN open /\ (Result!HasHandle => open[r_st])
        /\ Cardinality(DOMAIN open \ {r_st}) = lost
    BY ResultExact
  <1>2. \A S : Result!Cardinality(S) = Cardinality(S)
    BY Zenon DEF Result!Cardinality, Cardinality
  <1> QED
    BY <1>1, <1>2, Zenon DEF Result!HandlesExact

LEMMA ConnsKept ==
  ASSUME Conns!ConfigAssumption, ConnInv
  PROVE  Conns!TypeOK /\ Conns!ConnsExact
  <1>1. /\ Conns!TypeOK
        /\ \A x, y \in Conns!Listed : x # y => m_db_conns[x[1]][x[2]] # m_db_conns[y[1]][y[2]]
        /\ {m_db_conns[x[1]][x[2]] : x \in Conns!Listed} = (1 .. conns) \ leaked
        /\ \A nm \in Names : \A k \in 1 .. Cardinality(Conns!Promised(nm)) :
             Conns!GetConn(nm, k - 1) \in (1 .. conns) \ leaked
    BY ConnExact
  <1>2. \A S : Conns!Cardinality(S) = Cardinality(S)
    BY Zenon DEF Conns!Cardinality, Cardinality
  <1> QED
    BY <1>1, <1>2, Zenon DEF Conns!ConnsExact

\* DbResult, for any drives and tables whose columns have different names: a result is
\* of one statement, and a drive has the handle that is open.  DbConnConfig, for any
\* names, files and counts: every name has the connections that the files said, each
\* once, and none is lost but those of a call that failed.
THEOREM ResultsAlways == ServSpec => []ResultsExact
  <1> DEFINE Inv == ResultInv /\ ConnInv
  <1>1. ServInit => Inv
    BY ServicesAssumption, ResultInit, ConnInit DEF ServInit, ServicesAssumption
  <1>2. Inv /\ [ServNext]_servVars => Inv'
    <2>1. SUFFICES ASSUME ResultInv, ConnInv, [ServNext]_servVars PROVE Inv'
      OBVIOUS
    <2>2. [Result!Next]_Result!drVars
      BY <2>1 DEF ServNext, servVars, resVars, Result!drVars
    <2>3. [Conns!Next]_Conns!cfVars
      BY <2>1 DEF ServNext, servVars, cfgVars, Conns!cfVars
    <2> QED
      BY <2>1, <2>2, <2>3, ServicesAssumption, ResultNext, ConnNext DEF ServicesAssumption
  <1>3. Inv => ResultsExact
    BY ServicesAssumption, HandlesKept, ConnsKept DEF ServicesAssumption, ResultsExact
  <1> QED
    BY <1>1, <1>2, <1>3, PTL DEF ServSpec

\* LogFile, for any threads, periods, number of backups and restarts, as long as a
\* message is written in the period in which it was made: the open file is found under
\* the name of its period, the backups that are due are there and no others, no message
\* vanishes before its backup is due, and the messages of one file are of one period.
THEOREM LogAlways == ASSUME Delays = FALSE PROVE ServSpec => []LogKept
  <1> DEFINE Inv == (part # "kinds" => LogInv) /\ (part = "kinds" => KindInv)
  <1>1. ServInit => Inv
    BY ServicesAssumption, LogInit, KindInit DEF ServInit, ServicesAssumption
  <1>2. Inv /\ [ServNext]_servVars => Inv'
    <2>1. SUFFICES ASSUME Inv, [ServNext]_servVars PROVE Inv'
      OBVIOUS
    <2>2. part' = part
      BY <2>1 DEF ServNext, servVars
    <2>3. CASE part # "kinds"
      <3>1. [Log!Next]_Log!lfVars
        BY <2>1, <2>3 DEF ServNext, servVars, logVars, Log!lfVars
      <3> QED
        BY <2>1, <2>2, <2>3, <3>1, ServicesAssumption, LogNext DEF ServicesAssumption
    <2>4. CASE part = "kinds"
      <3>1. [KindsLog!Next]_KindsLog!lfVars
        BY <2>1, <2>4 DEF ServNext, servVars, logVars, KindsLog!lfVars
      <3> QED
        BY <2>1, <2>2, <2>4, <3>1, ServicesAssumption, KindNext DEF ServicesAssumption
    <2> QED
      BY <2>3, <2>4
  <1>3. Inv => LogKept
    BY ServicesAssumption, LogExact DEF ServicesAssumption, LogKept, KindInv
  <1> QED
    BY <1>1, <1>2, <1>3, PTL DEF ServSpec

\* DataStream, for any bytes and length: it holds exactly what was put in and not taken
\* out, and a read gives the oldest bytes of it.
THEOREM StreamAlways == ServSpec => StreamExact
  <1>1. ServInit => StreamInv
    BY ServicesAssumption, StreamInit DEF ServInit, ServicesAssumption
  <1>2. StreamInv /\ [ServNext]_servVars => StreamInv'
    <2>1. SUFFICES ASSUME StreamInv, [ServNext]_servVars PROVE StreamInv'
      OBVIOUS
    <2>2. [Stream!Next]_Stream!dsVars
      BY <2>1 DEF ServNext, servVars, dsVars, Stream!dsVars
    <2> QED
      BY <2>1, <2>2, ServicesAssumption, StreamNext DEF ServicesAssumption
  <1>3. StreamInv => Stream!TypeOK /\ Stream!HoldsExactly
    BY StreamHolds
  <1>4. StreamInv => [Stream!OldestRead]_Stream!dsVars
    BY StreamReads, Zenon DEF Stream!OldestRead
  <1>5. ServSpec => []StreamInv
    BY <1>1, <1>2, PTL DEF ServSpec
  <1>6. ServSpec => Stream!ReadsOldest
    BY <1>4, <1>5, PTL DEF Stream!ReadsOldest
  <1> QED
    BY <1>3, <1>5, <1>6, PTL DEF StreamExact
=============================================================================
