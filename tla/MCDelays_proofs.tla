-------------------------- MODULE MCDelays_proofs ---------------------------
(***************************************************************************)
(* What MCEventLoop checks of the delay queue on a small instance, for any *)
(* tasks, delays and clocks: the list of differences is exact, and it      *)
(* implements TimerQueue.                                                  *)
(***************************************************************************)
EXTENDS MCEventLoop_proofs

-----------------------------------------------------------------------------
(* Timeval *)

\* Normalized pairs.
Moments == [s : Nat, u : 0 .. MILLION - 1]

\* One second more is a million microseconds more, at least.
LEMMA MoreSeconds ==
  ASSUME NEW x \in Nat, NEW y \in Nat, NEW m \in Nat, x > y
  PROVE  x * m >= y * m + m
  <1>1. PICK k \in Nat : x = y + 1 + k
    <2>1. x - y - 1 \in Nat /\ x = y + 1 + (x - y - 1)
      OBVIOUS
    <2> QED
      BY <2>1
  <1>2. x * m = y * m + m + k * m
    BY <1>1
  <1>3. k * m \in Nat
    OBVIOUS
  <1>4. y * m \in Nat
    OBVIOUS
  <1> QED
    BY <1>2, <1>3, <1>4

\* The number of microseconds of a pair, and that it decides comparisons.
LEMMA MicrosGe ==
  ASSUME MILLION \in Nat \ {0}, NEW x \in Moments, NEW y \in Moments
  PROVE  /\ DQ!Micros(x) \in Nat
         /\ DQ!Ge(x, y) <=> DQ!Micros(x) >= DQ!Micros(y)
         /\ DQ!Lt(x, y) <=> DQ!Micros(x) < DQ!Micros(y)
         /\ DQ!Eq(x, y) <=> DQ!Micros(x) = DQ!Micros(y)
  <1>1. PICK p \in Nat, q \in Nat : p = x.s * MILLION /\ q = y.s * MILLION
    BY DEF Moments
  <1>2. DQ!Micros(x) = p + x.u /\ DQ!Micros(y) = q + y.u
    BY <1>1 DEF DQ!Micros
  <1>3. /\ x.s \in Nat /\ y.s \in Nat /\ x.u \in 0 .. MILLION - 1 /\ y.u \in 0 .. MILLION - 1
    BY DEF Moments
  <1>4. /\ x.s > y.s => p >= q + MILLION
        /\ y.s > x.s => q >= p + MILLION
        /\ x.s = y.s => p = q
    BY <1>1, <1>3, MoreSeconds
  <1>5. DQ!Ge(x, y) <=> DQ!Micros(x) >= DQ!Micros(y)
    BY <1>2, <1>3, <1>4 DEF DQ!Ge
  <1>6. DQ!Ge(y, x) <=> DQ!Micros(y) >= DQ!Micros(x)
    BY <1>2, <1>3, <1>4 DEF DQ!Ge
  <1>7. DQ!Micros(x) \in Nat /\ DQ!Micros(y) \in Nat
    BY <1>1, <1>2, <1>3
  <1> QED
    BY <1>5, <1>6, <1>7 DEF DQ!Lt, DQ!Eq

\* The sum of two pairs.
LEMMA MicrosPlus ==
  ASSUME MILLION \in Nat \ {0}, NEW x \in Moments, NEW y \in Moments
  PROVE  DQ!Plus(x, y) \in Moments /\ DQ!Micros(DQ!Plus(x, y)) = DQ!Micros(x) + DQ!Micros(y)
  <1>1. /\ x.s \in Nat /\ y.s \in Nat /\ x.u \in 0 .. MILLION - 1 /\ y.u \in 0 .. MILLION - 1
    BY DEF Moments
  <1>2. CASE x.u + y.u >= MILLION
    <2>1. DQ!Plus(x, y) = [s |-> x.s + y.s + 1, u |-> x.u + y.u - MILLION]
      BY <1>1, <1>2 DEF DQ!Plus, DQ!Tv
    <2>2. x.s + y.s + 1 \in Nat /\ x.u + y.u - MILLION \in 0 .. MILLION - 1
      BY <1>1, <1>2
    <2>3. (x.s + y.s + 1) * MILLION = x.s * MILLION + y.s * MILLION + MILLION
      BY <1>1
    <2>4. DQ!Plus(x, y) \in Moments
      BY <2>1, <2>2 DEF Moments
    <2>5. DQ!Micros(DQ!Plus(x, y)) = (x.s + y.s + 1) * MILLION + (x.u + y.u - MILLION)
      BY <2>1 DEF DQ!Micros
    <2>6. x.s * MILLION \in Nat /\ y.s * MILLION \in Nat
      BY <1>1
    <2>7. (x.s + y.s + 1) * MILLION + (x.u + y.u - MILLION) = x.s * MILLION + x.u + (y.s * MILLION + y.u)
      <3>1. PICK p \in Nat, q \in Nat : p = x.s * MILLION /\ q = y.s * MILLION
        BY <2>6
      <3>2. (x.s + y.s + 1) * MILLION = p + q + MILLION
        BY <2>3, <3>1
      <3>3. p + q + MILLION + (x.u + y.u - MILLION) = p + x.u + (q + y.u)
        BY <1>1
      <3> QED
        BY <3>1, <3>2, <3>3
    <2> QED
      BY <2>4, <2>5, <2>7 DEF DQ!Micros
  <1>3. CASE ~(x.u + y.u >= MILLION)
    <2>1. DQ!Plus(x, y) = [s |-> x.s + y.s, u |-> x.u + y.u]
      BY <1>3 DEF DQ!Plus, DQ!Tv
    <2>2. DQ!Plus(x, y) \in Moments
      BY <1>1, <1>3, <2>1 DEF Moments
    <2>3. (x.s + y.s) * MILLION = x.s * MILLION + y.s * MILLION
      BY <1>1
    <2> QED
      BY <1>1, <2>1, <2>2, <2>3 DEF DQ!Micros
  <1> QED
    BY <1>2, <1>3

\* The borrow: seconds that may be negative, and the exact difference.
LEMMA MicrosBorrow ==
  ASSUME MILLION \in Nat \ {0}, NEW x \in Moments, NEW y \in Moments
  PROVE  /\ DQ!Borrow(x, y) \in [s : Int, u : 0 .. MILLION - 1]
         /\ DQ!Micros(DQ!Borrow(x, y)) = DQ!Micros(x) - DQ!Micros(y)
         /\ DQ!Borrow(x, y).s < 0 <=> DQ!Micros(x) < DQ!Micros(y)
  <1>1. /\ x.s \in Nat /\ y.s \in Nat /\ x.u \in 0 .. MILLION - 1 /\ y.u \in 0 .. MILLION - 1
    BY DEF Moments
  <1>2. /\ DQ!Borrow(x, y) \in [s : Int, u : 0 .. MILLION - 1]
        /\ DQ!Micros(DQ!Borrow(x, y)) = DQ!Micros(x) - DQ!Micros(y)
    <2>1. CASE x.u - y.u < 0
      <3>1. DQ!Borrow(x, y) = [s |-> x.s - y.s - 1, u |-> x.u - y.u + MILLION]
        BY <2>1 DEF DQ!Borrow, DQ!Tv
      <3>2. (x.s - y.s - 1) * MILLION = x.s * MILLION - y.s * MILLION - MILLION
        BY <1>1
      <3> QED
        BY <1>1, <2>1, <3>1, <3>2 DEF DQ!Micros
    <2>2. CASE ~(x.u - y.u < 0)
      <3>1. DQ!Borrow(x, y) = [s |-> x.s - y.s, u |-> x.u - y.u]
        BY <2>2 DEF DQ!Borrow, DQ!Tv
      <3>2. (x.s - y.s) * MILLION = x.s * MILLION - y.s * MILLION
        BY <1>1
      <3> QED
        BY <1>1, <2>2, <3>1, <3>2 DEF DQ!Micros
    <2> QED
      BY <2>1, <2>2
  <1>3. DQ!Borrow(x, y).s < 0 <=> ~DQ!Ge(x, y)
    BY <1>1 DEF DQ!Borrow, DQ!Tv, DQ!Ge
  <1>4. DQ!Ge(x, y) <=> DQ!Micros(x) >= DQ!Micros(y)
    BY MicrosGe
  <1>5. DQ!Micros(x) \in Nat /\ DQ!Micros(y) \in Nat
    BY MicrosGe
  <1> QED
    BY <1>2, <1>3, <1>4, <1>5

\* The difference of two pairs, which stops at zero.
LEMMA MicrosMinus ==
  ASSUME MILLION \in Nat \ {0}, NEW x \in Moments, NEW y \in Moments
  PROVE  /\ DQ!Minus(x, y) \in Moments
         /\ DQ!Micros(DQ!Minus(x, y)) =
               IF DQ!Micros(x) > DQ!Micros(y) THEN DQ!Micros(x) - DQ!Micros(y) ELSE 0
  <1>1. DQ!Micros(x) \in Nat /\ DQ!Micros(y) \in Nat
    BY MicrosGe
  <1>2. DQ!Zero \in Moments /\ DQ!Micros(DQ!Zero) = 0
    BY DEF DQ!Zero, DQ!Tv, DQ!Micros, Moments
  <1>3. CASE DQ!Borrow(x, y).s < 0
    <2>1. DQ!Minus(x, y) = DQ!Zero /\ DQ!Micros(x) < DQ!Micros(y)
      BY <1>3, MicrosBorrow DEF DQ!Minus
    <2> QED
      BY <1>1, <1>2, <2>1
  <1>4. CASE ~(DQ!Borrow(x, y).s < 0)
    <2>1. /\ DQ!Minus(x, y) = DQ!Borrow(x, y) /\ ~(DQ!Micros(x) < DQ!Micros(y))
          /\ DQ!Micros(DQ!Borrow(x, y)) = DQ!Micros(x) - DQ!Micros(y)
          /\ DQ!Borrow(x, y) \in [s : Int, u : 0 .. MILLION - 1]
      BY <1>4, MicrosBorrow DEF DQ!Minus
    <2>2. DQ!Borrow(x, y) \in Moments
      BY <1>4, <2>1 DEF Moments
    <2> QED
      BY <1>1, <2>1, <2>2
  <1> QED
    BY <1>3, <1>4

\* A number of microseconds as a pair.
LEMMA MicrosSplit ==
  ASSUME MILLION \in Nat \ {0}, NEW x \in Nat
  PROVE  DQ!Split(x) \in Moments /\ DQ!Micros(DQ!Split(x)) = x
  <1>1. x \div MILLION \in Nat /\ x % MILLION \in 0 .. MILLION - 1
    OBVIOUS
  <1>2. (x \div MILLION) * MILLION + (x % MILLION) = x
    <2>1. (x % MILLION) = x - MILLION * (x \div MILLION)
      OBVIOUS
    <2>2. PICK p \in Int : p = MILLION * (x \div MILLION)
      BY <1>1
    <2>3. (x \div MILLION) * MILLION = p
      BY <1>1, <2>2
    <2>4. (x % MILLION) = x - p
      BY ONLY <2>1, <2>2, Zenon
    <2> QED
      BY <2>3, <2>4
  <1> QED
    BY <1>1, <1>2 DEF DQ!Split, DQ!Tv, DQ!Micros, Moments

-----------------------------------------------------------------------------
(* DelayQueue: sums along the list, and walks. *)

Links == [id : Tasks \cup {Sentinel}, delta : Moments]

\* What DelayQueue's recursive sums are: a function with this recurrence, ...
IsSums(F, q) == /\ F \in [0 .. Len(q) -> Nat]
                /\ F[0] = 0
                /\ \A i \in 1 .. Len(q) : F[i] = F[i - 1] + DQ!Micros(q[i].delta)

LEMMA SumsExist ==
  ASSUME MILLION \in Nat \ {0}, NEW q \in Seq(Links)
  PROVE  \E F : IsSums(F, q)
  <1> DEFINE D(i) == DQ!Micros(q[i].delta)
             Upto(F, k) == /\ F \in [0 .. k -> Nat]
                           /\ F[0] = 0
                           /\ \A i \in 1 .. k : F[i] = F[i - 1] + D(i)
             Missing == {k \in 0 .. Len(q) : ~\E F : Upto(F, k)}
  <1>1. Len(q) \in Nat
    OBVIOUS
  <1>2. \A i \in 1 .. Len(q) : D(i) \in Nat
    <2> TAKE i \in 1 .. Len(q)
    <2>1. q[i] \in Links
      BY <1>1
    <2>2. q[i].delta \in Moments
      BY <2>1 DEF Links
    <2> QED
      BY <2>2, MicrosGe
  <1> HIDE DEF D
  <1>3. SUFFICES ASSUME Missing # {} PROVE FALSE
    <2>1. Len(q) \in 0 .. Len(q)
      BY <1>1
    <2>2. Missing = {} => \E F : Upto(F, Len(q))
      BY <2>1, Zenon
    <2> QED
      BY <1>3, <2>2, Zenon DEF IsSums, D
  <1>4. PICK k \in Missing : \A m \in Missing : k <= m
    <2>1. Missing \subseteq Nat
      BY <1>1
    <2> QED
      BY <1>3, <2>1, Least, Zenon
  <1>5. k \in 0 .. Len(q) /\ ~\E F : Upto(F, k)
    BY <1>4
  <1>6. CASE k = 0
    <2>1. Upto([i \in 0 .. 0 |-> 0], 0)
      OBVIOUS
    <2> QED
      BY <1>5, <1>6, <2>1, Zenon
  <1>7. CASE k # 0
    <2>1. k - 1 \in 0 .. Len(q) /\ ~(k <= k - 1)
      BY <1>1, <1>5, <1>7
    <2>2. k - 1 \notin Missing
      BY <1>4, <2>1, Zenon
    <2>3. PICK F : Upto(F, k - 1)
      BY <2>1, <2>2, Zenon
    <2> DEFINE G == [i \in 0 .. k |-> IF i < k THEN F[i] ELSE F[k - 1] + D(k)]
    <2>4. k \in Nat /\ k \in 1 .. Len(q)
      BY <1>1, <1>5, <1>7
    <2>5. F[k - 1] \in Nat /\ D(k) \in Nat
      BY <1>2, <2>3, <2>4
    <2>6. G \in [0 .. k -> Nat]
      BY <2>3, <2>4, <2>5
    <2>7. G[0] = 0
      BY <2>3, <2>4
    <2>8. ASSUME NEW i \in 1 .. k PROVE G[i] = G[i - 1] + D(i)
      <3>1. G[i - 1] = F[i - 1]
        BY <2>4
      <3>2. CASE i = k
        BY <2>4, <3>1, <3>2
      <3>3. CASE i # k
        <4>1. i \in 1 .. k - 1 /\ i < k
          BY <2>4, <3>3
        <4> QED
          BY <2>3, <2>4, <3>1, <4>1
      <3> QED
        BY <3>2, <3>3
    <2>9. Upto(G, k)
      BY <2>6, <2>7, <2>8, Zenon
    <2> QED
      BY <1>5, <2>9, Zenon
  <1> QED
    BY <1>6, <1>7

\* ... and there is only one.
LEMMA SumsUnique ==
  ASSUME MILLION \in Nat \ {0}, NEW q \in Seq(Links), NEW F, NEW G, IsSums(F, q),
         G[0] = 0, \A i \in 1 .. Len(q) : G[i] = G[i - 1] + DQ!Micros(q[i].delta)
  PROVE  \A k \in 0 .. Len(q) : G[k] = F[k]
  <1> DEFINE Wrong == {k \in 0 .. Len(q) : F[k] # G[k]}
  <1>1. Len(q) \in Nat
    OBVIOUS
  <1>2. SUFFICES ASSUME Wrong # {} PROVE FALSE
    OBVIOUS
  <1>3. PICK k \in Wrong : \A m \in Wrong : k <= m
    <2>1. Wrong \subseteq Nat
      BY <1>1
    <2> QED
      BY <1>2, <2>1, Least, Zenon
  <1>4. k \in 1 .. Len(q)
    BY <1>1, <1>3 DEF IsSums
  <1>5. k - 1 \in 0 .. Len(q) /\ ~(k <= k - 1)
    BY <1>1, <1>4
  <1>6. F[k - 1] = G[k - 1]
    BY <1>3, <1>5
  <1> QED
    BY <1>3, <1>4, <1>6 DEF IsSums

LEMMA SumsRight ==
  ASSUME MILLION \in Nat \ {0}, NEW q \in Seq(Links)
  PROVE  IsSums(DQ!Sums(q), q)
  <1> DEFINE Body(F) == [i \in 0 .. Len(q) |-> IF i = 0 THEN 0 ELSE F[i - 1] + DQ!Micros(q[i].delta)]
             S == DQ!Sums(q)
  <1>1. PICK F : IsSums(F, q)
    BY SumsExist
  <1>2. Len(q) \in Nat
    OBVIOUS
  <1>3. F = Body(F)
    BY <1>1, <1>2 DEF IsSums
  <1>4. S = CHOOSE G : G = Body(G)
    BY DEF DQ!Sums
  <1> HIDE DEF S
  <1>5. S = Body(S)
    BY <1>3, <1>4, Zenon
  <1>6. S[0] = 0 /\ \A i \in 1 .. Len(q) : S[i] = S[i - 1] + DQ!Micros(q[i].delta)
    BY <1>2, <1>5
  <1>7. \A k \in 0 .. Len(q) : S[k] = F[k]
    BY <1>1, <1>6, SumsUnique
  <1>8. S = [k \in 0 .. Len(q) |-> S[k]]
    BY <1>5
  <1>9. S = F
    BY <1>1, <1>7, <1>8 DEF IsSums
  <1> QED
    BY <1>1, <1>9 DEF S

\* The sum up to a place is the time left for the entry there: it never decreases.
LEMMA SumsGrow ==
  ASSUME MILLION \in Nat \ {0}, NEW q \in Seq(Links), NEW i \in 0 .. Len(q), NEW j \in i .. Len(q)
  PROVE  DQ!Sums(q)[i] <= DQ!Sums(q)[j]
  <1> DEFINE S == DQ!Sums(q)
             Wrong == {k \in i .. Len(q) : ~(S[i] <= S[k])}
  <1>1. Len(q) \in Nat /\ i \in Nat /\ j \in Nat
    OBVIOUS
  <1>2. IsSums(S, q)
    BY SumsRight
  <1> HIDE DEF S
  <1>3. SUFFICES ASSUME Wrong # {} PROVE FALSE
    BY DEF S
  <1>4. PICK k \in Wrong : \A m \in Wrong : k <= m
    <2>1. Wrong \subseteq Nat
      BY <1>1
    <2> QED
      BY <1>3, <2>1, Least, Zenon
  <1>5. k # i
    BY <1>1, <1>2, <1>4 DEF IsSums
  <1>6. k - 1 \in i .. Len(q) /\ ~(k <= k - 1) /\ k \in 1 .. Len(q)
    BY <1>1, <1>4, <1>5
  <1>7. S[i] <= S[k - 1]
    BY <1>4, <1>6
  <1>8. S[k] = S[k - 1] + DQ!Micros(q[k].delta)
    BY <1>2, <1>6 DEF IsSums
  <1>9. DQ!Micros(q[k].delta) \in Nat
    <2>1. q[k] \in Links
      BY <1>6
    <2>2. q[k].delta \in Moments
      BY <2>1 DEF Links
    <2> QED
      BY <2>2, MicrosGe
  <1>10. S[i] \in Nat /\ S[k - 1] \in Nat
    BY <1>1, <1>2, <1>6, SMTT(30) DEF IsSums
  <1> QED
    BY <1>4, <1>7, <1>8, <1>9, <1>10

\* The entries of a list, and their deltas.
LEMMA LinkTypes ==
  ASSUME MILLION \in Nat \ {0}, NEW q \in Seq(Links), NEW i \in 1 .. Len(q)
  PROVE  q[i].id \in Tasks \cup {Sentinel} /\ q[i].delta \in Moments /\ DQ!Micros(q[i].delta) \in Nat
  <1>1. q[i] \in Links
    OBVIOUS
  <1>2. q[i].id \in Tasks \cup {Sentinel} /\ q[i].delta \in Moments
    BY <1>1 DEF Links
  <1> QED
    BY <1>2, MicrosGe

\* What is left at each entry of the time a walk is given.
IsTimes(T, q, t) ==
    /\ T \in [1 .. Len(q) -> Moments]
    /\ \A i \in 1 .. Len(q) : T[i] = IF i = 1 THEN t ELSE DQ!Minus(T[i - 1], q[i - 1].delta)

LEMMA TimesExist ==
  ASSUME MILLION \in Nat \ {0}, NEW q \in Seq(Links), NEW t \in Moments
  PROVE  \E T : IsTimes(T, q, t)
  <1> DEFINE D(i) == q[i].delta
             Upto(T, k) == /\ T \in [1 .. k -> Moments]
                           /\ \A i \in 1 .. k : T[i] = IF i = 1 THEN t ELSE DQ!Minus(T[i - 1], D(i - 1))
             Missing == {k \in 0 .. Len(q) : ~\E T : Upto(T, k)}
  <1>1. Len(q) \in Nat
    OBVIOUS
  <1>2. \A i \in 1 .. Len(q) : D(i) \in Moments
    BY LinkTypes
  <1> HIDE DEF D
  <1>3. SUFFICES ASSUME Missing # {} PROVE FALSE
    <2>1. Len(q) \in 0 .. Len(q)
      BY <1>1
    <2>2. Missing = {} => \E T : Upto(T, Len(q))
      BY <2>1, Zenon
    <2> QED
      BY <1>3, <2>2 DEF IsTimes, D
  <1>4. PICK k \in Missing : \A m \in Missing : k <= m
    <2>1. Missing \subseteq Nat
      BY <1>1
    <2> QED
      BY <1>3, <2>1, Least, Zenon
  <1>5. k \in 0 .. Len(q) /\ ~\E T : Upto(T, k)
    BY <1>4
  <1>6. CASE k = 0
    <2>1. Upto([i \in 1 .. 0 |-> t], 0)
      OBVIOUS
    <2> QED
      BY <1>5, <1>6, <2>1, Zenon
  <1>7. CASE k # 0
    <2>1. k - 1 \in 0 .. Len(q) /\ ~(k <= k - 1)
      BY <1>1, <1>5, <1>7
    <2>2. k - 1 \notin Missing
      BY <1>4, <2>1, Zenon
    <2>3. PICK T : Upto(T, k - 1)
      BY <2>1, <2>2
    <2> DEFINE last == IF k = 1 THEN t ELSE DQ!Minus(T[k - 1], D(k - 1))
               G == [i \in 1 .. k |-> IF i < k THEN T[i] ELSE last]
    <2>4. k \in Nat /\ k \in 1 .. Len(q)
      BY <1>1, <1>5, <1>7
    <2>5. last \in Moments
      <3>1. CASE k = 1
        BY <3>1
      <3>2. CASE k # 1
        <4>1. T[k - 1] \in Moments /\ D(k - 1) \in Moments
          BY <1>2, <2>3, <2>4, <3>2
        <4> QED
          BY <3>2, <4>1, MicrosMinus
      <3> QED
        BY <3>1, <3>2
    <2>6. G \in [1 .. k -> Moments]
      <3> HIDE DEF last
      <3> QED
        BY <2>3, <2>4, <2>5
    <2>7. ASSUME NEW i \in 1 .. k
          PROVE  G[i] = IF i = 1 THEN t ELSE DQ!Minus(G[i - 1], D(i - 1))
      <3>1. i # 1 => G[i - 1] = T[i - 1]
        BY <2>4
      <3>2. CASE i = k
        BY <2>4, <3>1, <3>2
      <3>3. CASE i # k
        <4>1. i \in 1 .. k - 1 /\ i < k
          BY <2>4, <3>3
        <4>2. G[i] = T[i]
          BY <4>1
        <4> QED
          BY <2>3, <3>1, <4>1, <4>2
      <3> QED
        BY <3>2, <3>3
    <2>8. Upto(G, k)
      BY <2>6, <2>7
    <2> QED
      BY <1>5, <2>8, Zenon
  <1> QED
    BY <1>6, <1>7

\* With sums of the deltas that time is arithmetic on microseconds.
LEMMA TimesRight ==
  ASSUME MILLION \in Nat \ {0}, NEW q \in Seq(Links), NEW t \in Moments, NEW i \in 1 .. Len(q)
  PROVE  LET left == DQ!Micros(t) - DQ!Sums(q)[i - 1]
         IN  /\ DQ!TimeAt(q, t)[i] \in Moments
             /\ DQ!Micros(DQ!TimeAt(q, t)[i]) = IF left > 0 THEN left ELSE 0
  <1> DEFINE Body(F) == [j \in 1 .. Len(q) |-> IF j = 1 THEN t ELSE DQ!Minus(F[j - 1], q[j - 1].delta)]
             T == DQ!TimeAt(q, t)
             S == DQ!Sums(q)
             m == DQ!Micros(t)
             Right(j) == /\ T[j] \in Moments
                         /\ DQ!Micros(T[j]) = IF m - S[j - 1] > 0 THEN m - S[j - 1] ELSE 0
             Wrong == {j \in 1 .. Len(q) : ~Right(j)}
  <1>1. Len(q) \in Nat
    OBVIOUS
  <1>2. PICK F : IsTimes(F, q, t)
    BY TimesExist
  <1>3. F = Body(F)
    BY <1>2 DEF IsTimes
  <1>4. T = CHOOSE G : G = Body(G)
    BY DEF DQ!TimeAt
  <1>5. IsSums(S, q) /\ m \in Nat
    BY SumsRight, MicrosGe
  <1> HIDE DEF T, S, m
  <1>6. T = Body(T)
    BY <1>3, <1>4, Zenon
  <1>7. \A j \in 1 .. Len(q) : T[j] = IF j = 1 THEN t ELSE DQ!Minus(T[j - 1], q[j - 1].delta)
    BY <1>6, Zenon
  <1>8. SUFFICES ASSUME Wrong # {} PROVE FALSE
    BY <1>8 DEF T, S, m
  <1>9. PICK k \in Wrong : \A j \in Wrong : k <= j
    <2>1. Wrong \subseteq Nat
      BY <1>1
    <2> QED
      BY <1>8, <2>1, Least, Zenon
  <1>10. k \in 1 .. Len(q) /\ ~Right(k)
    BY <1>9
  <1>11. CASE k = 1
    <2>1. T[k] = t /\ S[k - 1] = 0
      BY <1>5, <1>7, <1>10, <1>11 DEF IsSums
    <2> QED
      BY <1>5, <1>10, <2>1 DEF m
  <1>12. CASE k # 1
    <2>1. k - 1 \in 1 .. Len(q) /\ ~(k <= k - 1) /\ k - 2 \in 0 .. Len(q)
      BY <1>1, <1>10, <1>12
    <2>2. Right(k - 1)
      BY <1>9, <2>1
    <2>3. q[k - 1].delta \in Moments /\ DQ!Micros(q[k - 1].delta) \in Nat
      BY <2>1, LinkTypes
    <2>4. PICK x \in Nat, y \in Nat, d \in Nat :
             /\ S[k - 1] = y /\ S[k - 2] = x /\ DQ!Micros(q[k - 1].delta) = d /\ y = x + d
      <3>1. S[k - 1] = S[k - 1 - 1] + DQ!Micros(q[k - 1].delta) /\ k - 1 - 1 = k - 2
        BY <1>5, <2>1 DEF IsSums
      <3>2. \A j \in 0 .. Len(q) : S[j] \in Nat
        BY <1>5 DEF IsSums
      <3>3. S[k - 1] \in Nat /\ S[k - 2] \in Nat
        BY <1>1, <2>1, <3>2
      <3> QED
        BY <2>3, <3>1, <3>3
    <2>5. /\ T[k - 1] \in Moments
          /\ DQ!Micros(T[k - 1]) = IF m - x > 0 THEN m - x ELSE 0
      <3>1. k - 1 - 1 = k - 2
        BY <2>1
      <3> QED
        BY <2>2, <2>4, <3>1
    <2>6. T[k] = DQ!Minus(T[k - 1], q[k - 1].delta)
      BY <1>7, <1>10, <1>12
    <2>7. /\ T[k] \in Moments
          /\ DQ!Micros(T[k]) = IF DQ!Micros(T[k - 1]) > d THEN DQ!Micros(T[k - 1]) - d ELSE 0
      BY <2>3, <2>4, <2>5, <2>6, MicrosMinus
    <2>8. DQ!Micros(T[k]) = IF m - y > 0 THEN m - y ELSE 0
      BY <1>5, <2>4, <2>5, <2>7
    <2> QED
      BY <1>10, <2>4, <2>7, <2>8
  <1> QED
    BY <1>11, <1>12

\* A time that is shorter than all deltas together stops a walk: at the first entry
\* that is later than it.
LEMMA StopRight ==
  ASSUME MILLION \in Nat \ {0}, NEW q \in Seq(Links), NEW t \in Moments,
         DQ!Micros(t) < DQ!Sums(q)[Len(q)]
  PROVE  LET S == DQ!Sums(q)
             k == DQ!StopOf(q, t)
         IN  /\ k \in 1 .. Len(q)
             /\ \A i \in 0 .. k - 1 : S[i] <= DQ!Micros(t)
             /\ \A i \in k .. Len(q) : S[i] > DQ!Micros(t)
             /\ DQ!TimeAt(q, t)[k] \in Moments
             /\ DQ!Micros(DQ!TimeAt(q, t)[k]) = DQ!Micros(t) - S[k - 1]
  <1> DEFINE S == DQ!Sums(q)
             T == DQ!TimeAt(q, t)
             m == DQ!Micros(t)
             Stops == {i \in 1 .. Len(q) : DQ!Lt(T[i], q[i].delta)}
             Later == {i \in 0 .. Len(q) : S[i] > m}
  <1>1. Len(q) \in Nat /\ m \in Nat /\ IsSums(S, q)
    BY MicrosGe, SumsRight
  <1>2. ASSUME NEW i \in 1 .. Len(q)
        PROVE  /\ S[i] \in Nat /\ S[i - 1] \in Nat /\ S[i - 1] <= S[i]
               /\ T[i] \in Moments
               /\ DQ!Micros(T[i]) = IF m - S[i - 1] > 0 THEN m - S[i - 1] ELSE 0
               /\ DQ!Lt(T[i], q[i].delta) <=> DQ!Micros(T[i]) < S[i] - S[i - 1]
    <2>1. T[i] \in Moments /\ DQ!Micros(T[i]) = IF m - S[i - 1] > 0 THEN m - S[i - 1] ELSE 0
      BY TimesRight
    <2>2. q[i].delta \in Moments /\ DQ!Micros(q[i].delta) \in Nat
      BY LinkTypes
    <2>3. DQ!Lt(T[i], q[i].delta) <=> DQ!Micros(T[i]) < DQ!Micros(q[i].delta)
      BY <2>1, <2>2, MicrosGe
    <2> HIDE DEF S, T
    <2>4. i - 1 \in 0 .. Len(q) /\ i \in 0 .. Len(q)
      BY <1>1
    <2>5. \A j \in 0 .. Len(q) : S[j] \in Nat
      BY <1>1 DEF IsSums
    <2>6. S[i] \in Nat /\ S[i - 1] \in Nat
      BY <2>4, <2>5
    <2>7. S[i] = S[i - 1] + DQ!Micros(q[i].delta)
      BY <1>1 DEF IsSums
    <2>8. DQ!Micros(q[i].delta) = S[i] - S[i - 1] /\ S[i - 1] <= S[i]
      BY <2>2, <2>6, <2>7
    <2> QED
      BY <2>1, <2>3, <2>6, <2>8
  <1>3. S[0] = 0 /\ S[Len(q)] > m
    BY <1>1 DEF IsSums
  <1>4. \A i \in 0 .. Len(q) : \A j \in i .. Len(q) : S[i] <= S[j]
    BY SumsGrow
  <1>5. \A i \in 0 .. Len(q) : S[i] \in Nat
    BY <1>1 DEF IsSums
  <1> HIDE DEF S, T, m
  <1>6. PICK k \in Later : \A j \in Later : k <= j
    <2>1. Later \subseteq Nat /\ Len(q) \in Later
      BY <1>1, <1>3
    <2> QED
      BY <2>1, Least, Zenon
  <1>7. k \in 1 .. Len(q) /\ S[k] > m
    BY <1>1, <1>3, <1>6
  <1>8. ASSUME NEW i \in 0 .. k - 1 PROVE S[i] <= m
    <2>1. i \in 0 .. Len(q) /\ ~(k <= i)
      BY <1>1, <1>7
    <2>2. ~(S[i] > m)
      BY <1>6, <2>1
    <2> QED
      BY <1>1, <1>5, <2>1, <2>2
  <1>9. ASSUME NEW i \in k .. Len(q) PROVE S[i] > m
    <2>1. k \in 0 .. Len(q) /\ i \in 0 .. Len(q)
      BY <1>1, <1>7
    <2>2. S[k] <= S[i]
      BY <1>4, <2>1
    <2> QED
      BY <1>1, <1>5, <1>7, <2>1, <2>2
  <1>10. S[k - 1] <= m
    BY <1>7, <1>8
  <1>11. DQ!Micros(T[k]) = m - S[k - 1] /\ T[k] \in Moments
    <2>1. /\ S[k - 1] \in Nat /\ T[k] \in Moments
          /\ DQ!Micros(T[k]) = IF m - S[k - 1] > 0 THEN m - S[k - 1] ELSE 0
      BY <1>2, <1>7
    <2> QED
      BY <1>1, <1>10, <2>1
  <1>12. k \in Stops
    <2>1. /\ S[k - 1] \in Nat /\ S[k] \in Nat
          /\ DQ!Lt(T[k], q[k].delta) <=> DQ!Micros(T[k]) < S[k] - S[k - 1]
      BY <1>2, <1>7
    <2>2. m - S[k - 1] < S[k] - S[k - 1]
      BY <1>1, <1>7, <2>1
    <2> QED
      BY <1>7, <1>11, <2>1, <2>2
  <1>13. ASSUME NEW i \in Stops PROVE k <= i
    <2>1. /\ S[i - 1] \in Nat /\ S[i] \in Nat /\ i \in 1 .. Len(q)
          /\ DQ!Micros(T[i]) = IF m - S[i - 1] > 0 THEN m - S[i - 1] ELSE 0
          /\ DQ!Micros(T[i]) < S[i] - S[i - 1]
      BY <1>2
    <2>2. S[i] > m
      BY <1>1, <2>1
    <2>3. i \in 0 .. Len(q)
      BY <2>1
    <2> QED
      BY <1>6, <2>2, <2>3
  <1>14. DQ!StopOf(q, t) = DQ!Min(Stops)
    BY DEF DQ!StopOf, T
  <1>15. DQ!Min(Stops) = k
    <2>1. Stops \subseteq Nat
      BY <1>1
    <2>2. \A i \in Stops : (\A j \in Stops : i <= j) => i = k
      BY <1>7, <1>12, <1>13, <2>1
    <2> HIDE DEF Stops
    <2>3. DQ!Min(Stops) = CHOOSE i \in Stops : \A j \in Stops : i =< j
      BY DEF DQ!Min
    <2> QED
      BY <1>12, <1>13, <2>2, <2>3, Zenon
  <1>16. DQ!StopOf(q, t) = k
    BY <1>14, <1>15
  <1> QED
    BY <1>7, <1>8, <1>9, <1>11, <1>16 DEF S, T, m

\* A part of a sequence replaced by another.
Spliced(s, mid, p, r) == SubSeq(s, 1, p) \o mid \o SubSeq(s, r + 1, Len(s))

IsSplice(u, E, s, mid, p, r) ==
    /\ u \in Seq(E) /\ Len(u) = p + Len(mid) + (Len(s) - r)
    /\ \A i \in 1 .. p : u[i] = s[i]
    /\ \A i \in 1 .. Len(mid) : u[p + i] = mid[i]
    /\ \A i \in 1 .. Len(s) - r : u[p + Len(mid) + i] = s[r + i]

LEMMA Splice ==
  ASSUME NEW E, NEW s \in Seq(E), NEW mid \in Seq(E), NEW p \in 0 .. Len(s), NEW r \in p .. Len(s)
  PROVE  IsSplice(Spliced(s, mid, p, r), E, s, mid, p, r)
  <1> DEFINE front == SubSeq(s, 1, p)
             rest  == SubSeq(s, r + 1, Len(s))
             l == Len(mid)
             n == Len(s)
  <1>0. p \in Nat /\ r \in Nat /\ l \in Nat /\ n \in Nat /\ p <= r /\ r <= n
    OBVIOUS
  <1>1. /\ front \in Seq(E) /\ Len(front) = p
        /\ \A i \in 1 .. p : front[i] = s[i]
    <2>1. \A i \in 1 .. p : s[i] \in E
      BY <1>0
    <2>2. /\ front \in Seq(E) /\ Len(front) = IF 1 <= p THEN p - 1 + 1 ELSE 0
          /\ \A i \in 1 .. p - 1 + 1 : front[i] = s[1 + i - 1]
      BY <1>0, <2>1, SubSeqProperties
    <2> QED
      BY <1>0, <2>2
  <1>2. /\ rest \in Seq(E) /\ Len(rest) = n - r
        /\ \A i \in 1 .. n - r : rest[i] = s[r + i]
    <2>1. /\ \A i \in r + 1 .. n : s[i] \in E
          /\ r + 1 \in Int /\ n \in Int
      BY <1>0
    <2>2. /\ rest \in Seq(E) /\ Len(rest) = IF r + 1 <= n THEN n - (r + 1) + 1 ELSE 0
          /\ \A i \in 1 .. n - (r + 1) + 1 : rest[i] = s[r + 1 + i - 1]
      BY <2>1, SubSeqProperties
    <2>3. n - (r + 1) + 1 = n - r
      BY <1>0
    <2>4. \A i \in 1 .. n - r : r + 1 + i - 1 = r + i
      BY <1>0
    <2>5. \A i \in 1 .. n - r : rest[i] = s[r + 1 + i - 1]
      BY <2>2, <2>3, Zenon
    <2>6. \A i \in 1 .. n - r : rest[i] = s[r + i]
      BY <2>4, <2>5, Zenon
    <2>7. Len(rest) = n - r
      <3>1. Len(rest) = IF r + 1 <= n THEN n - (r + 1) + 1 ELSE 0
        BY <2>2, Zenon
      <3> HIDE DEF rest, n
      <3>2. \A x : x = (IF r + 1 <= n THEN n - (r + 1) + 1 ELSE 0) => x = n - r
        BY <1>0
      <3> QED
        BY ONLY <3>1, <3>2, Zenon
    <2> QED
      BY <2>2, <2>6, <2>7, Zenon
  <1> HIDE DEF front, rest, n
  <1>3. /\ front \o mid \in Seq(E) /\ Len(front \o mid) = p + l
        /\ \A i \in 1 .. p + l : (front \o mid)[i] = IF i <= p THEN front[i] ELSE mid[i - p]
    BY <1>1, ConcatProperties, Zenon
  <1> DEFINE w == front \o mid
             u == w \o rest
  <1> HIDE DEF w, l
  <1>4. /\ u \in Seq(E) /\ Len(u) = p + l + (n - r)
        /\ \A i \in 1 .. p + l + (n - r) : u[i] = IF i <= p + l THEN w[i] ELSE rest[i - (p + l)]
    <2>1. w \in Seq(E) /\ Len(w) = p + l
      BY <1>3 DEF w
    <2>2. /\ u \in Seq(E) /\ Len(u) = Len(w) + Len(rest)
          /\ \A i \in 1 .. Len(w) + Len(rest) : u[i] = IF i <= Len(w) THEN w[i] ELSE rest[i - Len(w)]
      BY <1>2, <2>1, ConcatProperties, Zenon
    <2> QED
      BY <1>2, <2>1, <2>2, Zenon
  <1> HIDE DEF u
  <1>5. ASSUME NEW i \in 1 .. p PROVE u[i] = s[i]
    <2>1. i \in 1 .. p + l + (n - r) /\ i <= p + l /\ i \in 1 .. p + l /\ i <= p
      BY <1>0
    <2> QED
      BY <1>1, <1>3, <1>4, <2>1 DEF w
  <1>6. ASSUME NEW i \in 1 .. l PROVE u[p + i] = mid[i]
    <2>1. PICK j : j = p + i
      OBVIOUS
    <2>2. /\ j \in 1 .. p + l + (n - r) /\ j <= p + l /\ j \in 1 .. p + l
          /\ ~(j <= p) /\ j - p = i
      BY <1>0, <2>1
    <2>3. u[j] = w[j]
      BY <1>4, <2>2, Zenon
    <2>4. w[j] = mid[j - p]
      BY <1>3, <2>2, Zenon DEF w
    <2> QED
      BY <2>1, <2>2, <2>3, <2>4
  <1>7. ASSUME NEW i \in 1 .. n - r PROVE u[p + l + i] = s[r + i]
    <2>1. PICK j : j = p + l + i
      OBVIOUS
    <2>2. /\ j \in 1 .. p + l + (n - r) /\ ~(j <= p + l) /\ j - (p + l) = i
      BY <1>0, <2>1
    <2>3. u[j] = rest[j - (p + l)]
      BY <1>4, <2>2, Zenon
    <2>4. u[j] = s[r + i]
      BY <1>2, <2>2, <2>3
    <2> QED
      BY <2>1, <2>4
  <1> QED
    BY <1>4, <1>5, <1>6, <1>7, Zenon DEF u, w, front, rest, l, n, Spliced, IsSplice

-----------------------------------------------------------------------------
(* DelayQueue: the list *)

\* A list of entries that ends with the sentinel and holds each entry once.
Chain(q) == /\ q \in Seq(Links) /\ Len(q) >= 1
            /\ \A i \in 1 .. Len(q) : q[i].id = Sentinel <=> i = Len(q)
            /\ \A i, j \in 1 .. Len(q) : q[i].id = q[j].id => i = j

\* The list r is q, e microseconds later.
Later(q, r, e) ==
    /\ Chain(r) /\ Len(r) = Len(q)
    /\ \A i \in 1 .. Len(q) : r[i].id = q[i].id
    /\ \A i \in 0 .. Len(q) :
          DQ!Sums(r)[i] = IF DQ!Sums(q)[i] > e THEN DQ!Sums(q)[i] - e ELSE 0

LEMMA ElapseRight ==
  ASSUME MILLION \in Nat \ {0}, NEW q, Chain(q), NEW t \in Moments,
         DQ!Micros(t) < DQ!Sums(q)[Len(q)]
  PROVE  Later(q, DQ!Elapse(q, t), DQ!Micros(t))
  <1> DEFINE S == DQ!Sums(q)
             T == DQ!TimeAt(q, t)
             m == DQ!Micros(t)
             k == DQ!StopOf(q, t)
             n == Len(q)
             Delta(i) == IF i < k THEN DQ!Zero
                         ELSE IF i = k THEN DQ!Minus(q[i].delta, T[i])
                         ELSE q[i].delta
             r == [i \in 1 .. n |-> [id |-> q[i].id, delta |-> Delta(i)]]
             F == [i \in 0 .. n |-> IF S[i] > m THEN S[i] - m ELSE 0]
  <1>1. q \in Seq(Links) /\ n \in Nat /\ n >= 1
    BY DEF Chain
  <1>2. /\ k \in 1 .. n
        /\ \A i \in 0 .. k - 1 : S[i] <= m
        /\ \A i \in k .. n : S[i] > m
        /\ T[k] \in Moments /\ DQ!Micros(T[k]) = m - S[k - 1]
    BY <1>1, StopRight
  <1>3. m \in Nat /\ IsSums(S, q)
    BY <1>1, MicrosGe, SumsRight
  <1>4. DQ!Elapse(q, t) = r
    BY DEF DQ!Elapse, DQ!Entry
  <1>5. \A i \in 0 .. n : S[i] \in Nat
    BY <1>3 DEF IsSums
  <1>6. \A i \in 1 .. n : /\ q[i].id \in Tasks \cup {Sentinel} /\ q[i].delta \in Moments
                          /\ DQ!Micros(q[i].delta) \in Nat
                          /\ S[i] = S[i - 1] + DQ!Micros(q[i].delta)
    BY <1>1, <1>3, LinkTypes DEF IsSums
  <1>7. DQ!Zero \in Moments /\ DQ!Micros(DQ!Zero) = 0
    BY DEF DQ!Zero, DQ!Tv, DQ!Micros, Moments
  <1> HIDE DEF S, T, m, k, n
  <1>8. ASSUME NEW i \in 1 .. n
        PROVE  Delta(i) \in Moments /\ F[i] = F[i - 1] + DQ!Micros(Delta(i))
    <2>1. i - 1 \in 0 .. n /\ i \in 0 .. n /\ i \in Nat /\ k \in Nat
      BY <1>1, <1>2
    <2>2. F[i] = (IF S[i] > m THEN S[i] - m ELSE 0) /\ F[i - 1] = (IF S[i - 1] > m THEN S[i - 1] - m ELSE 0)
      BY <2>1
    <2>3. S[i] \in Nat /\ S[i - 1] \in Nat
      BY <1>5, <2>1
    <2>4. CASE i < k
      <3>1. i \in 0 .. k - 1 /\ i - 1 \in 0 .. k - 1
        BY <2>1, <2>4
      <3>2. S[i] <= m /\ S[i - 1] <= m
        BY <1>2, <3>1
      <3>3. F[i] = 0 /\ F[i - 1] = 0
        BY <1>3, <2>2, <2>3, <3>2
      <3> QED
        BY <1>7, <2>4, <3>3
    <2>5. CASE i = k
      <3>1. i - 1 \in 0 .. k - 1 /\ i \in k .. n
        BY <1>2, <2>1, <2>5
      <3>2. S[i] > m /\ S[i - 1] <= m
        BY <1>2, <3>1
      <3>3. F[i] = S[i] - m /\ F[i - 1] = 0
        BY <1>3, <2>2, <2>3, <3>2
      <3>4. T[i] \in Moments /\ DQ!Micros(T[i]) = m - S[i - 1]
        BY <1>2, <2>5
      <3>5. /\ Delta(i) = DQ!Minus(q[i].delta, T[i])
        BY <2>1, <2>5
      <3>6. /\ q[i].delta \in Moments /\ DQ!Micros(q[i].delta) \in Nat
            /\ S[i] = S[i - 1] + DQ!Micros(q[i].delta)
        BY <1>6
      <3>7. /\ Delta(i) \in Moments
            /\ DQ!Micros(Delta(i)) = IF DQ!Micros(q[i].delta) > DQ!Micros(T[i])
                                     THEN DQ!Micros(q[i].delta) - DQ!Micros(T[i]) ELSE 0
        BY <3>4, <3>5, <3>6, MicrosMinus
      <3>8. DQ!Micros(Delta(i)) = S[i] - m
        <4> HIDE DEF Delta
        <4> QED
          BY <1>3, <2>3, <3>2, <3>4, <3>6, <3>7
      <3> QED
        BY <1>3, <2>3, <3>3, <3>7, <3>8
    <2>6. CASE ~(i < k) /\ i # k
      <3>1. i - 1 \in k .. n /\ i \in k .. n
        BY <1>1, <2>1, <2>6
      <3>2. S[i] > m /\ S[i - 1] > m
        BY <1>2, <3>1
      <3>3. Delta(i) = q[i].delta
        BY <2>6
      <3>4. /\ q[i].delta \in Moments /\ DQ!Micros(q[i].delta) \in Nat
            /\ S[i] = S[i - 1] + DQ!Micros(q[i].delta)
        BY <1>6
      <3>5. F[i] = S[i] - m /\ F[i - 1] = S[i - 1] - m
        BY <2>2, <3>2
      <3>6. S[i] - m = S[i - 1] - m + DQ!Micros(q[i].delta)
        BY <1>3, <2>3, <3>4
      <3> QED
        BY <3>3, <3>4, <3>5, <3>6
    <2> QED
      BY <2>4, <2>5, <2>6
  <1>9. \A i \in 1 .. n : r[i].id = q[i].id /\ r[i].delta = Delta(i) /\ r[i] \in Links
    BY <1>6, <1>8, Zenon DEF Links
  <1> HIDE DEF Delta, F
  <1>10. r \in Seq(Links) /\ Len(r) = n
    BY <1>1, <1>9
  <1> HIDE DEF r
  <1>11. Chain(r)
    BY <1>1, <1>9, <1>10 DEF Chain, n
  <1>12. F[0] = 0 /\ \A i \in 1 .. Len(r) : F[i] = F[i - 1] + DQ!Micros(r[i].delta)
    <2>1. F[0] = 0
      BY <1>1, <1>2, <1>3, <1>5 DEF F
    <2> QED
      BY <1>8, <1>9, <1>10, <2>1
  <1>13. \A i \in 0 .. n : F[i] = DQ!Sums(r)[i]
    <2>1. IsSums(DQ!Sums(r), r)
      BY <1>10, SumsRight
    <2> QED
      BY <1>10, <1>12, <2>1, SumsUnique
  <1>14. \A i \in 0 .. n : DQ!Sums(r)[i] = IF S[i] > m THEN S[i] - m ELSE 0
    BY <1>13 DEF F
  <1> QED
    BY <1>4, <1>9, <1>10, <1>11, <1>14 DEF Later, S, m, n

\* AddEntry: the entry comes behind those that are due no later, and all others keep
\* the time they had left.
LEMMA InsertRight ==
  ASSUME MILLION \in Nat \ {0}, Sentinel \notin Tasks,
         NEW q, Chain(q), NEW id \in Tasks, \A i \in 1 .. Len(q) : q[i].id # id,
         NEW t \in Moments, DQ!Micros(t) < DQ!Sums(q)[Len(q)]
  PROVE  LET S == DQ!Sums(q)
             k == DQ!StopOf(q, t)
             r == DQ!Insert(q, DQ!Entry(id, t))
         IN  /\ Chain(r) /\ Len(r) = Len(q) + 1
             /\ \A i \in 1 .. k - 1 : r[i].id = q[i].id /\ DQ!Sums(r)[i] = S[i]
             /\ r[k].id = id /\ DQ!Sums(r)[k] = DQ!Micros(t)
             /\ \A i \in k .. Len(q) : r[i + 1].id = q[i].id /\ DQ!Sums(r)[i + 1] = S[i]
  <1> DEFINE S == DQ!Sums(q)
             T == DQ!TimeAt(q, t)
             m == DQ!Micros(t)
             k == DQ!StopOf(q, t)
             n == Len(q)
             new  == [id |-> id, delta |-> T[k]]
             moved == [id |-> q[k].id, delta |-> DQ!Minus(q[k].delta, T[k])]
             r == SubSeq(q, 1, k - 1) \o <<new, moved>> \o SubSeq(q, k + 1, n)
             F == [i \in 0 .. n + 1 |-> IF i < k THEN S[i] ELSE IF i = k THEN m ELSE S[i - 1]]
  <1>1. q \in Seq(Links) /\ n \in Nat /\ n >= 1
    BY DEF Chain
  <1>2. /\ k \in 1 .. n
        /\ \A i \in 0 .. k - 1 : S[i] <= m
        /\ \A i \in k .. n : S[i] > m
        /\ T[k] \in Moments /\ DQ!Micros(T[k]) = m - S[k - 1]
    BY <1>1, StopRight
  <1>3. m \in Nat /\ IsSums(S, q)
    BY <1>1, MicrosGe, SumsRight
  <1>4. DQ!Insert(q, DQ!Entry(id, t)) = r
    BY Zenon DEF DQ!Insert, DQ!Entry
  <1>5. \A i \in 0 .. n : S[i] \in Nat
    BY <1>3 DEF IsSums
  <1>6. \A i \in 1 .. n : /\ q[i].id \in Tasks \cup {Sentinel} /\ q[i].delta \in Moments
                          /\ DQ!Micros(q[i].delta) \in Nat
                          /\ S[i] = S[i - 1] + DQ!Micros(q[i].delta)
    BY <1>1, <1>3, LinkTypes DEF IsSums
  <1> HIDE DEF S, T, m, k
  <1>7. new \in Links /\ new.id = id /\ DQ!Micros(new.delta) = m - S[k - 1]
    BY <1>2 DEF Links
  <1>8. S[k] \in Nat /\ S[k - 1] \in Nat /\ S[k - 1] <= m /\ S[k] > m /\ S[k] = S[k - 1] + DQ!Micros(q[k].delta)
    <2>1. k - 1 \in 0 .. k - 1 /\ k - 1 \in 0 .. n /\ k \in 0 .. n /\ k \in k .. n
      BY <1>1, <1>2
    <2> QED
      BY <1>2, <1>5, <1>6, <2>1, Zenon
  <1>9. moved \in Links /\ moved.id = q[k].id /\ DQ!Micros(moved.delta) = S[k] - m
    <2>1. /\ q[k].id \in Tasks \cup {Sentinel} /\ q[k].delta \in Moments
          /\ DQ!Micros(q[k].delta) \in Nat
      BY <1>2, <1>6
    <2>2. /\ DQ!Minus(q[k].delta, T[k]) \in Moments
          /\ DQ!Micros(DQ!Minus(q[k].delta, T[k])) =
                IF DQ!Micros(q[k].delta) > DQ!Micros(T[k])
                THEN DQ!Micros(q[k].delta) - DQ!Micros(T[k]) ELSE 0
      BY <1>2, <2>1, MicrosMinus
    <2>3. DQ!Micros(DQ!Minus(q[k].delta, T[k])) = S[k] - m
      BY <1>2, <1>3, <1>8, <2>1, <2>2
    <2> QED
      BY <2>1, <2>2, <2>3 DEF Links
  <1> HIDE DEF new, moved
  <1>10. /\ r \in Seq(Links) /\ Len(r) = n + 1
         /\ \A i \in 1 .. k - 1 : r[i] = q[i]
         /\ r[k] = new /\ r[k + 1] = moved
         /\ \A i \in k + 1 .. n : r[i + 1] = q[i]
    <2> DEFINE two == <<new, moved>>
    <2>1. two \in Seq(Links) /\ Len(two) = 2 /\ two[1] = new /\ two[2] = moved
      BY <1>7, <1>9
    <2>2. k - 1 \in 0 .. Len(q) /\ k \in k - 1 .. Len(q) /\ k \in Nat
      BY <1>1, <1>2
    <2> HIDE DEF two
    <2>3. /\ r \in Seq(Links) /\ Len(r) = k - 1 + Len(two) + (Len(q) - k)
          /\ \A i \in 1 .. k - 1 : r[i] = q[i]
          /\ \A i \in 1 .. Len(two) : r[k - 1 + i] = two[i]
          /\ \A i \in 1 .. Len(q) - k : r[k - 1 + Len(two) + i] = q[k + i]
      <3>1. r = Spliced(q, two, k - 1, k)
        BY DEF two, Spliced
      <3>2. IsSplice(Spliced(q, two, k - 1, k), Links, q, two, k - 1, k)
        BY <1>1, <2>1, <2>2, Splice
      <3> HIDE DEF r
      <3> QED
        BY <3>1, <3>2, Zenon DEF IsSplice
    <2> HIDE DEF r, n
    <2>4. Len(r) = n + 1
      BY <1>1, <2>1, <2>2, <2>3 DEF n
    <2>5. r[k] = new /\ r[k + 1] = moved
      <3>1. r[k - 1 + 1] = two[1] /\ r[k - 1 + 2] = two[2]
        <4>1. 1 \in 1 .. Len(two) /\ 2 \in 1 .. Len(two)
          BY <2>1
        <4> QED
          BY <2>3, <4>1, Zenon
      <3>2. k - 1 + 1 = k /\ k - 1 + 2 = k + 1
        BY <2>2
      <3> QED
        BY <2>1, <3>1, <3>2
    <2>6. ASSUME NEW i \in k + 1 .. n PROVE r[i + 1] = q[i]
      <3>1. PICK j \in 1 .. Len(q) - k : j = i - k
        BY <1>1, <2>2 DEF n
      <3>2. r[k - 1 + Len(two) + j] = q[k + j]
        BY <2>3
      <3>3. k - 1 + Len(two) + j = i + 1 /\ k + j = i
        BY <2>1, <2>2, <3>1
      <3> QED
        BY <3>2, <3>3
    <2> QED
      BY <2>3, <2>4, <2>5, <2>6
  <1> HIDE DEF r
  <1>11. /\ \A i \in 1 .. k - 1 : r[i].id = q[i].id
         /\ r[k].id = id
         /\ \A i \in k .. n : r[i + 1].id = q[i].id
    <2>1. \A i \in 1 .. k - 1 : r[i].id = q[i].id
      BY <1>10, Zenon
    <2>2. r[k].id = id
      BY <1>7, <1>10
    <2>3. ASSUME NEW i \in k .. n PROVE r[i + 1].id = q[i].id
      <3>1. CASE i = k
        BY <1>9, <1>10, <3>1
      <3>2. CASE i # k
        <4>1. i \in k + 1 .. n
          BY <1>1, <1>2, <3>2
        <4> QED
          BY <1>10, <4>1
      <3> QED
        BY <3>1, <3>2
    <2> QED
      BY <2>1, <2>2, <2>3
  <1>12. Chain(r)
    <2>1. \A i \in 1 .. n : /\ q[i].id = Sentinel <=> i = n
                            /\ q[i].id # id
      BY DEF Chain
    <2>2. \A i, j \in 1 .. n : q[i].id = q[j].id => i = j
      BY DEF Chain
    <2> DEFINE Old(i) == IF i < k THEN i ELSE i - 1
    <2>3. ASSUME NEW i \in 1 .. n + 1, i # k PROVE Old(i) \in 1 .. n /\ r[i].id = q[Old(i)].id
      <3>1. CASE i < k
        <4>1. i \in 1 .. k - 1 /\ i \in 1 .. n /\ Old(i) = i
          BY <1>1, <1>2, <3>1
        <4> QED
          BY <1>11, <4>1
      <3>2. CASE ~(i < k)
        <4>1. Old(i) \in k .. n /\ Old(i) \in 1 .. n /\ Old(i) + 1 = i
          BY <1>1, <1>2, <2>3, <3>2
        <4> QED
          BY <1>11, <4>1
      <3> QED
        BY <3>1, <3>2
    <2>4. ASSUME NEW i \in 1 .. n + 1 PROVE r[i].id = Sentinel <=> i = n + 1
      <3>1. CASE i = k
        BY <1>1, <1>2, <1>11, <3>1
      <3>2. CASE i # k
        <4>1. r[i].id = Sentinel <=> Old(i) = n
          BY <2>1, <2>3, <3>2
        <4>2. Old(i) = n <=> i = n + 1
          BY <1>1, <1>2, <3>2
        <4> QED
          BY <4>1, <4>2
      <3> QED
        BY <3>1, <3>2
    <2>5. ASSUME NEW i \in 1 .. n + 1, NEW j \in 1 .. n + 1, r[i].id = r[j].id PROVE i = j
      <3>1. CASE i = k /\ j # k
        <4>1. r[i].id = id /\ r[j].id = q[Old(j)].id /\ Old(j) \in 1 .. n
          BY <1>11, <2>3, <3>1
        <4> QED
          BY <2>1, <2>5, <4>1, Zenon
      <3>2. CASE i # k /\ j = k
        <4>1. r[j].id = id /\ r[i].id = q[Old(i)].id /\ Old(i) \in 1 .. n
          BY <1>11, <2>3, <3>2
        <4> QED
          BY <2>1, <2>5, <4>1
      <3>3. CASE i # k /\ j # k
        <4>1. Old(i) = Old(j)
          <5>1. r[i].id = q[Old(i)].id /\ r[j].id = q[Old(j)].id /\ Old(i) \in 1 .. n /\ Old(j) \in 1 .. n
            BY <2>3, <3>3
          <5> HIDE DEF Old
          <5> QED
            BY <2>2, <2>5, <5>1, Zenon
        <4> QED
          BY <1>1, <1>2, <3>3, <4>1
      <3> QED
        BY <3>1, <3>2, <3>3
    <2>6. n + 1 >= 1
      BY <1>1
    <2> HIDE DEF n, Old
    <2> QED
      BY <1>10, <2>4, <2>5, <2>6 DEF Chain
  <1> HIDE DEF n
  <1>13. ASSUME NEW i \in 1 .. n + 1 PROVE F[i] = F[i - 1] + DQ!Micros(r[i].delta)
    <2>1. i - 1 \in 0 .. n + 1 /\ i \in 0 .. n + 1 /\ k \in Nat /\ i \in Nat
      BY <1>1, <1>2
    <2>2. CASE i < k
      <3>1. F[i] = S[i] /\ F[i - 1] = S[i - 1] /\ i \in 1 .. k - 1 /\ i \in 1 .. n
        BY <1>1, <1>2, <2>1, <2>2
      <3> QED
        BY <1>6, <1>10, <3>1
    <2>3. CASE i = k
      <3>1. F[i] = m /\ F[i - 1] = S[k - 1]
        BY <2>1, <2>3
      <3>2. r[i] = new
        BY <1>10, <2>3
      <3> QED
        BY <1>3, <1>7, <1>8, <3>1, <3>2
    <2>4. CASE i = k + 1
      <3>1. F[i] = S[k] /\ F[i - 1] = m
        BY <2>1, <2>4
      <3>2. r[i] = moved
        BY <1>10, <2>4
      <3> QED
        BY <1>3, <1>8, <1>9, <3>1, <3>2, SMTT(30)
    <2>5. CASE ~(i < k) /\ i # k /\ i # k + 1
      <3>1. PICK j \in k + 1 .. n : i = j + 1
        BY <1>1, <2>1, <2>5
      <3>2. F[i] = S[j] /\ F[i - 1] = S[j - 1] /\ r[i] = q[j] /\ j \in 1 .. n
        BY <1>1, <1>2, <1>10, <2>1, <3>1
      <3> QED
        BY <1>6, <3>2
    <2> QED
      BY <2>2, <2>3, <2>4, <2>5
  <1>14. \A i \in 0 .. n + 1 : F[i] = DQ!Sums(r)[i]
    <2>1. IsSums(DQ!Sums(r), r)
      BY <1>10, SumsRight
    <2>2. F[0] = 0
      BY <1>1, <1>2, <1>3 DEF IsSums
    <2> HIDE DEF F
    <2> QED
      BY <1>10, <1>13, <2>1, <2>2, SumsUnique
  <1>15. /\ \A i \in 1 .. k - 1 : DQ!Sums(r)[i] = S[i]
         /\ DQ!Sums(r)[k] = m
         /\ \A i \in k .. n : DQ!Sums(r)[i + 1] = S[i]
    <2>1. ASSUME NEW i \in 1 .. k - 1 PROVE DQ!Sums(r)[i] = S[i]
      <3>1. i \in 0 .. n + 1 /\ i < k
        BY <1>1, <1>2
      <3> QED
        BY <1>14, <3>1
    <2>2. DQ!Sums(r)[k] = m
      <3>1. k \in 0 .. n + 1 /\ ~(k < k)
        BY <1>1, <1>2
      <3> QED
        BY <1>14, <3>1
    <2>3. ASSUME NEW i \in k .. n PROVE DQ!Sums(r)[i + 1] = S[i]
      <3>1. i + 1 \in 0 .. n + 1 /\ ~(i + 1 < k) /\ i + 1 # k /\ i + 1 - 1 = i
        BY <1>1, <1>2
      <3> QED
        BY <1>14, <3>1
    <2> QED
      BY <2>1, <2>2, <2>3
  <1> QED
    BY <1>4, <1>10, <1>11, <1>12, <1>15 DEF S, m, k, n

\* RemoveEntry: the others keep the time they had left.
LEMMA WithoutRight ==
  ASSUME MILLION \in Nat \ {0}, NEW q, Chain(q), NEW p \in 1 .. Len(q) - 1
  PROVE  LET r == DQ!Without(q, p)
         IN  /\ Chain(r) /\ Len(r) = Len(q) - 1
             /\ \A i \in 1 .. p - 1 : r[i].id = q[i].id /\ DQ!Sums(r)[i] = DQ!Sums(q)[i]
             /\ \A i \in p .. Len(q) - 1 :
                   r[i].id = q[i + 1].id /\ DQ!Sums(r)[i] = DQ!Sums(q)[i + 1]
  <1> DEFINE S == DQ!Sums(q)
             n == Len(q)
             joined == [id |-> q[p + 1].id, delta |-> DQ!Plus(q[p + 1].delta, q[p].delta)]
             r == SubSeq(q, 1, p - 1) \o <<joined>> \o SubSeq(q, p + 2, n)
             Old(i) == IF i < p THEN i ELSE i + 1
             F == [i \in 0 .. n - 1 |-> S[Old(i)]]
  <1>1. q \in Seq(Links) /\ n \in Nat /\ n >= 1 /\ p \in 1 .. n /\ p + 1 \in 1 .. n /\ p \in Nat
    BY DEF Chain
  <1>2. IsSums(S, q)
    BY <1>1, SumsRight
  <1>3. DQ!Without(q, p) = r
    BY DEF DQ!Without, DQ!Entry
  <1>4. \A i \in 0 .. n : S[i] \in Nat
    BY <1>2, Zenon DEF IsSums
  <1>5. \A i \in 1 .. n : /\ q[i].id \in Tasks \cup {Sentinel} /\ q[i].delta \in Moments
                          /\ DQ!Micros(q[i].delta) \in Nat
                          /\ S[i] = S[i - 1] + DQ!Micros(q[i].delta)
    BY <1>1, <1>2, LinkTypes DEF IsSums
  <1> HIDE DEF S
  <1>6. joined \in Links /\ joined.id = q[p + 1].id /\ DQ!Micros(joined.delta) = S[p + 1] - S[p - 1]
    <2>1. /\ q[p + 1].id \in Tasks \cup {Sentinel} /\ q[p + 1].delta \in Moments /\ q[p].delta \in Moments
          /\ DQ!Micros(q[p].delta) \in Nat /\ DQ!Micros(q[p + 1].delta) \in Nat
      BY <1>1, <1>5, Zenon
    <2>2. /\ DQ!Plus(q[p + 1].delta, q[p].delta) \in Moments
          /\ DQ!Micros(DQ!Plus(q[p + 1].delta, q[p].delta)) =
                DQ!Micros(q[p + 1].delta) + DQ!Micros(q[p].delta)
      BY <2>1, MicrosPlus
    <2>3. S[p] = S[p - 1] + DQ!Micros(q[p].delta) /\ S[p + 1] = S[p] + DQ!Micros(q[p + 1].delta)
      <3>1. p + 1 - 1 = p
        BY <1>1
      <3>2. S[p + 1] = S[p + 1 - 1] + DQ!Micros(q[p + 1].delta)
        BY <1>1, <1>5
      <3> QED
        BY <1>1, <1>5, <3>1, <3>2
    <2>4. S[p - 1] \in Nat /\ S[p] \in Nat /\ S[p + 1] \in Nat
      <3>1. p - 1 \in 0 .. n /\ p \in 0 .. n /\ p + 1 \in 0 .. n
        BY <1>1
      <3> QED
        BY <1>4, <3>1
    <2>5. DQ!Micros(DQ!Plus(q[p + 1].delta, q[p].delta)) = S[p + 1] - S[p - 1]
      BY <2>1, <2>2, <2>3, <2>4
    <2> QED
      BY <2>1, <2>2, <2>5 DEF Links
  <1> HIDE DEF joined
  <1>7. /\ r \in Seq(Links) /\ Len(r) = n - 1
        /\ \A i \in 1 .. p - 1 : r[i] = q[i]
        /\ r[p] = joined
        /\ \A i \in p + 1 .. n - 1 : r[i] = q[i + 1]
    <2> DEFINE one == <<joined>>
    <2>1. one \in Seq(Links) /\ Len(one) = 1 /\ one[1] = joined
      BY <1>6
    <2>2. p - 1 \in 0 .. Len(q) /\ p + 1 \in p - 1 .. Len(q)
      BY <1>1
    <2> HIDE DEF one
    <2>3. /\ r \in Seq(Links) /\ Len(r) = p - 1 + Len(one) + (Len(q) - (p + 1))
          /\ \A i \in 1 .. p - 1 : r[i] = q[i]
          /\ \A i \in 1 .. Len(one) : r[p - 1 + i] = one[i]
          /\ \A i \in 1 .. Len(q) - (p + 1) : r[p - 1 + Len(one) + i] = q[p + 1 + i]
      <3>1. r = Spliced(q, one, p - 1, p + 1)
        <4>1. p + 1 + 1 = p + 2
          BY <1>1
        <4> QED
          BY <4>1, Zenon DEF one, Spliced
      <3>2. IsSplice(Spliced(q, one, p - 1, p + 1), Links, q, one, p - 1, p + 1)
        BY <1>1, <2>1, <2>2, Splice
      <3> HIDE DEF r
      <3> QED
        BY <3>1, <3>2, Zenon DEF IsSplice
    <2> HIDE DEF r, n
    <2>4. Len(r) = n - 1
      BY <1>1, <2>1, <2>2, <2>3 DEF n
    <2>5. r[p] = joined
      <3>1. 1 \in 1 .. Len(one) /\ p - 1 + 1 = p
        BY <1>1, <2>1
      <3>2. r[p - 1 + 1] = one[1]
        BY <2>3, <3>1, Zenon
      <3> QED
        BY <2>1, <3>1, <3>2
    <2>6. ASSUME NEW i \in p + 1 .. n - 1 PROVE r[i] = q[i + 1]
      <3>1. PICK j \in 1 .. Len(q) - (p + 1) : j = i - p
        BY <1>1, <2>2 DEF n
      <3>2. r[p - 1 + Len(one) + j] = q[p + 1 + j]
        BY <2>3, Zenon
      <3>3. p - 1 + Len(one) + j = i /\ p + 1 + j = i + 1
        BY <1>1, <2>1, <3>1
      <3> QED
        BY <3>2, <3>3
    <2> QED
      BY <2>3, <2>4, <2>5, <2>6, Zenon
  <1> HIDE DEF r
  <1>8. ASSUME NEW i \in 1 .. n - 1
        PROVE  /\ Old(i) \in 1 .. n /\ r[i].id = q[Old(i)].id
               /\ i = n - 1 <=> Old(i) = n
               /\ \A j \in 1 .. n - 1 : Old(i) = Old(j) => i = j
    <2>1. Old(i) \in 1 .. n /\ (i = n - 1 <=> Old(i) = n)
      BY <1>1
    <2>2. \A j \in 1 .. n - 1 : Old(i) = Old(j) => i = j
      BY <1>1
    <2>3. CASE i < p
      <3>1. i \in 1 .. p - 1 /\ Old(i) = i
        BY <1>1, <2>3
      <3> QED
        BY <1>7, <2>1, <2>2, <3>1
    <2>4. CASE i = p
      <3>1. Old(i) = p + 1
        BY <1>1, <2>4
      <3>2. r[i].id = q[p + 1].id
        BY <1>6, <1>7, <2>4
      <3> HIDE DEF Old
      <3> QED
        BY <2>1, <2>2, <3>1, <3>2
    <2>5. CASE ~(i < p) /\ i # p
      <3>1. i \in p + 1 .. n - 1 /\ Old(i) = i + 1
        BY <1>1, <2>5
      <3>2. r[i] = q[i + 1]
        BY <1>7, <3>1
      <3> HIDE DEF Old
      <3> QED
        BY <2>1, <2>2, <3>1, <3>2
    <2> QED
      BY <2>3, <2>4, <2>5
  <1>9. Chain(r)
    <2>1. \A i \in 1 .. n : q[i].id = Sentinel <=> i = n
      BY DEF Chain
    <2>2. \A i, j \in 1 .. n : q[i].id = q[j].id => i = j
      BY DEF Chain
    <2>3. n - 1 >= 1
      BY <1>1
    <2> HIDE DEF Old, n
    <2>4. ASSUME NEW i \in 1 .. n - 1 PROVE r[i].id = Sentinel <=> i = n - 1
      BY <1>8, <2>1, Zenon
    <2>5. ASSUME NEW i \in 1 .. n - 1, NEW j \in 1 .. n - 1, r[i].id = r[j].id PROVE i = j
      <3>1. q[Old(i)].id = q[Old(j)].id /\ Old(i) \in 1 .. n /\ Old(j) \in 1 .. n
        BY <1>8, <2>5
      <3>2. Old(i) = Old(j)
        BY <2>2, <3>1
      <3> QED
        BY <1>8, <3>2
    <2> QED
      BY <1>7, <2>3, <2>4, <2>5 DEF Chain
  <1> HIDE DEF n
  <1>10. ASSUME NEW i \in 1 .. n - 1 PROVE F[i] = F[i - 1] + DQ!Micros(r[i].delta)
    <2>1. i - 1 \in 0 .. n - 1 /\ i \in 0 .. n - 1 /\ i \in Nat
      BY <1>1
    <2>2. F[i] = S[Old(i)] /\ F[i - 1] = S[Old(i - 1)]
      BY <2>1
    <2>3. CASE i < p
      <3>1. Old(i) = i /\ Old(i - 1) = i - 1 /\ i \in 1 .. p - 1 /\ i \in 1 .. n
        BY <1>1, <2>1, <2>3
      <3> HIDE DEF Old, F
      <3> QED
        BY <1>5, <1>7, <2>2, <3>1
    <2>4. CASE i = p
      <3>1. Old(i) = p + 1 /\ Old(i - 1) = p - 1
        BY <1>1, <2>1, <2>4
      <3>2. S[p + 1] \in Nat /\ S[p - 1] \in Nat
        <4>1. p - 1 \in 0 .. n /\ p + 1 \in 0 .. n
          BY <1>1
        <4> QED
          BY <1>4, <4>1
      <3> HIDE DEF Old, F
      <3> QED
        BY <1>6, <1>7, <2>2, <2>4, <3>1, <3>2
    <2>5. CASE ~(i < p) /\ i # p
      <3>1. Old(i) = i + 1 /\ Old(i - 1) = i /\ i \in p + 1 .. n - 1 /\ i + 1 \in 1 .. n /\ i + 1 - 1 = i
        BY <1>1, <2>1, <2>5
      <3>2. r[i] = q[i + 1]
        BY <1>7, <3>1
      <3>3. S[i + 1] = S[i + 1 - 1] + DQ!Micros(q[i + 1].delta)
        BY <1>5, <3>1
      <3> HIDE DEF Old, F
      <3> QED
        BY <2>2, <3>1, <3>2, <3>3
    <2> QED
      BY <2>3, <2>4, <2>5
  <1>11. \A i \in 0 .. n - 1 : F[i] = DQ!Sums(r)[i]
    <2>1. IsSums(DQ!Sums(r), r)
      BY <1>7, SumsRight
    <2>2. F[0] = 0
      BY <1>1, <1>2 DEF IsSums
    <2> HIDE DEF F
    <2> QED
      BY <1>7, <1>10, <2>1, <2>2, SumsUnique
  <1>12. ASSUME NEW i \in 1 .. n - 1 PROVE DQ!Sums(r)[i] = S[Old(i)]
    <2>1. i \in 0 .. n - 1
      BY <1>1
    <2> QED
      BY <1>11, <2>1
  <1>13. /\ \A i \in 1 .. p - 1 : i \in 1 .. n - 1 /\ Old(i) = i
         /\ \A i \in p .. n - 1 : i \in 1 .. n - 1 /\ Old(i) = i + 1
    BY <1>1
  <1> HIDE DEF Old, F
  <1>14. /\ \A i \in 1 .. p - 1 : r[i].id = q[i].id /\ DQ!Sums(r)[i] = S[i]
         /\ \A i \in p .. n - 1 : r[i].id = q[i + 1].id /\ DQ!Sums(r)[i] = S[i + 1]
    BY <1>8, <1>12, <1>13
  <1> QED
    BY <1>3, <1>7, <1>9, <1>14 DEF S, n

-----------------------------------------------------------------------------
(* DelayQueue: the list is exact *)

\* The time left for an entry that was asked for as r, when the queue has seen sn.
Rest(r, sn) == DQ!PositiveOrZero(r.delay - (sn - r.seenAt))

\* The order of two entries.
Before(x, y) == \/ x.seenAt + x.delay < y.seenAt + y.delay
                \/ x.seenAt + x.delay = y.seenAt + y.delay /\ x.nr < y.nr

\* A list q with what was asked for, A, when the queue has seen sn and n were added.
RightList(q, A, sn, n) ==
    /\ Chain(q)
    /\ DQ!Sums(q)[Len(q)] = Far - sn
    /\ \A i \in 1 .. Len(q) - 1 :
          /\ A[q[i].id].delay \in Delays
          /\ A[q[i].id].nr \in Nat /\ A[q[i].id].nr < n
          /\ A[q[i].id].seenAt \in 0 .. sn
          /\ DQ!Sums(q)[i] = Rest(A[q[i].id], sn)
    /\ \A i, j \in 1 .. Len(q) - 1 : i < j => Before(A[q[i].id], A[q[j].id])

LEMMA FarNat ==
  ASSUME PartsAssumption, DelaysFit
  PROVE  MILLION \in Nat \ {0} /\ Far \in Nat /\ Delays \subseteq Nat /\ MaxReal \in Nat /\ MaxReal < Far
         /\ Sentinel \notin Tasks /\ NoTask \notin Tasks
  <1>1. MILLION \in Nat \ {0} /\ Sentinel \notin Tasks /\ NoTask \notin Tasks
    BY DEF PartsAssumption, DQ!TimevalAssumption, DQ!TaskAssumption
  <1>2. DQ!Tv(Eternity, MILLION - 1) \in Moments
    BY <1>1 DEF DelaysFit, DQ!Tv, Moments
  <1>3. Far \in Nat
    BY <1>1, <1>2, MicrosGe DEF Far
  <1> QED
    BY <1>1, <1>3 DEF DelaysFit

\* Time that passes is taken off every entry.
LEMMA RightLater ==
  ASSUME PartsAssumption, DelaysFit, NEW q, NEW r, NEW A, NEW sn \in Nat, NEW n \in Nat, NEW e \in Nat,
         RightList(q, A, sn, n), Later(q, r, e), sn + e <= MaxReal
  PROVE  RightList(r, A, sn + e, n)
  <1>1. /\ Far \in Nat /\ Delays \subseteq Nat /\ MaxReal \in Nat /\ MaxReal < Far
    BY FarNat
  <1>2. /\ Chain(r) /\ Len(r) = Len(q) /\ Len(q) \in Nat /\ Len(q) >= 1
        /\ \A i \in 1 .. Len(q) : r[i].id = q[i].id
        /\ \A i \in 0 .. Len(q) :
              DQ!Sums(r)[i] = IF DQ!Sums(q)[i] > e THEN DQ!Sums(q)[i] - e ELSE 0
    <2>1. Len(q) \in Nat /\ Len(q) >= 1
      BY DEF RightList, Chain
    <2> QED
      BY <2>1 DEF Later
  <1>3. DQ!Sums(r)[Len(r)] = Far - (sn + e)
    <2>1. DQ!Sums(q)[Len(q)] = Far - sn /\ Len(q) \in 0 .. Len(q)
      BY <1>2 DEF RightList
    <2>2. DQ!Sums(r)[Len(q)] = IF Far - sn > e THEN Far - sn - e ELSE 0
      BY <1>2, <2>1
    <2>3. Far - sn > e /\ Far - sn - e = Far - (sn + e)
      BY <1>1
    <2> QED
      BY <1>2, <2>2, <2>3
  <1>4. ASSUME NEW i \in 1 .. Len(r) - 1
        PROVE  /\ A[r[i].id].delay \in Delays
               /\ A[r[i].id].nr \in Nat /\ A[r[i].id].nr < n
               /\ A[r[i].id].seenAt \in 0 .. sn + e
               /\ DQ!Sums(r)[i] = Rest(A[r[i].id], sn + e)
    <2>1. i \in 1 .. Len(q) - 1 /\ i \in 0 .. Len(q) /\ i \in 1 .. Len(q)
      BY <1>2
    <2>2. PICK x : x = A[q[i].id]
      OBVIOUS
    <2>3. /\ x.delay \in Delays /\ x.delay \in Nat /\ x.nr \in Nat /\ x.nr < n
          /\ x.seenAt \in 0 .. sn
          /\ DQ!Sums(q)[i] = Rest(x, sn)
      BY <1>1, <2>1, <2>2, Zenon DEF RightList
    <2>4. DQ!Sums(r)[i] = IF Rest(x, sn) > e THEN Rest(x, sn) - e ELSE 0
      BY <1>2, <2>1, <2>3
    <2>5. (IF Rest(x, sn) > e THEN Rest(x, sn) - e ELSE 0) = Rest(x, sn + e)
      BY <2>3, SMTT(30) DEF Rest, DQ!PositiveOrZero
    <2>6. A[r[i].id] = x
      BY <1>2, <2>1, <2>2
    <2>7. x.seenAt \in 0 .. sn + e
      BY <2>3
    <2> QED
      BY <2>3, <2>4, <2>5, <2>6, <2>7
  <1>5. \A i, j \in 1 .. Len(r) - 1 : i < j => Before(A[r[i].id], A[r[j].id])
    <2>1. \A i \in 1 .. Len(r) - 1 : r[i].id = q[i].id /\ i \in 1 .. Len(q) - 1
      BY <1>2
    <2>2. \A i, j \in 1 .. Len(q) - 1 : i < j => Before(A[q[i].id], A[q[j].id])
      BY DEF RightList
    <2> QED
      BY <2>1, <2>2, Zenon
  <1> QED
    BY <1>2, <1>3, <1>4, <1>5 DEF RightList

\* Removing an entry leaves the others as they are.
LEMMA RightWithout ==
  ASSUME PartsAssumption, DelaysFit, NEW q, NEW A, NEW sn \in Nat, NEW n \in Nat,
         RightList(q, A, sn, n), NEW p \in 1 .. Len(q) - 1
  PROVE  RightList(DQ!Without(q, p), A, sn, n)
  <1> DEFINE r == DQ!Without(q, p)
             Old(i) == IF i < p THEN i ELSE i + 1
  <1>1. /\ Chain(r) /\ Len(r) = Len(q) - 1 /\ Len(q) \in Nat /\ Len(q) >= 1
        /\ \A i \in 1 .. p - 1 : r[i].id = q[i].id /\ DQ!Sums(r)[i] = DQ!Sums(q)[i]
        /\ \A i \in p .. Len(q) - 1 :
              r[i].id = q[i + 1].id /\ DQ!Sums(r)[i] = DQ!Sums(q)[i + 1]
    <2>1. Len(q) \in Nat /\ Len(q) >= 1 /\ Chain(q)
      BY DEF RightList, Chain
    <2> QED
      BY <2>1, FarNat, WithoutRight
  <1> HIDE DEF r
  <1>2. DQ!Sums(r)[Len(r)] = Far - sn
    <2>1. DQ!Sums(q)[Len(q)] = Far - sn
      BY DEF RightList
    <2>2. Len(r) \in p .. Len(q) - 1 /\ Len(r) + 1 = Len(q)
      BY <1>1
    <2> QED
      BY <1>1, <2>1, <2>2
  <1>3. ASSUME NEW i \in 1 .. Len(r) - 1
        PROVE  /\ Old(i) \in 1 .. Len(q) - 1
               /\ r[i].id = q[Old(i)].id /\ DQ!Sums(r)[i] = DQ!Sums(q)[Old(i)]
    <2>1. CASE i < p
      <3>1. i \in 1 .. p - 1 /\ Old(i) = i /\ i \in 1 .. Len(q) - 1
        BY <1>1, <2>1
      <3> QED
        BY <1>1, <3>1
    <2>2. CASE ~(i < p)
      <3>1. i \in p .. Len(q) - 1 /\ Old(i) = i + 1 /\ i + 1 \in 1 .. Len(q) - 1
        BY <1>1, <2>2
      <3> QED
        BY <1>1, <3>1
    <2> QED
      BY <2>1, <2>2
  <1>4. \A i, j \in 1 .. Len(r) - 1 : i < j => Old(i) < Old(j)
    BY <1>1
  <1> HIDE DEF Old
  <1>5. ASSUME NEW i \in 1 .. Len(r) - 1
        PROVE  /\ A[r[i].id].delay \in Delays
               /\ A[r[i].id].nr \in Nat /\ A[r[i].id].nr < n
               /\ A[r[i].id].seenAt \in 0 .. sn
               /\ DQ!Sums(r)[i] = Rest(A[r[i].id], sn)
    BY <1>3, Zenon DEF RightList
  <1>6. \A i, j \in 1 .. Len(r) - 1 : i < j => Before(A[r[i].id], A[r[j].id])
    BY <1>3, <1>4, Zenon DEF RightList
  <1> QED
    BY <1>1, <1>2, <1>5, <1>6 DEF RightList, r

\* The delay as a pair is the delay.
LEMMA IntervalRight ==
  ASSUME PartsAssumption, DelaysFit, NEW d \in Delays
  PROVE  DQ!Interval(d) \in Moments /\ DQ!Micros(DQ!Interval(d)) = d
  <1>1. d \in Nat /\ UllRange \in Nat \ {0} /\ d < UllRange
    BY DEF DelaysFit, PartsAssumption, DQ!TaskAssumption
  <1>2. d % UllRange = d
    BY <1>1
  <1>3. DQ!Interval(d) = DQ!Split(d)
    BY <1>2 DEF DQ!Interval
  <1> QED
    BY <1>1, <1>3, FarNat, MicrosSplit

\* Adding an entry: it is in its place, and the others are as they were.
LEMMA RightInsert ==
  ASSUME PartsAssumption, DelaysFit, NEW q, NEW A, NEW sn \in Nat, NEW n \in Nat,
         RightList(q, A, sn, n), sn <= MaxReal, DOMAIN A = Tasks,
         NEW id \in Tasks, \A i \in 1 .. Len(q) : q[i].id # id, NEW d \in Delays, NEW now
  PROVE  RightList(DQ!Insert(q, DQ!Entry(id, DQ!Interval(d))),
                   [A EXCEPT ![id] = [at |-> now, delay |-> d, nr |-> n, seenAt |-> sn]],
                   sn, n + 1)
  <1> DEFINE t == DQ!Interval(d)
             r == DQ!Insert(q, DQ!Entry(id, t))
             S == DQ!Sums(q)
             R == DQ!Sums(r)
             k == DQ!StopOf(q, t)
             l == Len(q)
             new == [at |-> now, delay |-> d, nr |-> n, seenAt |-> sn]
             B == [A EXCEPT ![id] = new]
             Old(i) == IF i < k THEN i ELSE i - 1
  <1>1. /\ MILLION \in Nat \ {0} /\ Sentinel \notin Tasks /\ Far \in Nat /\ Delays \subseteq Nat
        /\ MaxReal \in Nat /\ d \in Nat /\ d + MaxReal < Far
    BY FarNat DEF DelaysFit
  <1>2. t \in Moments /\ DQ!Micros(t) = d
    BY IntervalRight
  <1>3. Chain(q) /\ q \in Seq(Links) /\ l \in Nat /\ l >= 1 /\ S[l] = Far - sn
    BY DEF RightList, Chain
  <1>4. DQ!Micros(t) < S[l]
    BY <1>1, <1>2, <1>3
  <1>5. /\ k \in 1 .. l
        /\ \A i \in 0 .. k - 1 : S[i] <= d
        /\ \A i \in k .. l : S[i] > d
    BY <1>1, <1>2, <1>3, <1>4, StopRight
  <1>6. /\ Chain(r) /\ Len(r) = l + 1
        /\ \A i \in 1 .. k - 1 : r[i].id = q[i].id /\ R[i] = S[i]
        /\ r[k].id = id /\ R[k] = d
        /\ \A i \in k .. l : r[i + 1].id = q[i].id /\ R[i + 1] = S[i]
    BY <1>1, <1>2, <1>3, <1>4, InsertRight
  <1>7. B[id] = new /\ \A x \in Tasks : x # id => B[x] = A[x]
    OBVIOUS
  <1>8. \A i \in 1 .. l - 1 : q[i].id \in Tasks /\ q[i].id # id
    <2> TAKE i \in 1 .. l - 1
    <2>1. i \in 1 .. l /\ i # l
      BY <1>3
    <2>2. q[i].id \in Tasks \cup {Sentinel} /\ q[i].id # Sentinel
      BY <1>1, <1>3, <2>1, LinkTypes, Zenon DEF Chain
    <2> QED
      BY <2>1, <2>2
  <1>9. /\ new.delay = d /\ new.nr = n /\ new.seenAt = sn
    OBVIOUS
  <1> HIDE DEF t, r, S, R, k, l, B, new
  <1>10. R[Len(r)] = Far - sn
    BY <1>3, <1>5, <1>6
  <1>11. ASSUME NEW i \in 1 .. l, i # k
         PROVE  /\ Old(i) \in 1 .. l - 1 /\ R[i] = S[Old(i)] /\ B[r[i].id] = A[q[Old(i)].id]
    <2>1. CASE i < k
      <3>1. i \in 1 .. k - 1 /\ Old(i) = i /\ i \in 1 .. l - 1
        BY <1>3, <1>5, <2>1
      <3> QED
        BY <1>6, <1>7, <1>8, <3>1
    <2>2. CASE ~(i < k)
      <3>1. Old(i) \in k .. l /\ Old(i) + 1 = i /\ Old(i) \in 1 .. l - 1
        BY <1>3, <1>5, <1>11, <2>2
      <3>2. r[i].id = q[Old(i)].id /\ R[i] = S[Old(i)]
        BY <1>6, <3>1
      <3> QED
        BY <1>7, <1>8, <3>1, <3>2
    <2> QED
      BY <2>1, <2>2
  <1>12. /\ k \in 1 .. l /\ B[r[k].id] = new /\ R[k] = d
    BY <1>5, <1>6, <1>7
  <1>13. \A i \in 1 .. l - 1 :
            LET x == A[q[i].id]
            IN  /\ x.delay \in Delays /\ x.delay \in Nat /\ x.nr \in Nat /\ x.nr < n /\ x.seenAt \in 0 .. sn
                /\ S[i] = Rest(x, sn)
    BY <1>1, Zenon DEF RightList, S, l
  <1>14. ASSUME NEW i \in 1 .. Len(r) - 1
         PROVE  /\ B[r[i].id].delay \in Delays
                /\ B[r[i].id].nr \in Nat /\ B[r[i].id].nr < n + 1
                /\ B[r[i].id].seenAt \in 0 .. sn
                /\ R[i] = Rest(B[r[i].id], sn)
    <2>1. i \in 1 .. l
      BY <1>3, <1>6
    <2>2. CASE i = k
      <3>1. B[r[i].id] = new /\ R[i] = d
        BY <1>12, <2>2
      <3>2. Rest(new, sn) = d
        BY <1>1, <1>9 DEF Rest, DQ!PositiveOrZero
      <3> QED
        BY <1>9, <3>1, <3>2
    <2>3. CASE i # k
      <3>1. /\ Old(i) \in 1 .. l - 1 /\ R[i] = S[Old(i)] /\ B[r[i].id] = A[q[Old(i)].id]
        BY <1>11, <2>1, <2>3
      <3> HIDE DEF Old
      <3>2. PICK x : x = A[q[Old(i)].id]
        OBVIOUS
      <3>3. /\ x.delay \in Delays /\ x.nr \in Nat /\ x.nr < n /\ x.seenAt \in 0 .. sn
            /\ S[Old(i)] = Rest(x, sn)
        BY <1>13, <3>1, <3>2, Zenon
      <3>4. x.nr < n + 1
        BY <3>3
      <3> QED
        BY <3>1, <3>2, <3>3, <3>4
    <2> QED
      BY <2>2, <2>3
  <1>15. ASSUME NEW i \in 1 .. l - 1, i < k PROVE Before(A[q[i].id], new)
    <2>1. S[i] <= d
      BY <1>5, <1>15
    <2>2. PICK x : x = A[q[i].id]
      OBVIOUS
    <2>3. /\ x.delay \in Nat /\ x.nr \in Nat /\ x.nr < n /\ x.seenAt \in 0 .. sn /\ Rest(x, sn) <= d
      BY <1>13, <2>1, <2>2
    <2>4. x.delay - (sn - x.seenAt) <= d
      BY <1>1, <2>3 DEF Rest, DQ!PositiveOrZero
    <2>5. x.seenAt + x.delay <= sn + d
      BY <1>1, <2>3, <2>4
    <2>6. \/ x.seenAt + x.delay < sn + d
          \/ x.seenAt + x.delay = sn + d /\ x.nr < n
      BY <1>1, <2>3, <2>5
    <2> QED
      BY <1>9, <2>2, <2>6 DEF Before
  <1>16. ASSUME NEW i \in 1 .. l - 1, ~(i < k) PROVE Before(new, A[q[i].id])
    <2>1. S[i] > d
      <3>1. i \in k .. l
        BY <1>3, <1>5, <1>16
      <3> QED
        BY <1>5, <3>1
    <2>2. PICK x : x = A[q[i].id]
      OBVIOUS
    <2>3. /\ x.delay \in Nat /\ x.seenAt \in 0 .. sn /\ Rest(x, sn) > d
      BY <1>13, <2>1, <2>2
    <2>4. x.delay - (sn - x.seenAt) > d
      BY <1>1, <2>3 DEF Rest, DQ!PositiveOrZero
    <2>5. x.seenAt + x.delay > sn + d
      BY <1>1, <2>3, <2>4
    <2> QED
      BY <1>1, <1>9, <2>2, <2>3, <2>5 DEF Before
  <1>17. ASSUME NEW i \in 1 .. Len(r) - 1, NEW j \in 1 .. Len(r) - 1, i < j
         PROVE  Before(B[r[i].id], B[r[j].id])
    <2>1. i \in 1 .. l /\ j \in 1 .. l
      BY <1>3, <1>6
    <2>2. CASE i # k /\ j # k
      <3>1. /\ Old(i) \in 1 .. l - 1 /\ B[r[i].id] = A[q[Old(i)].id]
            /\ Old(j) \in 1 .. l - 1 /\ B[r[j].id] = A[q[Old(j)].id]
        BY <1>11, <2>1, <2>2
      <3>2. Old(i) < Old(j)
        BY <1>5, <1>17, <2>2
      <3>3. \A x, y \in 1 .. l - 1 : x < y => Before(A[q[x].id], A[q[y].id])
        BY Zenon DEF RightList, l
      <3> HIDE DEF Old
      <3> QED
        BY <3>1, <3>2, <3>3
    <2>3. CASE i = k
      <3>1. j # k /\ Old(j) \in 1 .. l - 1 /\ B[r[j].id] = A[q[Old(j)].id] /\ ~(Old(j) < k)
        BY <1>5, <1>11, <1>17, <2>1, <2>3
      <3> HIDE DEF Old
      <3> QED
        BY <1>12, <1>16, <2>3, <3>1
    <2>4. CASE j = k
      <3>1. i # k /\ Old(i) \in 1 .. l - 1 /\ B[r[i].id] = A[q[Old(i)].id] /\ Old(i) < k
        BY <1>5, <1>11, <1>17, <2>1, <2>4
      <3> HIDE DEF Old
      <3> QED
        BY <1>12, <1>15, <2>4, <3>1
    <2> QED
      BY <2>2, <2>3, <2>4
  <1> HIDE DEF Old
  <1>18. RightList(r, B, sn, n + 1)
    BY <1>6, <1>10, <1>14, <1>17 DEF RightList, R
  <1> QED
    BY <1>18 DEF r, B, t, new

-----------------------------------------------------------------------------
(* DelayQueue: what a list holds, and the time that passed *)

\* A sequence without repetitions has as many elements as it is long.
Differ(f, n) == \A i, j \in 1 .. n : f[i] = f[j] => i = j

LEMMA ImageCard ==
  ASSUME NEW n \in Nat, NEW f, f = [i \in 1 .. n |-> f[i]], Differ(f, n)
  PROVE  /\ IsFiniteSet({f[i] : i \in 1 .. n})
         /\ Cardinality({f[i] : i \in 1 .. n}) = n
  <1> DEFINE T == {f[i] : i \in 1 .. n}
  <1>1. f \in Bijection(1 .. n, T)
    <2>1. f \in [1 .. n -> T]
      OBVIOUS
    <2>2. \A y \in T : \E x \in 1 .. n : f[x] = y
      OBVIOUS
    <2>3. IsInjective(f)
      BY <2>1 DEF IsInjective, Differ
    <2> QED
      BY <2>1, <2>2, <2>3 DEF Bijection, Injection, Surjection
  <1>2. ExistsBijection(1 .. n, T)
    BY <1>1 DEF ExistsBijection
  <1>3. IsFiniteSet(1 .. n) /\ Cardinality(1 .. n) = n
    <2>1. 1 \in Int /\ n \in Int
      OBVIOUS
    <2>2. IsFiniteSet(1 .. n) /\ Cardinality(1 .. n) = IF 1 > n THEN 0 ELSE n - 1 + 1
      BY <2>1, FS_Interval, Zenon
    <2> QED
      BY <2>2
  <1> HIDE DEF T
  <1>4. IsFiniteSet(T) /\ Cardinality(T) = n
    BY <1>2, <1>3, FS_Bijection
  <1> QED
    BY <1>4 DEF T

LEMMA SameCardinality ==
  ASSUME NEW X
  PROVE  DQ!Cardinality(X) = Cardinality(X)
  BY DEF DQ!Cardinality, Cardinality

\* The tasks in a list.
Listed(q) == {q[i].id : i \in 1 .. Len(q) - 1}

LEMMA ListedIds ==
  ASSUME MILLION \in Nat \ {0}, Sentinel \notin Tasks, Chain(queue)
  PROVE  DQ!Ids = Listed(queue) /\ Listed(queue) \subseteq Tasks
  <1>1. Len(queue) \in Nat /\ Len(queue) >= 1
    BY DEF Chain
  <1>2. \A i \in 1 .. Len(queue) : /\ queue[i].id = Sentinel <=> i = Len(queue)
                                   /\ queue[i].id \in Tasks \cup {Sentinel}
    BY LinkTypes DEF Chain
  <1>3. \A i \in 1 .. Len(queue) : i \in 1 .. Len(queue) - 1 <=> i # Len(queue)
    BY <1>1
  <1>4. \A i \in 1 .. Len(queue) - 1 : i \in 1 .. Len(queue)
    BY <1>1
  <1> QED
    BY <1>2, <1>3, <1>4 DEF DQ!Ids, Listed

LEMMA ListedLater ==
  ASSUME NEW q, NEW r, NEW e, Chain(q), Later(q, r, e)
  PROVE  Listed(r) = Listed(q)
  <1>1. Len(q) \in Nat /\ Len(r) = Len(q)
    BY DEF Chain, Later
  <1>2. \A i \in 1 .. Len(q) - 1 : r[i].id = q[i].id
    BY <1>1 DEF Later
  <1> QED
    BY <1>1, <1>2, Zenon DEF Listed

LEMMA ListedWithout ==
  ASSUME MILLION \in Nat \ {0}, NEW q, Chain(q), NEW p \in 1 .. Len(q) - 1
  PROVE  Listed(DQ!Without(q, p)) = Listed(q) \ {q[p].id}
  <1> DEFINE r == DQ!Without(q, p)
             l == Len(q)
  <1>1. /\ Len(r) = l - 1 /\ l \in Nat /\ l >= 1
        /\ \A i \in 1 .. p - 1 : r[i].id = q[i].id
        /\ \A i \in p .. l - 1 : r[i].id = q[i + 1].id
    <2>1. l \in Nat /\ l >= 1
      BY DEF Chain
    <2> QED
      BY <2>1, WithoutRight
  <1>2. \A i, j \in 1 .. l : q[i].id = q[j].id => i = j
    BY DEF Chain
  <1> HIDE DEF r, l
  <1>3. ASSUME NEW i \in 1 .. l - 2
        PROVE  \E j \in 1 .. l - 1 : j # p /\ r[i].id = q[j].id
    <2>1. CASE i < p
      <3>1. i \in 1 .. p - 1 /\ i \in 1 .. l - 1 /\ i # p
        BY <1>1, <2>1
      <3> QED
        BY <1>1, <3>1
    <2>2. CASE ~(i < p)
      <3>1. i \in p .. l - 1 /\ i + 1 \in 1 .. l - 1 /\ i + 1 # p
        BY <1>1, <2>2
      <3>2. r[i].id = q[i + 1].id
        BY <1>1, <3>1
      <3> QED
        BY <3>1, <3>2
    <2> QED
      BY <2>1, <2>2
  <1>4. ASSUME NEW j \in 1 .. l - 1, j # p
        PROVE  \E i \in 1 .. l - 2 : r[i].id = q[j].id
    <2>1. CASE j < p
      <3>1. j \in 1 .. p - 1 /\ j \in 1 .. l - 2
        BY <1>1, <2>1 DEF l
      <3> QED
        BY <1>1, <3>1
    <2>2. CASE ~(j < p)
      <3>1. j - 1 \in p .. l - 1 /\ j - 1 \in 1 .. l - 2 /\ j - 1 + 1 = j
        BY <1>1, <1>4, <2>2
      <3>2. r[j - 1].id = q[j - 1 + 1].id
        BY <1>1, <3>1
      <3> QED
        BY <3>1, <3>2
    <2> QED
      BY <2>1, <2>2
  <1>5. Len(r) - 1 = l - 2 /\ p \in 1 .. l /\ \A j \in 1 .. l - 1 : j \in 1 .. l
    BY <1>1 DEF l
  <1>6. Listed(r) = {r[i].id : i \in 1 .. l - 2} /\ Listed(q) = {q[i].id : i \in 1 .. l - 1}
    BY <1>5 DEF Listed, l
  <1>7. \A x : x \in {r[i].id : i \in 1 .. l - 2} <=> x \in {q[i].id : i \in 1 .. l - 1} /\ x # q[p].id
    <2> TAKE x
    <2>1. ASSUME NEW i \in 1 .. l - 2, x = r[i].id
          PROVE  x \in {q[j].id : j \in 1 .. l - 1} /\ x # q[p].id
      <3>1. PICK j \in 1 .. l - 1 : j # p /\ r[i].id = q[j].id
        BY <1>3
      <3> QED
        BY <1>2, <1>5, <2>1, <3>1
    <2>2. ASSUME NEW j \in 1 .. l - 1, x = q[j].id, x # q[p].id
          PROVE  x \in {r[i].id : i \in 1 .. l - 2}
      <3>1. PICK i \in 1 .. l - 2 : r[i].id = q[j].id
        BY <1>4, <2>2
      <3> QED
        BY <2>2, <3>1
    <2> QED
      BY <2>1, <2>2, Zenon
  <1> QED
    BY <1>6, <1>7, Zenon DEF r

LEMMA ListedInsert ==
  ASSUME MILLION \in Nat \ {0}, Sentinel \notin Tasks,
         NEW q, Chain(q), NEW id \in Tasks, id \notin Listed(q),
         NEW t \in Moments, DQ!Micros(t) < DQ!Sums(q)[Len(q)]
  PROVE  Listed(DQ!Insert(q, DQ!Entry(id, t))) = Listed(q) \cup {id}
  <1> DEFINE r == DQ!Insert(q, DQ!Entry(id, t))
             l == Len(q)
             k == DQ!StopOf(q, t)
  <1>1. l \in Nat /\ l >= 1 /\ q \in Seq(Links) /\ q[l].id = Sentinel
    BY DEF Chain
  <1>2. \A i \in 1 .. l : q[i].id # id
    <2> TAKE i \in 1 .. l
    <2>1. i = l \/ i \in 1 .. l - 1
      BY <1>1
    <2> QED
      BY <1>1, <2>1 DEF Listed
  <1>3. k \in 1 .. l
    BY <1>1, StopRight
  <1>4. /\ Len(r) = l + 1
        /\ \A i \in 1 .. k - 1 : r[i].id = q[i].id
        /\ r[k].id = id
        /\ \A i \in k .. l : r[i + 1].id = q[i].id
    BY <1>2, InsertRight
  <1> HIDE DEF r, l, k
  <1>5. Len(r) - 1 = l /\ Listed(r) = {r[i].id : i \in 1 .. l} /\ Listed(q) = {q[i].id : i \in 1 .. l - 1}
    <2>1. Len(r) - 1 = l
      BY <1>1, <1>4
    <2> QED
      BY <2>1 DEF Listed, l
  <1>6. ASSUME NEW i \in 1 .. l PROVE r[i].id \in Listed(q) \cup {id}
    <2>1. CASE i < k
      <3>1. i \in 1 .. k - 1 /\ i \in 1 .. l - 1
        BY <1>1, <1>3, <2>1
      <3> QED
        BY <1>4, <1>5, <3>1, Zenon
    <2>2. CASE i = k
      BY <1>4, <2>2
    <2>3. CASE ~(i < k) /\ i # k
      <3>1. i - 1 \in k .. l /\ i - 1 \in 1 .. l - 1 /\ i - 1 + 1 = i
        BY <1>1, <1>3, <2>3
      <3>2. r[i].id = q[i - 1].id
        BY <1>4, <3>1
      <3> QED
        BY <1>5, <3>1, <3>2
    <2> QED
      BY <2>1, <2>2, <2>3
  <1>7. ASSUME NEW i \in 1 .. l - 1 PROVE q[i].id \in Listed(r)
    <2>1. CASE i < k
      <3>1. i \in 1 .. k - 1 /\ i \in 1 .. l
        BY <1>1, <1>3, <2>1
      <3> QED
        BY <1>4, <1>5, <3>1
    <2>2. CASE ~(i < k)
      <3>1. i \in k .. l /\ i + 1 \in 1 .. l
        BY <1>1, <1>3, <2>2
      <3>2. r[i + 1].id = q[i].id
        BY <1>4, <3>1
      <3> QED
        BY <1>5, <3>1, <3>2
    <2> QED
      BY <2>1, <2>2
  <1>8. id \in Listed(r)
    BY <1>3, <1>4, <1>5
  <1>9. Listed(r) \subseteq Listed(q) \cup {id}
    BY <1>5, <1>6
  <1>10. Listed(q) \subseteq Listed(r)
    BY <1>5, <1>7, Zenon
  <1>11. Listed(r) = Listed(q) \cup {id}
    BY <1>8, <1>9, <1>10
  <1> QED
    BY <1>11 DEF r

\* What the clock showed and the queue saw: it lags behind real time by no more than
\* the clock was set back.
Slack == real - seen - (DQ!Micros(clock) - DQ!Micros(m_lastSyncTime))

ClockRight == /\ clock \in Moments /\ m_lastSyncTime \in Moments
              /\ real \in Nat /\ real <= MaxReal /\ seen \in Nat /\ lost \in Nat
              /\ back \subseteq Backsteps
              /\ DQ!Micros(clock) <= MILLION + real
              /\ seen <= real
              /\ Slack \in 0 .. lost

\* operator- is exact for the times the clock shows.
LEMMA ElapsedRight ==
  ASSUME PartsAssumption, DelaysFit, ClockRight
  PROVE  /\ DQ!Elapsed \in Moments /\ DQ!Micros(DQ!Elapsed) \in Nat
         /\ DQ!Micros(DQ!Elapsed) =
               IF DQ!Micros(clock) > DQ!Micros(m_lastSyncTime)
               THEN DQ!Micros(clock) - DQ!Micros(m_lastSyncTime) ELSE 0
         /\ DQ!WentBack => DQ!Micros(DQ!Elapsed) = 0
         /\ seen + DQ!Micros(DQ!Elapsed) <= real
  <1> DEFINE c == DQ!Micros(clock)
             l == DQ!Micros(m_lastSyncTime)
             t == DQ!Borrow(clock, m_lastSyncTime)
             h == IntRange \div 2
  <1>1. /\ MILLION \in Nat \ {0} /\ IntRange \in Nat \ {0} /\ IntRange % 2 = 0
        /\ MaxReal \in Nat
    BY FarNat DEF PartsAssumption, DQ!TimevalAssumption, DelaysFit
  <1>2. /\ clock \in Moments /\ m_lastSyncTime \in Moments /\ c \in Nat /\ l \in Nat
        /\ DQ!WentBack <=> c < l
    BY <1>1, MicrosGe DEF ClockRight, DQ!WentBack
  <1>3. DQ!Zero \in Moments /\ DQ!Micros(DQ!Zero) = 0
    BY <1>1 DEF DQ!Zero, DQ!Tv, DQ!Micros, Moments
  <1>4. h \in Nat /\ IntRange = 2 * h
    BY <1>1
  <1>5. /\ t \in [s : Int, u : 0 .. MILLION - 1]
        /\ DQ!Micros(t) = c - l
        /\ t.s < 0 <=> c < l
    BY <1>1, <1>2, MicrosBorrow
  <1>6. c <= MILLION + MaxReal /\ MILLION + MaxReal < MILLION * h
    BY <1>1, <1>2 DEF ClockRight, DelaysFit
  <1>7. DQ!Elapsed = IF DQ!WentBack THEN DQ!Zero ELSE IF DQ!ToInt(t.s) < 0 THEN DQ!Zero ELSE t
    BY DEF DQ!Elapsed, DQ!Diff
  <1> HIDE DEF c, l, t, h
  <1>8. CASE DQ!WentBack
    BY <1>2, <1>3, <1>7, <1>8 DEF ClockRight, c, l
  <1>9. CASE ~DQ!WentBack
    <2>1. t.s \in Nat /\ t.u \in Nat /\ ~(c < l)
      BY <1>2, <1>5, <1>9
    <2>2. t.s < h
      <3>1. SUFFICES ASSUME ~(t.s < h) PROVE FALSE
        OBVIOUS
      <3>2. PICK x \in Nat, y \in Nat : x = t.s * MILLION /\ y = h * MILLION
        BY <1>1, <1>4, <2>1
      <3>3. x >= y
        <4>1. CASE t.s = h
          BY <3>2, <4>1
        <4>2. CASE t.s > h
          <5>1. t.s * MILLION >= h * MILLION + MILLION
            BY <1>1, <1>4, <2>1, <4>2, MoreSeconds
          <5> QED
            BY <1>1, <3>2, <5>1
        <4> QED
          BY <1>4, <2>1, <3>1, <4>1, <4>2
      <3>4. DQ!Micros(t) = x + t.u
        BY <3>2 DEF DQ!Micros
      <3>5. MILLION * h = y
        BY <1>1, <1>4, <3>2
      <3>6. x + t.u = c - l /\ c < y
        BY <1>1, <1>2, <1>5, <1>6, <3>4, <3>5
      <3> QED
        BY <1>2, <2>1, <3>2, <3>3, <3>6
    <2>3. DQ!ToInt(t.s) = t.s
      <3>1. PICK x \in Nat : x = t.s
        BY <2>1
      <3>2. x < h /\ x < IntRange
        BY <1>4, <2>2, <3>1
      <3>3. x % IntRange = x
        BY <1>1, <3>2
      <3>4. ~(x >= IntRange \div 2)
        BY <1>4, <3>2 DEF h
      <3> QED
        BY <3>1, <3>3, <3>4 DEF DQ!ToInt
    <2>4. DQ!Elapsed = t
      BY <1>7, <1>9, <2>1, <2>3
    <2>5. t \in Moments
      BY <1>5, <2>1 DEF Moments
    <2>6. c - l \in Nat /\ c - l = IF c > l THEN c - l ELSE 0
      BY <1>2, <2>1
    <2>7. seen + (c - l) <= real
      <3>1. Slack = real - seen - (c - l) /\ Slack >= 0 /\ real \in Nat /\ seen \in Nat
        BY DEF ClockRight, Slack, c, l
      <3> QED
        BY <1>2, <3>1
    <2> QED
      BY <1>5, <1>9, <2>4, <2>5, <2>6, <2>7 DEF c, l
  <1> QED
    BY <1>8, <1>9

\* synchronize: the list is that much later, and the clock's account stays right;
\* what every lag was at least, it still is.
LEMMA SyncLater ==
  ASSUME PartsAssumption, DelaysFit, ClockRight, NEW q, NEW A, NEW n \in Nat,
         RightList(q, A, seen, n)
  PROVE  LET r == IF DQ!WentBack THEN q ELSE DQ!Elapse(q, DQ!Elapsed)
         IN  /\ RightList(r, A, seen + DQ!Micros(DQ!Elapsed), n)
             /\ Later(q, r, DQ!Micros(DQ!Elapsed)) /\ Listed(r) = Listed(q)
  <1> DEFINE e == DQ!Micros(DQ!Elapsed)
             r == IF DQ!WentBack THEN q ELSE DQ!Elapse(q, DQ!Elapsed)
  <1>1. /\ DQ!Elapsed \in Moments /\ e \in Nat /\ (DQ!WentBack => e = 0)
        /\ seen + e <= real /\ seen \in Nat /\ real \in Nat /\ real <= MaxReal
    BY ElapsedRight DEF ClockRight
  <1>2. MILLION \in Nat \ {0} /\ Far \in Nat /\ MaxReal < Far /\ MaxReal \in Nat
    BY FarNat
  <1>3. Chain(q) /\ q \in Seq(Links) /\ DQ!Sums(q)[Len(q)] = Far - seen
    BY DEF RightList, Chain
  <1>4. Later(q, r, e)
    <2>1. CASE DQ!WentBack
      <3>1. r = q /\ e = 0
        BY <1>1, <2>1
      <3>2. \A i \in 0 .. Len(q) : DQ!Sums(q)[i] \in Nat
        BY <1>2, <1>3, SumsRight DEF IsSums
      <3>3. \A i \in 0 .. Len(q) : DQ!Sums(q)[i] = IF DQ!Sums(q)[i] > 0 THEN DQ!Sums(q)[i] - 0 ELSE 0
        BY <3>2
      <3> HIDE DEF r, e
      <3> QED
        BY <1>3, <3>1, <3>3 DEF Later
    <2>2. CASE ~DQ!WentBack
      <3>1. e < DQ!Sums(q)[Len(q)]
        <4> HIDE DEF e
        <4> QED
          BY <1>1, <1>2, <1>3
      <3> QED
        BY <1>1, <1>2, <1>3, <2>2, <3>1, ElapseRight
    <2> QED
      BY <2>1, <2>2
  <1> HIDE DEF r, e
  <1>5. seen + e <= MaxReal
    BY <1>1, <1>2
  <1>6. RightList(r, A, seen + e, n)
    BY <1>1, <1>4, <1>5, RightLater
  <1>7. Listed(r) = Listed(q)
    BY <1>3, <1>4, ListedLater
  <1> QED
    BY <1>4, <1>6, <1>7 DEF r, e

LEMMA SyncClock ==
  ASSUME PartsAssumption, DelaysFit, ClockRight, DQ!SyncTime,
         UNCHANGED <<clock, real, lost, back>>
  PROVE  /\ ClockRight' /\ seen' = seen + DQ!Micros(DQ!Elapsed) /\ Slack' = real' - seen'
         /\ \A x \in Int : x <= real - seen /\ x <= Slack => x <= real' - seen' /\ x <= Slack'
  <1> DEFINE e == DQ!Micros(DQ!Elapsed)
             c == DQ!Micros(clock)
             l == DQ!Micros(m_lastSyncTime)
  <1>1. /\ e \in Nat /\ e = IF c > l THEN c - l ELSE 0
        /\ seen + e <= real
    BY ElapsedRight
  <1>2. /\ clock \in Moments /\ c \in Nat /\ l \in Nat /\ MILLION \in Nat \ {0}
    BY FarNat, MicrosGe DEF ClockRight
  <1>3. /\ real \in Nat /\ seen \in Nat /\ lost \in Nat /\ real <= MaxReal
        /\ Slack = real - seen - (c - l) /\ Slack \in 0 .. lost /\ c <= MILLION + real
    BY DEF ClockRight, Slack
  <1>4. seen' = seen + e /\ m_lastSyncTime' = clock /\ clock' = clock /\ real' = real
        /\ lost' = lost /\ back' = back
    BY DEF DQ!SyncTime
  <1>5. Slack' = real - (seen + e) - (c - c)
    BY <1>4 DEF Slack, DQ!Micros
  <1> HIDE DEF e, c, l
  <1>6. c - c = 0 /\ real - (seen + e) - 0 = real - (seen + e)
    BY <1>1, <1>2, <1>3
  <1>7. Slack' = real - (seen + e)
    BY <1>5, <1>6
  <1>8. Slack' \in 0 .. lost /\ seen + e \in Nat
    BY <1>1, <1>2, <1>3, <1>7
  <1>9. DQ!Micros(clock)' = c
    BY <1>4 DEF c, DQ!Micros
  <1>10. ClockRight'
    BY <1>1, <1>2, <1>3, <1>4, <1>8, <1>9 DEF ClockRight
  <1>11. ASSUME NEW x \in Int, x <= real - seen, x <= Slack
         PROVE  x <= real' - seen' /\ x <= Slack'
    BY <1>1, <1>2, <1>3, <1>4, <1>7, <1>11
  <1> QED
    BY <1>4, <1>7, <1>10, <1>11 DEF e

-----------------------------------------------------------------------------
(* DelayQueue: the invariant *)

\* By how much the queue was behind real time when an entry was added.
Lag(x) == asked[x].at - asked[x].seenAt

Requests == [at : Nat, seenAt : Nat, delay : Nat, nr : Nat]

QueueInv == /\ ClockRight
            /\ adds \in Nat /\ asked \in [Tasks -> Requests]
            /\ RightList(queue, asked, seen, adds)
            /\ \A x \in Listed(queue) : Lag(x) <= real - seen /\ Lag(x) <= Slack
            /\ dpc \in {"outside", "alarm", "task"}
            /\ drunning \in Tasks \cup {NoTask} /\ drunning \notin Listed(queue)
            /\ drunning # NoTask <=> dpc = "task"
            /\ DQ!NeverEarly

\* What is known of tasks in the list.
LEMMA QueueFacts ==
  ASSUME PartsAssumption, DelaysFit, QueueInv
  PROVE  /\ Chain(queue) /\ queue \in Seq(Links) /\ Len(queue) \in Nat /\ Len(queue) >= 1
         /\ DQ!Ids = Listed(queue) /\ Listed(queue) \subseteq Tasks
         /\ \A x \in Tasks : Lag(x) \in Int
         /\ real \in Nat /\ seen \in Nat /\ adds \in Nat /\ DOMAIN asked = Tasks
  <1>1. Chain(queue) /\ queue \in Seq(Links) /\ Len(queue) \in Nat /\ Len(queue) >= 1
    BY DEF QueueInv, RightList, Chain
  <1>2. DQ!Ids = Listed(queue) /\ Listed(queue) \subseteq Tasks
    BY <1>1, FarNat, ListedIds
  <1>3. \A x \in Tasks : Lag(x) \in Int
    <2> TAKE x \in Tasks
    <2>1. asked[x] \in Requests
      BY DEF QueueInv
    <2>2. asked[x].at \in Nat /\ asked[x].seenAt \in Nat
      BY <2>1 DEF Requests
    <2> QED
      BY <2>2 DEF Lag
  <1> QED
    BY <1>1, <1>2, <1>3 DEF QueueInv, ClockRight

LEMMA QueueInitInv ==
  ASSUME PartsAssumption, DelaysFit, DQ!Init
  PROVE  QueueInv
  <1> DEFINE far == DQ!Tv(Eternity, MILLION - 1)
  <1>1. /\ MILLION \in Nat \ {0} /\ NoTask \notin Tasks /\ Sentinel \notin Tasks /\ MaxReal \in Nat /\ Far \in Nat
    BY FarNat
  <1>2. /\ far \in Moments /\ DQ!Micros(far) = Far
    BY <1>1 DEF DelaysFit, DQ!Tv, Moments, Far
  <1>3. /\ queue = << [id |-> Sentinel, delta |-> far] >>
        /\ clock = [s |-> 1, u |-> 0] /\ m_lastSyncTime = clock
        /\ dpc = "outside" /\ drunning = NoTask
        /\ real = 0 /\ back = Backsteps /\ lost = 0 /\ seen = 0 /\ adds = 0
        /\ asked = [x \in Tasks |-> [at |-> 0, seenAt |-> 0, delay |-> 0, nr |-> 0]]
    BY DEF DQ!Init, DQ!Entry, DQ!Tv, DQ!Unused
  <1> HIDE DEF far
  <1>4. clock \in Moments /\ DQ!Micros(clock) = MILLION
    BY <1>1, <1>3 DEF Moments, DQ!Micros
  <1>5. ClockRight
    <2>1. Slack = 0
      BY <1>1, <1>3, <1>4 DEF Slack
    <2> QED
      BY <1>1, <1>3, <1>4, <2>1 DEF ClockRight
  <1>6. asked \in [Tasks -> Requests]
    BY <1>3 DEF Requests
  <1>7. /\ queue \in Seq(Links) /\ Len(queue) = 1 /\ queue[1].id = Sentinel /\ queue[1].delta = far
    BY <1>2, <1>3 DEF Links
  <1>8. Chain(queue)
    BY <1>7 DEF Chain
  <1>9. DQ!Sums(queue)[1] = Far
    <2>1. IsSums(DQ!Sums(queue), queue)
      BY <1>1, <1>7, SumsRight
    <2>2. 1 \in 1 .. Len(queue) /\ 1 - 1 = 0
      BY <1>7
    <2>3. DQ!Sums(queue)[1] = DQ!Sums(queue)[1 - 1] + DQ!Micros(far) /\ DQ!Sums(queue)[0] = 0
      BY <1>7, <2>1, <2>2 DEF IsSums
    <2> QED
      BY <1>1, <1>2, <2>2, <2>3
  <1>10. Listed(queue) = {}
    BY <1>7 DEF Listed
  <1>11. RightList(queue, asked, seen, adds)
    BY <1>1, <1>3, <1>7, <1>8, <1>9 DEF RightList
  <1>12. DQ!NeverEarly
    BY <1>3 DEF DQ!NeverEarly
  <1> QED
    BY <1>3, <1>5, <1>6, <1>10, <1>11, <1>12 DEF QueueInv

\* Looking at the clock.
LEMMA QueueSyncs ==
  ASSUME PartsAssumption, DelaysFit, QueueInv, DQ!SyncTime, queue' = DQ!Synchronized,
         UNCHANGED <<clock, real, back, lost, adds, asked>>
  PROVE  /\ ClockRight' /\ RightList(queue', asked', seen', adds')
         /\ Listed(queue') = Listed(queue)
         /\ \A x \in Listed(queue') : Lag(x)' <= real' - seen' /\ Lag(x)' <= Slack'
         /\ Later(queue, queue', DQ!Micros(DQ!Elapsed))
  <1>1. ClockRight /\ RightList(queue, asked, seen, adds)
    BY DEF QueueInv
  <1>2. /\ ClockRight' /\ seen' = seen + DQ!Micros(DQ!Elapsed)
        /\ \A x \in Int : x <= real - seen /\ x <= Slack => x <= real' - seen' /\ x <= Slack'
    BY <1>1, SyncClock
  <1>3. queue' = IF DQ!WentBack THEN queue ELSE DQ!Elapse(queue, DQ!Elapsed)
    BY DEF DQ!Synchronized
  <1>4. /\ RightList(queue', asked, seen + DQ!Micros(DQ!Elapsed), adds)
        /\ Later(queue, queue', DQ!Micros(DQ!Elapsed)) /\ Listed(queue') = Listed(queue)
    BY <1>1, <1>3, QueueFacts, SyncLater
  <1>5. ASSUME NEW x \in Listed(queue') PROVE Lag(x)' <= real' - seen' /\ Lag(x)' <= Slack'
    <2>1. x \in Listed(queue) /\ x \in Tasks /\ Lag(x) \in Int
      BY <1>4, QueueFacts
    <2>2. Lag(x)' = Lag(x)
      BY DEF Lag
    <2>3. Lag(x) <= real - seen /\ Lag(x) <= Slack
      BY <2>1 DEF QueueInv
    <2> QED
      BY <1>2, <2>1, <2>2, <2>3
  <1> QED
    BY <1>2, <1>4, <1>5

\* AddEntry, to the list as it is or without the entry that changes.
LEMMA QueueAdds ==
  ASSUME PartsAssumption, DelaysFit, QueueInv, NEW q, NEW id \in Tasks, NEW d \in Delays,
         RightList(q, asked, seen, adds), Listed(q) \subseteq Listed(queue),
         id \notin Listed(q), id # drunning, DQ!SyncTime, DQ!Ask(id, d),
         queue' = DQ!Insert(IF DQ!WentBack THEN q ELSE DQ!Elapse(q, DQ!Elapsed),
                            DQ!Entry(id, DQ!Interval(d))),
         UNCHANGED <<clock, dpc, drunning, real, back, lost>>
  PROVE  QueueInv' /\ Listed(queue') = Listed(q) \cup {id}
  <1> DEFINE r == IF DQ!WentBack THEN q ELSE DQ!Elapse(q, DQ!Elapsed)
             new == [at |-> real, delay |-> d, nr |-> adds, seenAt |-> seen']
  <1>1. ClockRight /\ RightList(queue, asked, seen, adds) /\ asked \in [Tasks -> Requests]
    BY DEF QueueInv
  <1>2. /\ ClockRight' /\ seen' = seen + DQ!Micros(DQ!Elapsed) /\ Slack' = real' - seen'
        /\ \A x \in Int : x <= real - seen /\ x <= Slack => x <= real' - seen' /\ x <= Slack'
    BY <1>1, SyncClock
  <1>3. /\ RightList(r, asked, seen', adds) /\ Listed(r) = Listed(q)
    BY <1>1, <1>2, QueueFacts, SyncLater
  <1>4. /\ adds' = adds + 1 /\ asked' = [asked EXCEPT ![id] = new]
    BY DEF DQ!Ask
  <1>5. seen' \in Nat /\ seen' <= MaxReal /\ real' = real /\ real \in Nat /\ adds \in Nat /\ DOMAIN asked = Tasks
    <2>1. seen' \in Nat /\ seen' <= real' /\ real' <= MaxReal /\ real' = real /\ real \in Nat
      BY <1>1, <1>2 DEF ClockRight
    <2>2. MaxReal \in Nat
      BY FarNat
    <2> QED
      BY <2>1, <2>2, QueueFacts
  <1>6. Chain(r) /\ Len(r) \in Nat /\ Len(r) >= 1 /\ r[Len(r)].id = Sentinel /\ Sentinel \notin Tasks
    BY <1>3, FarNat DEF RightList, Chain
  <1>7. \A i \in 1 .. Len(r) : r[i].id # id
    <2> TAKE i \in 1 .. Len(r)
    <2>1. i = Len(r) \/ i \in 1 .. Len(r) - 1
      BY <1>6
    <2>2. id \notin Listed(r)
      BY <1>3
    <2> QED
      BY <1>6, <2>1, <2>2 DEF Listed
  <1>8. queue' = DQ!Insert(r, DQ!Entry(id, DQ!Interval(d)))
    OBVIOUS
  <1> HIDE DEF r
  <1>9. RightList(queue', asked', seen', adds')
    <2>1. PICK sn \in Nat : sn = seen'
      BY <1>5
    <2>2. RightList(DQ!Insert(r, DQ!Entry(id, DQ!Interval(d))),
                    [asked EXCEPT ![id] = [at |-> real, delay |-> d, nr |-> adds, seenAt |-> sn]],
                    sn, adds + 1)
      BY <1>3, <1>5, <1>7, <2>1, RightInsert, Zenon
    <2> QED
      BY <1>4, <1>8, <2>1, <2>2
  <1>10. Listed(queue') = Listed(r) \cup {id}
    <2>1. /\ DQ!Interval(d) \in Moments /\ DQ!Micros(DQ!Interval(d)) = d
          /\ DQ!Sums(r)[Len(r)] = Far - seen'
      BY <1>3, IntervalRight DEF RightList
    <2>2. d \in Nat /\ d + MaxReal < Far /\ Far \in Nat /\ MaxReal \in Nat /\ MILLION \in Nat \ {0}
      <3>1. d \in Nat /\ Far \in Nat /\ MaxReal \in Nat /\ MILLION \in Nat \ {0}
        BY FarNat
      <3>2. d + MaxReal < Far
        BY DEF DelaysFit
      <3> QED
        BY <3>1, <3>2
    <2>3. d < Far - seen'
      <3>1. PICK sn \in Nat : sn = seen' /\ sn <= MaxReal
        BY <1>5
      <3>2. \A x, y, z, w \in Nat : x + y < z /\ w <= y => x < z - w
        OBVIOUS
      <3>3. d < Far - sn
        BY <2>2, <3>1, <3>2, Zenon
      <3> QED
        BY <3>1, <3>3
    <2>4. id \notin Listed(r)
      BY <1>3
    <2> QED
      BY <1>6, <1>8, <2>1, <2>2, <2>3, <2>4, ListedInsert
  <1>11. new \in Requests
    <2>1. d \in Nat
      BY FarNat
    <2> QED
      BY <1>5, <2>1 DEF Requests
  <1>12. asked' \in [Tasks -> Requests] /\ asked'[id] = new /\ \A x \in Tasks : x # id => asked'[x] = asked[x]
    BY <1>1, <1>4, <1>11
  <1>13. ASSUME NEW x \in Listed(queue') PROVE Lag(x)' <= real' - seen' /\ Lag(x)' <= Slack'
    <2>1. CASE x = id
      <3>1. Lag(x)' = real - seen'
        BY <1>12, <2>1 DEF Lag
      <3> QED
        BY <1>2, <1>5, <3>1
    <2>2. CASE x # id
      <3>1. x \in Listed(queue) /\ x \in Tasks /\ Lag(x) \in Int
        BY <1>3, <1>10, <2>2, QueueFacts
      <3>2. Lag(x)' = Lag(x)
        BY <1>12, <2>2, <3>1 DEF Lag
      <3>3. Lag(x) <= real - seen /\ Lag(x) <= Slack
        BY <3>1 DEF QueueInv
      <3> QED
        BY <1>2, <3>1, <3>2, <3>3
    <2> QED
      BY <2>1, <2>2
  <1>14. drunning' = drunning /\ dpc' = dpc /\ drunning \notin Listed(queue')
    <2>1. drunning \notin Listed(queue)
      BY DEF QueueInv
    <2> QED
      BY <1>3, <1>10, <2>1
  <1>15. DQ!NeverEarly'
    <2>1. drunning # NoTask => drunning \in Tasks /\ asked'[drunning] = asked[drunning]
      BY <1>12 DEF QueueInv
    <2> QED
      BY <1>5, <1>14, <2>1 DEF QueueInv, DQ!NeverEarly
  <1>16. adds' \in Nat
    BY <1>4, <1>5
  <1> QED
    BY <1>2, <1>3, <1>9, <1>10, <1>12, <1>13, <1>14, <1>15, <1>16 DEF QueueInv

\* An entry leaves the list.
LEMMA QueueDrops ==
  ASSUME PartsAssumption, DelaysFit, QueueInv, NEW p \in 1 .. Len(queue) - 1
  PROVE  /\ RightList(DQ!Without(queue, p), asked, seen, adds)
         /\ Listed(DQ!Without(queue, p)) = Listed(queue) \ {queue[p].id}
  <1>1. RightList(queue, asked, seen, adds) /\ Chain(queue) /\ seen \in Nat /\ adds \in Nat
    BY QueueFacts DEF QueueInv
  <1> QED
    BY <1>1, FarNat, RightWithout, ListedWithout

\* The place of an entry.
LEMMA PosRight ==
  ASSUME PartsAssumption, DelaysFit, QueueInv, NEW id \in DQ!Ids
  PROVE  DQ!PosOf(id) \in 1 .. Len(queue) - 1 /\ queue[DQ!PosOf(id)].id = id
  <1>1. /\ Chain(queue) /\ Len(queue) \in Nat /\ Len(queue) >= 1 /\ id \in Listed(queue) /\ id \in Tasks
        /\ Sentinel \notin Tasks
    BY QueueFacts, FarNat
  <1>2. PICK i \in 1 .. Len(queue) : queue[i].id = id
    BY <1>1 DEF Listed
  <1>3. DQ!PosOf(id) \in 1 .. Len(queue) /\ queue[DQ!PosOf(id)].id = id
    BY <1>2 DEF DQ!PosOf
  <1>4. DQ!PosOf(id) # Len(queue)
    BY <1>1, <1>3 DEF Chain
  <1> QED
    BY <1>1, <1>3, <1>4

\* The head is due when its delta is zero: then it is not the sentinel.
LEMMA HeadDue ==
  ASSUME PartsAssumption, DelaysFit, QueueInv
  PROVE  /\ DQ!Eq(Head(queue).delta, DQ!Zero) <=> DQ!Sums(queue)[1] = 0
         /\ DQ!Sums(queue)[1] = 0 => 1 \in 1 .. Len(queue) - 1
  <1>1. /\ queue \in Seq(Links) /\ Len(queue) \in Nat /\ Len(queue) >= 1 /\ MILLION \in Nat \ {0}
        /\ Far \in Nat /\ MaxReal < Far /\ MaxReal \in Nat
    BY QueueFacts, FarNat
  <1>2. Head(queue) = queue[1] /\ 1 \in 1 .. Len(queue)
    BY <1>1
  <1>3. queue[1].delta \in Moments /\ DQ!Micros(queue[1].delta) \in Nat
    BY <1>1, <1>2, LinkTypes
  <1>4. DQ!Zero \in Moments /\ DQ!Micros(DQ!Zero) = 0
    BY <1>1 DEF DQ!Zero, DQ!Tv, DQ!Micros, Moments
  <1>5. DQ!Eq(queue[1].delta, DQ!Zero) <=> DQ!Micros(queue[1].delta) = 0
    BY <1>1, <1>3, <1>4, MicrosGe
  <1>6. DQ!Sums(queue)[1] = DQ!Micros(queue[1].delta)
    <2>1. IsSums(DQ!Sums(queue), queue)
      BY <1>1, SumsRight
    <2>2. DQ!Sums(queue)[1] = DQ!Sums(queue)[1 - 1] + DQ!Micros(queue[1].delta)
      BY <1>2, <2>1 DEF IsSums
    <2>3. DQ!Sums(queue)[1 - 1] = 0
      BY <2>1 DEF IsSums
    <2> QED
      BY <1>3, <2>2, <2>3
  <1>7. Len(queue) = 1 => DQ!Sums(queue)[1] # 0
    <2>1. DQ!Sums(queue)[Len(queue)] = Far - seen /\ seen \in Nat /\ seen <= real /\ real <= MaxReal /\ real \in Nat
      BY DEF QueueInv, RightList, ClockRight
    <2>2. Far - seen # 0
      BY <1>1, <2>1
    <2> QED
      BY <2>1, <2>2
  <1>8. DQ!Eq(Head(queue).delta, DQ!Zero) <=> DQ!Sums(queue)[1] = 0
    BY <1>2, <1>5, <1>6
  <1>9. DQ!Sums(queue)[1] = 0 => 1 \in 1 .. Len(queue) - 1
    <2>1. PICK n \in Nat : n = Len(queue) /\ n >= 1
      BY <1>1, Zenon
    <2>2. n # 1 => 1 \in 1 .. n - 1
      BY <2>1
    <2> QED
      BY <1>7, <2>1, <2>2, Zenon
  <1> QED
    BY <1>8, <1>9

LEMMA QueueSchedules ==
  ASSUME PartsAssumption, DelaysFit, QueueInv, NEW id \in Tasks, NEW d \in Delays,
         DQ!ScheduleDelayTask(id, d)
  PROVE  QueueInv'
  <1>1. /\ id \notin Listed(queue) /\ id # drunning /\ DQ!SyncTime /\ DQ!Ask(id, d)
        /\ queue' = DQ!Insert(IF DQ!WentBack THEN queue ELSE DQ!Elapse(queue, DQ!Elapsed),
                              DQ!Entry(id, DQ!Interval(d)))
        /\ UNCHANGED <<clock, dpc, drunning, real, back, lost>>
    BY QueueFacts DEF DQ!ScheduleDelayTask, DQ!Synchronized
  <1>2. RightList(queue, asked, seen, adds)
    BY DEF QueueInv
  <1> QED
    BY <1>1, <1>2, QueueAdds

LEMMA QueueUpdates ==
  ASSUME PartsAssumption, DelaysFit, QueueInv, NEW id \in Tasks, NEW d \in Delays,
         DQ!UpdateEntry(id, d)
  PROVE  QueueInv'
  <1> DEFINE r == DQ!Without(queue, DQ!PosOf(id))
  <1>1. /\ id \in DQ!Ids /\ DQ!SyncTime /\ DQ!Ask(id, d)
        /\ queue' = DQ!Insert(IF DQ!WentBack THEN r ELSE DQ!Elapse(r, DQ!Elapsed),
                              DQ!Entry(id, DQ!Interval(d)))
        /\ UNCHANGED <<clock, dpc, drunning, real, back, lost>>
    BY DEF DQ!UpdateEntry
  <1>2. DQ!PosOf(id) \in 1 .. Len(queue) - 1 /\ queue[DQ!PosOf(id)].id = id
    BY <1>1, PosRight
  <1>3. RightList(r, asked, seen, adds) /\ Listed(r) = Listed(queue) \ {id}
    BY <1>2, QueueDrops
  <1>4. id # drunning
    BY <1>1, QueueFacts DEF QueueInv
  <1> HIDE DEF r
  <1> QED
    BY <1>1, <1>3, <1>4, QueueAdds

LEMMA QueueRemoves ==
  ASSUME PartsAssumption, DelaysFit, QueueInv, NEW id \in Tasks, DQ!RemoveEntry(id)
  PROVE  QueueInv'
  <1> DEFINE r == DQ!Without(queue, DQ!PosOf(id))
  <1>1. /\ id \in DQ!Ids /\ queue' = r
        /\ UNCHANGED <<m_lastSyncTime, clock, dpc, drunning, real, back, lost, seen, adds, asked>>
    BY DEF DQ!RemoveEntry
  <1>2. DQ!PosOf(id) \in 1 .. Len(queue) - 1 /\ queue[DQ!PosOf(id)].id = id
    BY <1>1, PosRight
  <1>3. RightList(r, asked, seen, adds) /\ Listed(r) = Listed(queue) \ {id}
    BY <1>2, QueueDrops
  <1> HIDE DEF r
  <1>4. Slack' = Slack /\ (ClockRight => ClockRight')
    BY <1>1 DEF Slack, ClockRight, DQ!Micros
  <1>5. \A x : Lag(x)' = Lag(x)
    BY <1>1 DEF Lag
  <1> QED
    BY <1>1, <1>3, <1>4, <1>5 DEF QueueInv, DQ!NeverEarly

\* A task that runs has waited long enough.
LEMMA QueueRuns ==
  ASSUME PartsAssumption, DelaysFit, QueueInv, DQ!RunTask
  PROVE  QueueInv'
  <1> DEFINE r == DQ!Without(queue, 1)
             x == queue[1].id
  <1>1. /\ dpc = "alarm" /\ DQ!Eq(Head(queue).delta, DQ!Zero)
        /\ drunning' = Head(queue).id /\ queue' = r /\ dpc' = "task"
        /\ UNCHANGED <<m_lastSyncTime, clock, real, back, lost, seen, adds, asked>>
    BY DEF DQ!RunTask
  <1>2. DQ!Sums(queue)[1] = 0 /\ 1 \in 1 .. Len(queue) - 1
    BY <1>1, HeadDue
  <1>3. RightList(r, asked, seen, adds) /\ Listed(r) = Listed(queue) \ {x}
    BY <1>2, QueueDrops
  <1>4. x \in Listed(queue) /\ x \in Tasks /\ Head(queue) = queue[1]
    BY <1>2, QueueFacts DEF Listed
  <1>5. Slack' = Slack /\ (ClockRight => ClockRight')
    BY <1>1 DEF Slack, ClockRight, DQ!Micros
  <1>6. \A y : Lag(y)' = Lag(y)
    BY <1>1 DEF Lag
  <1>7. real - asked[x].at >= asked[x].delay
    <2>1. /\ asked[x].seenAt \in 0 .. seen /\ Rest(asked[x], seen) = 0 /\ asked[x].delay \in Delays
      BY <1>2 DEF QueueInv, RightList
    <2>2. Lag(x) <= real - seen
      BY <1>4 DEF QueueInv
    <2>3. asked[x] \in Requests /\ real \in Nat /\ seen \in Nat
      BY <1>4, QueueFacts DEF QueueInv
    <2>4. asked[x].at \in Nat /\ asked[x].seenAt \in Nat /\ asked[x].delay \in Nat
      BY <2>3 DEF Requests
    <2>5. asked[x].at - asked[x].seenAt <= real - seen
      BY <2>2 DEF Lag
    <2>6. asked[x].delay - (seen - asked[x].seenAt) <= 0
      BY <2>1, <2>3, <2>4 DEF Rest, DQ!PositiveOrZero
    <2> QED
      BY <2>3, <2>4, <2>5, <2>6
  <1>8. NoTask \notin Tasks
    BY FarNat
  <1> HIDE DEF r, x
  <1>9. drunning' = x
    BY <1>1, <1>4 DEF x
  <1>10. DQ!NeverEarly'
    BY <1>1, <1>7, <1>9 DEF DQ!NeverEarly
  <1> QED
    BY <1>1, <1>3, <1>4, <1>5, <1>6, <1>8, <1>9, <1>10 DEF QueueInv

\* Steps of the loop that look at the clock or leave the list alone.
LEMMA QueueLoops ==
  ASSUME PartsAssumption, DelaysFit, QueueInv,
         DQ!TimeToNextAlarm \/ DQ!HandleAlarm \/ DQ!TaskReturns \/ DQ!AlarmDone
  PROVE  QueueInv'
  <1>1. CASE DQ!TimeToNextAlarm \/ DQ!HandleAlarm
    <2>1. /\ dpc = "outside" /\ dpc' \in {"outside", "alarm"}
          /\ UNCHANGED <<clock, drunning, real, back, lost, adds, asked>>
          /\ \/ queue' = DQ!Synchronized /\ DQ!SyncTime
             \/ UNCHANGED <<queue, m_lastSyncTime, seen>>
      BY <1>1 DEF DQ!TimeToNextAlarm, DQ!HandleAlarm
    <2>2. drunning = NoTask /\ drunning' = NoTask /\ DQ!NeverEarly'
      BY <2>1 DEF QueueInv, DQ!NeverEarly
    <2>3. CASE queue' = DQ!Synchronized /\ DQ!SyncTime
      <3>1. /\ ClockRight' /\ RightList(queue', asked', seen', adds')
            /\ Listed(queue') = Listed(queue)
            /\ \A x \in Listed(queue') : Lag(x)' <= real' - seen' /\ Lag(x)' <= Slack'
        BY <2>1, <2>3, QueueSyncs
      <3> QED
        BY <2>1, <2>2, <3>1 DEF QueueInv
    <2>4. CASE UNCHANGED <<queue, m_lastSyncTime, seen>>
      <3>1. Slack' = Slack /\ (ClockRight => ClockRight')
        BY <2>1, <2>4 DEF Slack, ClockRight, DQ!Micros
      <3>2. \A x : Lag(x)' = Lag(x)
        BY <2>1 DEF Lag
      <3> QED
        BY <2>1, <2>2, <2>4, <3>1, <3>2 DEF QueueInv
    <2> QED
      BY <2>1, <2>3, <2>4
  <1>2. CASE DQ!TaskReturns \/ DQ!AlarmDone
    <2>1. /\ UNCHANGED <<queue, m_lastSyncTime, clock, real, back, lost, seen, adds, asked>>
          /\ \/ dpc = "task" /\ dpc' = "alarm" /\ drunning' = NoTask
             \/ dpc = "alarm" /\ dpc' = "outside" /\ drunning' = drunning
      BY <1>2 DEF DQ!TaskReturns, DQ!AlarmDone
    <2>2. Slack' = Slack /\ (ClockRight => ClockRight')
      BY <2>1 DEF Slack, ClockRight, DQ!Micros
    <2>3. \A x : Lag(x)' = Lag(x)
      BY <2>1 DEF Lag
    <2>4. drunning' = NoTask /\ DQ!NeverEarly'
      BY <2>1 DEF QueueInv, DQ!NeverEarly
    <2>5. NoTask \notin Listed(queue)
      BY QueueFacts, FarNat
    <2> QED
      BY <2>1, <2>2, <2>3, <2>4, <2>5 DEF QueueInv
  <1> QED
    BY <1>1, <1>2

\* Time passes, and the clock is set back.
LEMMA QueueClock ==
  ASSUME PartsAssumption, DelaysFit, QueueInv, DQ!Tick \/ \E k \in Backsteps : DQ!SetBack(k)
  PROVE  QueueInv'
  <1> DEFINE c == DQ!Micros(clock)
             l == DQ!Micros(m_lastSyncTime)
  <1>1. /\ clock \in Moments /\ m_lastSyncTime \in Moments /\ c \in Nat /\ l \in Nat /\ MILLION \in Nat \ {0}
        /\ real \in Nat /\ seen \in Nat /\ lost \in Nat /\ MaxReal \in Nat
        /\ real <= MaxReal /\ seen <= real /\ back \subseteq Backsteps /\ c <= MILLION + real
        /\ Slack = real - seen - (c - l) /\ Slack \in 0 .. lost
    BY FarNat, MicrosGe DEF QueueInv, ClockRight, Slack
  <1>0. Slack' = real' - seen' - (DQ!Micros(clock') - DQ!Micros(m_lastSyncTime'))
    BY DEF Slack, DQ!Micros
  <1>2. /\ UNCHANGED <<queue, m_lastSyncTime, dpc, drunning, seen, adds, asked>>
        /\ ClockRight' /\ real' \in Nat /\ real' >= real /\ Slack' \in Int /\ Slack' >= Slack
    <2>1. CASE DQ!Tick
      <3>1. /\ real < MaxReal /\ real' = real + 1 /\ clock' = DQ!Plus(clock, DQ!Tv(0, 1))
            /\ UNCHANGED <<queue, m_lastSyncTime, dpc, drunning, back, lost, seen, adds, asked>>
        BY <2>1 DEF DQ!Tick
      <3>2. CASE MILLION = 1
        <4>1. clock.s \in Nat /\ clock.u = 0
          BY <1>1, <3>2 DEF Moments
        <4>2. clock' = [s |-> clock.s + 1, u |-> 0]
          BY <3>1, <3>2, <4>1 DEF DQ!Plus, DQ!Tv
        <4>3. clock' \in Moments /\ DQ!Micros(clock') = c + 1
          BY <3>2, <4>1, <4>2 DEF Moments, DQ!Micros
        <4> HIDE DEF c
        <4>4. Slack' = real + 1 - seen - (c + 1 - l)
          <5>1. DQ!Micros(m_lastSyncTime') = l
            BY <3>1
          <5>2. real' = real + 1 /\ seen' = seen /\ DQ!Micros(clock') = c + 1
            BY <3>1, <4>3
          <5> HIDE DEF l
          <5> QED
            BY <1>0, <1>1, <5>1, <5>2
        <4>5. Slack' = Slack
          BY <1>1, <4>4
        <4>6. ClockRight'
          <5>1. DQ!Micros(clock)' = c + 1 /\ c + 1 <= MILLION + (real + 1)
            BY <1>1, <4>3 DEF DQ!Micros
          <5>2. real + 1 <= MaxReal /\ seen <= real + 1 /\ real + 1 \in Nat
            BY <1>1, <3>1
          <5> QED
            BY <1>1, <3>1, <4>3, <4>5, <5>1, <5>2 DEF ClockRight
        <4> QED
          BY <1>1, <3>1, <4>5, <4>6
      <3>3. CASE MILLION # 1
        <4>1. DQ!Tv(0, 1) \in Moments /\ DQ!Micros(DQ!Tv(0, 1)) = 1
          BY <1>1, <3>3 DEF DQ!Tv, Moments, DQ!Micros
        <4>2. clock' \in Moments /\ DQ!Micros(clock') = c + 1
          BY <1>1, <3>1, <4>1, MicrosPlus
        <4> HIDE DEF c
        <4>4. Slack' = real + 1 - seen - (c + 1 - l)
          <5>1. DQ!Micros(m_lastSyncTime') = l
            BY <3>1
          <5>2. real' = real + 1 /\ seen' = seen /\ DQ!Micros(clock') = c + 1
            BY <3>1, <4>2
          <5> HIDE DEF l
          <5> QED
            BY <1>0, <1>1, <5>1, <5>2
        <4>5. Slack' = Slack
          BY <1>1, <4>4
        <4>6. ClockRight'
          <5>1. DQ!Micros(clock)' = c + 1 /\ c + 1 <= MILLION + (real + 1)
            BY <1>1, <4>2 DEF DQ!Micros
          <5>2. real + 1 <= MaxReal /\ seen <= real + 1 /\ real + 1 \in Nat
            BY <1>1, <3>1
          <5> QED
            BY <1>1, <3>1, <4>2, <4>5, <5>1, <5>2 DEF ClockRight
        <4> QED
          BY <1>1, <3>1, <4>5, <4>6
      <3> QED
        BY <3>2, <3>3
    <2>2. CASE \E k \in Backsteps : DQ!SetBack(k)
      <3>1. PICK k \in Backsteps : DQ!SetBack(k)
        BY <2>2
      <3>2. /\ k \in Nat /\ back' = back \ {k} /\ lost' = lost + k /\ clock' = DQ!Minus(clock, DQ!Split(k))
            /\ UNCHANGED <<queue, m_lastSyncTime, dpc, drunning, real, seen, adds, asked>>
        BY <3>1 DEF DQ!SetBack, DelaysFit
      <3>3. DQ!Split(k) \in Moments /\ DQ!Micros(DQ!Split(k)) = k
        BY <1>1, <3>2, MicrosSplit
      <3>4. clock' \in Moments /\ DQ!Micros(clock') = IF c > k THEN c - k ELSE 0
        BY <1>1, <3>2, <3>3, MicrosMinus
      <3> HIDE DEF c
      <3>5. PICK x \in Nat : x = DQ!Micros(clock') /\ x <= c /\ c - x <= k
        <4>1. PICK x : x = IF c > k THEN c - k ELSE 0
          OBVIOUS
        <4>2. x \in Nat /\ x <= c /\ c - x <= k
          BY <1>1, <3>2, <4>1
        <4> QED
          BY <3>4, <4>1, <4>2
      <3>6. Slack' = real - seen - (x - l)
        <4>1. DQ!Micros(m_lastSyncTime') = l
          BY <3>2
        <4> HIDE DEF l
        <4> QED
          BY <1>0, <3>2, <3>5, <4>1
      <3>7. Slack' \in 0 .. lost' /\ Slack' >= Slack
        BY <1>1, <3>2, <3>5, <3>6
      <3>8. ClockRight'
        <4>1. DQ!Micros(clock)' = x /\ x <= MILLION + real
          BY <1>1, <3>5 DEF DQ!Micros
        <4>2. back' \subseteq Backsteps /\ lost' \in Nat
          BY <1>1, <3>2
        <4> QED
          BY <1>1, <3>2, <3>4, <3>7, <4>1, <4>2 DEF ClockRight
      <3> QED
        BY <1>1, <3>2, <3>7, <3>8
    <2> QED
      BY <2>1, <2>2
  <1>3. ASSUME NEW x \in Listed(queue') PROVE Lag(x)' <= real' - seen' /\ Lag(x)' <= Slack'
    <2>1. x \in Listed(queue) /\ Lag(x) \in Int
      BY <1>2, QueueFacts
    <2>2. Lag(x)' = Lag(x)
      BY <1>2 DEF Lag
    <2>3. Lag(x) <= real - seen /\ Lag(x) <= Slack
      BY <2>1 DEF QueueInv
    <2> HIDE DEF c, l
    <2> QED
      BY <1>1, <1>2, <2>1, <2>2, <2>3
  <1>4. DQ!NeverEarly'
    <2>1. drunning # NoTask => /\ drunning \in Tasks /\ asked[drunning] \in Requests
                               /\ real - asked[drunning].at >= asked[drunning].delay
      BY DEF QueueInv, DQ!NeverEarly
    <2>2. drunning # NoTask => real' - asked[drunning].at >= asked[drunning].delay
      <3>1. SUFFICES ASSUME drunning # NoTask
                     PROVE  real' - asked[drunning].at >= asked[drunning].delay
        OBVIOUS
      <3>2. asked[drunning].at \in Nat /\ asked[drunning].delay \in Nat
        BY <2>1, <3>1 DEF Requests
      <3> QED
        BY <1>1, <1>2, <2>1, <3>1, <3>2
    <2> QED
      BY <1>2, <2>2 DEF DQ!NeverEarly
  <1> QED
    BY <1>2, <1>3, <1>4 DEF QueueInv

LEMMA QueueNextInv ==
  ASSUME PartsAssumption, DelaysFit, QueueInv, [DQ!Next]_(DQ!dqVars)
  PROVE  QueueInv'
  <1>1. CASE DQ!Operation
    BY <1>1, QueueSchedules, QueueUpdates, QueueRemoves DEF DQ!Operation
  <1>2. CASE DQ!Loop
    BY <1>2, QueueLoops, QueueRuns DEF DQ!Loop
  <1>3. CASE DQ!Tick \/ \E k \in Backsteps : DQ!SetBack(k)
    BY <1>3, QueueClock
  <1>4. CASE UNCHANGED DQ!dqVars
    <2>1. UNCHANGED <<queue, m_lastSyncTime, clock, dpc, drunning, real, back, lost, seen, adds, asked>>
      BY <1>4 DEF DQ!dqVars
    <2>2. Slack' = Slack /\ (ClockRight => ClockRight')
      BY <2>1 DEF Slack, ClockRight, DQ!Micros
    <2>3. \A x : Lag(x)' = Lag(x)
      BY <2>1 DEF Lag
    <2> QED
      BY <2>1, <2>2, <2>3 DEF QueueInv, DQ!NeverEarly
  <1> QED
    BY <1>1, <1>2, <1>3, <1>4 DEF DQ!Next

\* What the run checks of the list follows from the invariant.
LEMMA QueueTypes ==
  ASSUME PartsAssumption, DelaysFit, QueueInv
  PROVE  DQ!TypeOK
  <1> DEFINE l == Len(queue)
             S == DQ!Sums(queue)
  <1>1. /\ Chain(queue) /\ queue \in Seq(Links) /\ l \in Nat /\ l >= 1
        /\ DQ!Ids = Listed(queue) /\ Listed(queue) \subseteq Tasks /\ seen \in Nat
        /\ MILLION \in Nat \ {0} /\ Far \in Nat
    BY QueueFacts, FarNat
  <1>2. \A i \in 1 .. l : /\ queue[i].id \in Tasks \cup {Sentinel} /\ queue[i].delta \in Moments
                          /\ queue[i].id = Sentinel <=> i = l
    BY <1>1, LinkTypes DEF Chain
  <1>3. IsSums(S, queue) /\ S[l] = Far - seen
    BY <1>1, SumsRight DEF QueueInv, RightList
  <1>4. ASSUME NEW i \in 1 .. l PROVE queue[i].delta.s \in 0 .. Eternity
    <2>1. /\ i - 1 \in 0 .. l /\ i \in 0 .. l /\ l \in i .. l
      BY <1>1
    <2>2. S[i] <= S[l]
      BY <1>1, <2>1, SumsGrow
    <2> HIDE DEF S, l
    <2>3. S[i] \in Nat /\ S[i - 1] \in Nat /\ S[i] = S[i - 1] + DQ!Micros(queue[i].delta)
      BY <1>3, <2>1, Zenon DEF IsSums, l
    <2>4. queue[i].delta.s \in Nat /\ queue[i].delta.u \in Nat /\ Eternity \in Nat
      BY <1>2 DEF Moments, DelaysFit
    <2>5. PICK s \in Nat, u \in Nat : s = queue[i].delta.s /\ u = queue[i].delta.u
      BY <2>4
    <2>5a. PICK x \in Nat, y \in Nat : x = s * MILLION /\ y = Eternity * MILLION
      BY <1>1, <2>4
    <2>6. DQ!Micros(queue[i].delta) = x + u /\ Far = y + (MILLION - 1)
      BY <2>5, <2>5a DEF DQ!Micros, Far, DQ!Tv
    <2>7. x + u <= Far
      <3>1. PICK v \in Nat, w \in Nat : v = S[i] /\ w = S[i - 1]
        BY <2>3
      <3>2. v = w + (x + u) /\ v <= Far - seen
        BY <1>3, <2>2, <2>3, <2>6, <3>1
      <3> QED
        BY <1>1, <2>5a, <3>1, <3>2
    <2>8. s > Eternity => x >= y + MILLION
      BY <1>1, <2>4, <2>5a, MoreSeconds, Zenon
    <2>9. ~(s > Eternity)
      <3>1. x + u <= y + (MILLION - 1)
        BY <2>6, <2>7
      <3> QED
        BY <1>1, <2>8, <3>1
    <2> QED
      BY <2>4, <2>5, <2>9
  <1>5. ASSUME NEW i \in 1 .. l PROVE queue[i].delta.u \in 0 .. MILLION - 1
    BY <1>2 DEF Moments
  <1>6. DQ!Cardinality(DQ!Ids) = l - 1
    <2> DEFINE f == [i \in 1 .. l - 1 |-> queue[i].id]
    <2>1. l - 1 \in Nat /\ \A i \in 1 .. l - 1 : i \in 1 .. l
      BY <1>1
    <2>2. \A i, j \in 1 .. l - 1 : f[i] = f[j] => i = j
      BY <1>1, <2>1 DEF Chain
    <2>3. f = [i \in 1 .. l - 1 |-> f[i]] /\ {f[i] : i \in 1 .. l - 1} = Listed(queue)
      BY DEF Listed
    <2> HIDE DEF f
    <2>4. Cardinality({f[i] : i \in 1 .. l - 1}) = l - 1
      <3>1. PICK n \in Nat : n = l - 1
        BY <2>1, Zenon
      <3>2. f = [i \in 1 .. n |-> f[i]] /\ Differ(f, n)
        BY <2>2, <2>3, <3>1, Zenon DEF Differ
      <3>3. Cardinality({f[i] : i \in 1 .. n}) = n
        BY <3>1, <3>2, ImageCard
      <3> QED
        BY <3>1, <3>3
    <2> QED
      BY <1>1, <2>3, <2>4, SameCardinality, Zenon
  <1>7. clock.s \in Nat /\ clock.u \in 0 .. MILLION - 1
    BY DEF QueueInv, ClockRight, Moments
  <1>8. /\ dpc \in {"outside", "alarm", "task"}
        /\ drunning \in Tasks \cup {NoTask} /\ drunning \notin DQ!Ids
        /\ drunning # NoTask <=> dpc = "task"
    BY <1>1 DEF QueueInv
  <1> HIDE DEF S
  <1> QED
    BY <1>2, <1>4, <1>5, <1>6, <1>7, <1>8 DEF DQ!TypeOK

LEMMA QueueExact ==
  ASSUME PartsAssumption, DelaysFit, QueueInv
  PROVE  DQ!DeltasExact /\ DQ!DueOrder /\ DQ!NeverEarly /\ DQ!LateOnlyBySetBack
  <1>1. /\ Chain(queue) /\ Len(queue) \in Nat /\ Len(queue) >= 1
    BY QueueFacts
  <1>2. RightList(queue, asked, seen, adds) /\ ClockRight /\ DQ!NeverEarly
    BY DEF QueueInv
  <1>3. DQ!DeltasExact
    <2>1. SUFFICES ASSUME NEW i \in 1 .. Len(queue)
                   PROVE  IF i = Len(queue)
                          THEN DQ!Left(i) = Far - seen
                          ELSE DQ!Left(i) = Rest(asked[queue[i].id], seen)
      BY DEF DQ!DeltasExact, Far, Rest
    <2>2. i # Len(queue) => i \in 1 .. Len(queue) - 1
      BY <1>1
    <2> QED
      BY <1>2, <2>2 DEF RightList, DQ!Left
  <1>4. DQ!DueOrder
    BY <1>2 DEF DQ!DueOrder, RightList, Before
  <1>5. DQ!LateOnlyBySetBack
    <2> DEFINE e == DQ!Micros(DQ!Elapsed)
               c == DQ!Micros(clock)
               m == DQ!Micros(m_lastSyncTime)
    <2>1. e \in Nat /\ (e = IF c > m THEN c - m ELSE 0) /\ seen + e <= real
      BY <1>2, ElapsedRight
    <2>2. c \in Nat /\ m \in Nat
      BY <1>2, FarNat, MicrosGe DEF ClockRight
    <2>3. /\ real \in Nat /\ seen \in Nat /\ lost \in Nat
          /\ Slack = real - seen - (c - m) /\ Slack \in 0 .. lost
      BY <1>2 DEF ClockRight, Slack
    <2> HIDE DEF e, c, m
    <2>4. real - (seen + e) \in 0 .. lost
      BY <2>1, <2>2, <2>3
    <2> QED
      BY <2>4 DEF DQ!LateOnlyBySetBack, e
  <1> QED
    BY <1>2, <1>3, <1>4, <1>5

-----------------------------------------------------------------------------
(* Timeval on its own: thousands of seconds there are three, and an int has 8 values *)

TimesInv == a \in [s : Nat, u : 0 .. 2] /\ b \in [s : Nat, u : 0 .. 2]

LEMMA TimesArithmetic ==
  ASSUME TimesInv
  PROVE  TV!ArithmeticExact(a, b) /\ TV!DiffExactInRange(a, b)
  <1>1. PICK x \in Nat, u \in 0 .. 2, y \in Nat, v \in 0 .. 2 :
           a = [s |-> x, u |-> u] /\ b = [s |-> y, u |-> v]
    <2>1. /\ a.s \in Nat /\ a.u \in 0 .. 2 /\ b.s \in Nat /\ b.u \in 0 .. 2
          /\ a = [s |-> a.s, u |-> a.u] /\ b = [s |-> b.s, u |-> b.u]
      BY DEF TimesInv
    <2> QED
      BY <2>1
  <1>2. a.s = x /\ a.u = u /\ b.s = y /\ b.u = v
    BY <1>1
  <1>3. TV!Ge(a, b) <=> TV!Micros(a) >= TV!Micros(b)
    BY <1>2 DEF TV!Ge, TV!Micros
  <1>4. TV!Normalized(TV!Plus(a, b)) /\ TV!Micros(TV!Plus(a, b)) = TV!Micros(a) + TV!Micros(b)
    BY <1>2 DEF TV!Plus, TV!Tv, TV!Micros, TV!Normalized
  <1>5. /\ TV!Normalized(TV!Minus(a, b))
        /\ TV!Micros(TV!Minus(a, b)) =
              IF TV!Micros(a) > TV!Micros(b) THEN TV!Micros(a) - TV!Micros(b) ELSE 0
    BY <1>2 DEF TV!Minus, TV!Borrow, TV!Zero, TV!Tv, TV!Micros, TV!Normalized
  <1>6. TV!Split(TV!Micros(a)) = a
    <2>1. (x * 3 + u) \div 3 = x /\ (x * 3 + u) % 3 = u
      OBVIOUS
    <2> QED
      BY <1>1, <1>2, <2>1 DEF TV!Split, TV!Tv, TV!Micros
  <1>7. TV!DiffExactInRange(a, b)
    <2>1. PICK n \in Int : n = TV!Borrow(a, b).s
      <3>1. TV!Borrow(a, b).s = IF u - v < 0 THEN x - y - 1 ELSE x - y
        BY <1>2 DEF TV!Borrow, TV!Tv
      <3>2. x - y - 1 \in Int /\ x - y \in Int
        OBVIOUS
      <3> QED
        BY <3>1, <3>2
    <2>2. 8 \div 2 = 4
      OBVIOUS
    <2>3. n \in -4 .. 3 => (TV!ToInt(n) < 0 <=> n < 0)
      BY <2>2 DEF TV!ToInt
    <2> QED
      BY <2>1, <2>2, <2>3 DEF TV!DiffExactInRange, TV!Diff, TV!Minus
  <1> QED
    BY <1>3, <1>4, <1>5, <1>6, <1>7 DEF TV!ArithmeticExact

-----------------------------------------------------------------------------

\* DelayQueue: the list of differences keeps, through every addition, change, removal
\* and alarm, the exact time left for each entry; no task runs early, and the queue is
\* late by no more than the clock was set back.
THEOREM QueueRight ==
  DQ!Spec => [](DQ!TypeOK /\ DQ!DeltasExact /\ DQ!DueOrder /\ DQ!NeverEarly /\ DQ!LateOnlyBySetBack)
  <1>0. PartsAssumption /\ DelaysFit
    BY PartsAssumption
  <1>1. DQ!Init => QueueInv
    BY <1>0, QueueInitInv
  <1>2. QueueInv /\ [DQ!Next]_(DQ!dqVars) => QueueInv'
    BY <1>0, QueueNextInv
  <1>3. QueueInv => DQ!TypeOK /\ DQ!DeltasExact /\ DQ!DueOrder /\ DQ!NeverEarly /\ DQ!LateOnlyBySetBack
    BY <1>0, QueueTypes, QueueExact
  <1> QED
    BY <1>1, <1>2, <1>3, PTL DEF DQ!Spec

\* The invariant of the delay queue and the times, in the composition.
LEMMA QueueAlways == LoopSpec => [](QueueInv /\ TimesInv)
  <1>0. PartsAssumption /\ DelaysFit
    BY PartsAssumption
  <1>1. LoopInit => QueueInv /\ TimesInv
    <2>1. DQ!Init => QueueInv
      BY <1>0, QueueInitInv
    <2>2. TimeInit => TimesInv
      BY DEF TimeInit, TimesInv, TV!Zero, TV!Tv
    <2> QED
      BY <2>1, <2>2 DEF LoopInit
  <1>2. QueueInv /\ TimesInv /\ [LoopNext]_<<part, vars, delayVars, handlerVars, timeVars>>
            => (QueueInv /\ TimesInv)'
    <2> SUFFICES ASSUME QueueInv, TimesInv, [LoopNext]_<<part, vars, delayVars, handlerVars, timeVars>>
                 PROVE  QueueInv' /\ TimesInv'
      OBVIOUS
    <2>1. [DQ!Next]_(DQ!dqVars)
      BY DEF LoopNext, delayVars, DQ!dqVars
    <2>2. [TimePick]_timeVars
      BY DEF LoopNext
    <2>3. TimesInv'
      <3>1. CASE TimePick
        <4>1. 0 .. MaxSecs \subseteq Nat
          BY PartsAssumption
        <4>2. a' \in Times /\ b' \in Times
          BY <3>1 DEF TimePick
        <4> QED
          BY <4>1, <4>2 DEF TimesInv, Times
      <3>2. CASE UNCHANGED timeVars
        BY <3>2 DEF TimesInv, timeVars
      <3> QED
        BY <2>2, <3>1, <3>2
    <2> QED
      BY <1>0, <2>1, <2>3, QueueNextInv
  <1> QED
    BY <1>1, <1>2, PTL DEF LoopSpec

\* What the run checks of the delay queue and of Timeval, for any delays, clocks and
\* times.
THEOREM ListAlways == LoopSpec => []ListExact
  <1>1. QueueInv /\ TimesInv => ListExact
    BY PartsAssumption, QueueTypes, QueueExact, TimesArithmetic DEF ListExact
  <1> QED
    BY <1>1, QueueAlways, PTL

-----------------------------------------------------------------------------
(* DelayQueue implements TimerQueue *)

\* What the refinement mapping sees of a list: its due entries, and those that wait.
CountOf(q) == Cardinality({i \in 1 .. Len(q) : DQ!Sums(q)[i] = 0})
DueOf(q)   == [i \in 1 .. CountOf(q) |-> q[i].id]
WaitOf(q)  == {q[i].id : i \in CountOf(q) + 1 .. Len(q) - 1}

LEMMA SameView ==
  /\ [i \in 1 .. DQ!DueCount |-> queue[i].id] = DueOf(queue)
  /\ [i \in 1 .. DQ!DueCount |-> queue[i].id]' = DueOf(queue')
  /\ {queue[i].id : i \in DQ!DueCount + 1 .. Len(queue) - 1} = WaitOf(queue)
  /\ {queue[i].id : i \in DQ!DueCount + 1 .. Len(queue) - 1}' = WaitOf(queue')
  <1>1. DQ!DueCount = CountOf(queue) /\ DQ!DueCount' = CountOf(queue')
    BY SameCardinality DEF DQ!DueCount, CountOf, DQ!Left
  <1> QED
    BY <1>1 DEF DueOf, WaitOf

LEMMA SameLibrary ==
  ASSUME NEW X
  PROVE  /\ DQ!Timers!Range(X) = Range(X)
         /\ DQ!Timers!SetToAllKPermutations(X) = SetToAllKPermutations(X)
  <1>1. \A S : DQ!Timers!Cardinality(S) = Cardinality(S)
    BY DEF DQ!Timers!Cardinality, Cardinality
  <1>2. \A S : DQ!Timers!SetToSeqs(S) = SetToSeqs(S)
    BY <1>1 DEF DQ!Timers!SetToSeqs, SetToSeqs
  <1>3. DQ!Timers!SetToAllKPermutations(X) = SetToAllKPermutations(X)
    BY <1>2 DEF DQ!Timers!SetToAllKPermutations, SetToAllKPermutations
  <1> QED
    BY <1>3 DEF DQ!Timers!Range, Range

LEMMA ViewSynchronize ==
  ASSUME NEW late \in SetToAllKPermutations(WaitOf(queue)),
         DueOf(queue') = DueOf(queue) \o late, WaitOf(queue') = WaitOf(queue) \ Range(late),
         drunning' = drunning
  PROVE  DQ!Timers!Synchronize
  <1>1. DQ!Timers!Expirations = SetToAllKPermutations(WaitOf(queue))
    BY SameView, SameLibrary, Zenon DEF DQ!Timers!Expirations
  <1>2. late \in DQ!Timers!Expirations /\ DQ!Timers!Range(late) = Range(late)
    BY <1>1, SameLibrary
  <1> QED
    BY <1>2, SameView, Zenon DEF DQ!Timers!Synchronize

\* A list whose sentinel is not due.
Ends(q) == Chain(q) /\ DQ!Sums(q)[Len(q)] > 0

LEMMA RightEnds ==
  ASSUME PartsAssumption, DelaysFit, NEW q, NEW A, NEW sn \in Nat, NEW n, sn <= MaxReal,
         RightList(q, A, sn, n)
  PROVE  Ends(q)
  <1>1. Far \in Nat /\ MaxReal \in Nat /\ MaxReal < Far
    BY FarNat
  <1>2. Far - sn > 0
    BY <1>1
  <1> QED
    BY <1>2 DEF Ends, RightList

\* The due entries are the first ones.
LEMMA CountRight ==
  ASSUME MILLION \in Nat \ {0}, NEW q, Ends(q)
  PROVE  /\ CountOf(q) \in 0 .. Len(q) - 1
         /\ \A i \in 1 .. Len(q) : DQ!Sums(q)[i] = 0 <=> i <= CountOf(q)
  <1> DEFINE S == DQ!Sums(q)
             l == Len(q)
             Later0 == {i \in 1 .. l : S[i] # 0}
  <1>1. q \in Seq(Links) /\ l \in Nat /\ l >= 1 /\ S[l] > 0
    BY DEF Ends, Chain
  <1>2. \A i \in 0 .. l : S[i] \in Nat
    BY <1>1, SumsRight DEF IsSums
  <1>3. \A i \in 0 .. l : \A j \in i .. l : S[i] <= S[j]
    BY <1>1, SumsGrow
  <1> HIDE DEF S, l
  <1>4. PICK k \in Later0 : \A j \in Later0 : k <= j
    <2>1. Later0 \subseteq Nat /\ l \in Later0
      BY <1>1, <1>2
    <2> QED
      BY <2>1, Least, Zenon
  <1>5. k \in 1 .. l /\ S[k] # 0
    BY <1>4
  <1>6. ASSUME NEW i \in 1 .. l PROVE S[i] = 0 <=> i <= k - 1
    <2>1. CASE i <= k - 1
      <3>1. ~(k <= i)
        BY <1>5, <2>1
      <3>2. i \notin Later0
        BY <1>4, <3>1
      <3> QED
        BY <2>1, <3>2
    <2>2. CASE ~(i <= k - 1)
      <3>1. k \in 0 .. l /\ i \in k .. l /\ i \in 0 .. l
        BY <1>1, <1>5, <2>2
      <3>2. S[k] <= S[i] /\ S[k] \in Nat /\ S[i] \in Nat
        BY <1>2, <1>3, <3>1
      <3>3. S[i] # 0
        BY <1>5, <3>2
      <3> QED
        BY <2>2, <3>3
    <2> QED
      BY <2>1, <2>2
  <1>7. {i \in 1 .. l : S[i] = 0} = 1 .. k - 1
    <2>1. \A i \in 1 .. k - 1 : i \in 1 .. l /\ i <= k - 1
      BY <1>1, <1>5
    <2>2. \A i \in 1 .. l : i <= k - 1 => i \in 1 .. k - 1
      BY <1>1, <1>5
    <2> QED
      BY <1>6, <2>1, <2>2
  <1>8. Cardinality(1 .. k - 1) = k - 1
    <2>1. 1 \in Int /\ k - 1 \in Int
      BY <1>5
    <2>2. Cardinality(1 .. k - 1) = IF 1 > k - 1 THEN 0 ELSE k - 1 - 1 + 1
      BY <2>1, FS_Interval, Zenon
    <2> QED
      BY <1>5, <2>2
  <1>9. CountOf(q) = k - 1
    BY <1>7, <1>8, Zenon DEF CountOf, S, l
  <1>10. k - 1 \in 0 .. l - 1
    BY <1>1, <1>5
  <1> QED
    BY <1>6, <1>9, <1>10 DEF S, l

LEMMA CountIs ==
  ASSUME MILLION \in Nat \ {0}, NEW q, Ends(q), NEW c \in 0 .. Len(q) - 1,
         \A i \in 1 .. Len(q) : DQ!Sums(q)[i] = 0 <=> i <= c
  PROVE  CountOf(q) = c
  <1>1. Len(q) \in Nat /\ Len(q) >= 1
    BY DEF Ends, Chain
  <1>2. /\ CountOf(q) \in 0 .. Len(q) - 1
        /\ \A i \in 1 .. Len(q) : DQ!Sums(q)[i] = 0 <=> i <= CountOf(q)
    BY CountRight
  <1>3. PICK k \in 0 .. Len(q) - 1 : k = CountOf(q)
    BY <1>2
  <1>4. \A i \in 1 .. Len(q) : i <= c <=> i <= k
    BY <1>2, <1>3
  <1>5. ~(c < k)
    <2>1. c + 1 \in 1 .. Len(q) /\ ~(c + 1 <= c)
      BY <1>1
    <2>2. ~(c + 1 <= k)
      BY <1>4, <2>1
    <2> QED
      BY <1>1, <2>2
  <1>6. ~(k < c)
    <2>1. k + 1 \in 1 .. Len(q) /\ ~(k + 1 <= k)
      BY <1>1
    <2>2. ~(k + 1 <= c)
      BY <1>4, <2>1
    <2> QED
      BY <1>1, <2>2
  <1> QED
    BY <1>1, <1>3, <1>5, <1>6

LEMMA SeqIs ==
  ASSUME NEW S, NEW s \in Seq(S), NEW n, n = Len(s)
  PROVE  n \in Nat /\ s = [i \in 1 .. n |-> s[i]]
  <1>1. n \in Nat /\ s \in [1 .. n -> S]
    BY LenProperties
  <1> QED
    BY <1>1

\* Entries that became due: some of the waiting ones, behind the others.
LEMMA ViewLater ==
  ASSUME MILLION \in Nat \ {0}, NEW q, NEW r, NEW e \in Nat, Ends(q), Ends(r), Later(q, r, e)
  PROVE  \E late \in SetToAllKPermutations(WaitOf(q)) :
            DueOf(r) = DueOf(q) \o late /\ WaitOf(r) = WaitOf(q) \ Range(late)
  <1> DEFINE l == Len(q)
             c == CountOf(q)
             k == CountOf(r)
             late == [j \in 1 .. k - c |-> q[c + j].id]
  <1>1. /\ l \in Nat /\ l >= 1 /\ Len(r) = l
        /\ \A i \in 1 .. l : r[i].id = q[i].id
        /\ \A i, j \in 1 .. l : q[i].id = q[j].id => i = j
    BY DEF Ends, Chain, Later
  <1>2. /\ c \in 0 .. l - 1 /\ k \in 0 .. l - 1
        /\ \A i \in 1 .. l : DQ!Sums(q)[i] = 0 <=> i <= c
        /\ \A i \in 1 .. l : DQ!Sums(r)[i] = 0 <=> i <= k
    BY <1>1, CountRight
  <1>3. \A i \in 1 .. l : DQ!Sums(q)[i] = 0 => DQ!Sums(r)[i] = 0
    <2> TAKE i \in 1 .. l
    <2> HAVE DQ!Sums(q)[i] = 0
    <2>1. i \in 0 .. l
      BY <1>1
    <2>2. DQ!Sums(r)[i] = IF 0 > e THEN 0 - e ELSE 0
      BY <2>1 DEF Later
    <2> QED
      BY <2>2
  <1> HIDE DEF l, c, k
  <1>4. c <= k
    <2>1. CASE c = 0
      BY <1>2, <2>1
    <2>2. CASE c # 0
      <3>1. c \in 1 .. l /\ c <= c
        BY <1>1, <1>2, <2>2
      <3> QED
        BY <1>2, <1>3, <3>1
    <2> QED
      BY <2>1, <2>2
  <1>5. k - c \in Nat /\ \A j \in 1 .. k - c : c + j \in c + 1 .. l - 1 /\ c + j \in 1 .. l /\ c + j <= k
    BY <1>1, <1>2, <1>4
  <1>6. /\ late \in Seq(WaitOf(q)) /\ Len(late) = k - c
        /\ \A j \in 1 .. k - c : late[j] = q[c + j].id
    <2>1. \A j \in 1 .. k - c : q[c + j].id \in WaitOf(q)
      BY <1>5, Zenon DEF WaitOf, c, l
    <2> QED
      BY <1>5, <2>1
  <1>7. \A i, j \in 1 .. k - c : late[i] = late[j] => i = j
    <2> TAKE i, j \in 1 .. k - c
    <2> HAVE late[i] = late[j]
    <2>1. c + i = c + j
      BY <1>1, <1>5, <1>6
    <2> QED
      BY <1>2, <2>1
  <1>8. late \in SetToAllKPermutations(WaitOf(q))
    <2> DEFINE T == {late[j] : j \in 1 .. k - c}
    <2>1. late = [j \in 1 .. k - c |-> late[j]]
      OBVIOUS
    <2> HIDE DEF late
    <2>2. PICK n \in Nat : n = k - c
      BY <1>5
    <2>3. Cardinality({late[j] : j \in 1 .. n}) = n
      <3>1. PICK f : f = late
        OBVIOUS
      <3>2. f = [i \in 1 .. n |-> f[i]]
        BY <2>1, <2>2, <3>1
      <3>3. Differ(f, n)
        BY <1>7, <2>2, <3>1, Zenon DEF Differ
      <3>4. Cardinality({f[i] : i \in 1 .. n}) = n
        BY <2>2, <3>2, <3>3, ImageCard, Zenon
      <3> QED
        BY <3>1, <3>4, Zenon
    <2>4. Cardinality(T) = k - c /\ T \in SUBSET WaitOf(q)
      BY <1>6, <2>2, <2>3
    <2>5. late \in [1 .. k - c -> T]
      BY <2>1
    <2>6. late \in SetToSeqs(T)
      <3> HIDE DEF T
      <3> QED
        BY <1>7, <2>4, <2>5 DEF SetToSeqs
    <2> HIDE DEF T
    <2> QED
      BY <2>4, <2>6 DEF SetToAllKPermutations
  <1>9. Range(late) = {q[i].id : i \in c + 1 .. k}
    <2>1. Range(late) = {late[j] : j \in 1 .. k - c}
      BY DEF Range
    <2>2. \A j \in 1 .. k - c : c + j \in c + 1 .. k
      BY <1>2, <1>5
    <2>3. \A i \in c + 1 .. k : i - c \in 1 .. k - c /\ c + (i - c) = i
      BY <1>2
    <2> HIDE DEF late
    <2>4. \A i \in c + 1 .. k : late[i - c] = q[i].id
      BY <1>6, <2>3
    <2> QED
      BY <1>6, <2>1, <2>2, <2>3, <2>4
  <1>10. DueOf(r) = DueOf(q) \o late
    <2>1. DueOf(q) = [i \in 1 .. c |-> q[i].id] /\ DueOf(r) = [i \in 1 .. k |-> r[i].id]
      BY DEF DueOf, c, k
    <2> DEFINE Q == [i \in 1 .. c |-> q[i].id]
               all == {q[i].id : i \in 1 .. l}
    <2>2. \A i \in 1 .. c : i \in 1 .. l
      BY <1>1, <1>2
    <2>3. Q \in Seq(all) /\ Len(Q) = c
      BY <1>2, <2>2
    <2>4. late \in Seq(all) /\ Len(late) = k - c
      BY <1>5
    <2> HIDE DEF late, Q, all
    <2>5. /\ Q \o late \in Seq(all) /\ Len(Q \o late) = c + (k - c)
          /\ \A i \in 1 .. c + (k - c) : (Q \o late)[i] = IF i <= c THEN Q[i] ELSE late[i - c]
      <3>1. /\ Q \o late \in Seq(all) /\ Len(Q \o late) = Len(Q) + Len(late)
            /\ \A i \in 1 .. Len(Q) + Len(late) :
                  (Q \o late)[i] = IF i <= Len(Q) THEN Q[i] ELSE late[i - Len(Q)]
        BY <2>3, <2>4, ConcatProperties, Zenon
      <3> QED
        BY <2>3, <2>4, <3>1, Zenon
    <2>6. c + (k - c) = k
      BY <1>2
    <2>7. ASSUME NEW i \in 1 .. k PROVE (Q \o late)[i] = r[i].id
      <3>1. i \in 1 .. c + (k - c) /\ i \in 1 .. l /\ r[i].id = q[i].id
        BY <1>1, <1>2, <2>6
      <3>2. CASE i <= c
        <4>1. (Q \o late)[i] = Q[i] /\ i \in 1 .. c
          BY <1>2, <2>5, <3>1, <3>2
        <4> QED
          BY <3>1, <4>1, Zenon DEF Q
      <3>3. CASE ~(i <= c)
        <4>1. (Q \o late)[i] = late[i - c] /\ i - c \in 1 .. k - c /\ c + (i - c) = i
          BY <1>2, <2>5, <3>1, <3>3
        <4>2. late[i - c] = q[c + (i - c)].id
          BY <1>6, <4>1
        <4> QED
          BY <3>1, <4>1, <4>2
      <3> QED
        BY <3>2, <3>3, Zenon
    <2>8. Q \o late = [i \in 1 .. k |-> (Q \o late)[i]]
      BY <2>5, <2>6, SeqIs, Zenon
    <2>9. Q \o late = [i \in 1 .. k |-> r[i].id]
      BY <2>7, <2>8, Zenon
    <2> QED
      BY <2>1, <2>9, Zenon DEF Q
  <1>11. WaitOf(r) = WaitOf(q) \ Range(late)
    <2>1. /\ WaitOf(q) = {q[i].id : i \in c + 1 .. l - 1}
          /\ WaitOf(r) = {r[i].id : i \in k + 1 .. l - 1}
      BY <1>1 DEF WaitOf, c, k, l
    <2>2. \A i \in k + 1 .. l - 1 : i \in 1 .. l /\ i \in c + 1 .. l - 1 /\ i \notin c + 1 .. k
      BY <1>1, <1>2, <1>4
    <2>3. \A i \in c + 1 .. l - 1 : i \in 1 .. l /\ (i \notin c + 1 .. k => i \in k + 1 .. l - 1)
      BY <1>1, <1>2, <1>4
    <2>4. \A i \in c + 1 .. k : i \in 1 .. l
      BY <1>1, <1>2
    <2> HIDE DEF late
    <2>5. ASSUME NEW i \in k + 1 .. l - 1 PROVE r[i].id \in WaitOf(q) \ Range(late)
      BY <1>1, <1>9, <2>1, <2>2, <2>4
    <2>6. ASSUME NEW i \in c + 1 .. l - 1, q[i].id \notin Range(late) PROVE q[i].id \in WaitOf(r)
      <3>1. i \in k + 1 .. l - 1 /\ r[i].id = q[i].id
        BY <1>1, <1>9, <2>3, <2>6
      <3> QED
        BY <2>1, <3>1
    <2> QED
      BY <2>1, <2>5, <2>6
  <1> HIDE DEF late
  <1> QED
    BY <1>8, <1>10, <1>11

\* An entry without delay is due behind the others; any other one waits.
LEMMA ViewInsert ==
  ASSUME MILLION \in Nat \ {0}, Sentinel \notin Tasks,
         NEW q, Ends(q), NEW id \in Tasks, \A i \in 1 .. Len(q) : q[i].id # id,
         NEW t \in Moments, DQ!Micros(t) < DQ!Sums(q)[Len(q)]
  PROVE  LET r == DQ!Insert(q, DQ!Entry(id, t))
         IN  /\ DQ!Micros(t) = 0 => DueOf(r) = Append(DueOf(q), id) /\ WaitOf(r) = WaitOf(q)
             /\ DQ!Micros(t) # 0 => DueOf(r) = DueOf(q) /\ WaitOf(r) = WaitOf(q) \cup {id}
  <1> DEFINE r == DQ!Insert(q, DQ!Entry(id, t))
             S == DQ!Sums(q)
             R == DQ!Sums(r)
             l == Len(q)
             c == CountOf(q)
             k == DQ!StopOf(q, t)
             m == DQ!Micros(t)
  <1>1. Chain(q) /\ q \in Seq(Links) /\ l \in Nat /\ l >= 1 /\ S[l] > 0 /\ m \in Nat
    BY MicrosGe DEF Ends, Chain
  <1>2. /\ c \in 0 .. l - 1 /\ \A i \in 1 .. l : S[i] = 0 <=> i <= c
    BY CountRight
  <1>3. /\ k \in 1 .. l /\ \A i \in 0 .. k - 1 : S[i] <= m
        /\ \A i \in k .. l : S[i] > m
    BY <1>1, StopRight
  <1>4. /\ Chain(r) /\ Len(r) = l + 1
        /\ \A i \in 1 .. k - 1 : r[i].id = q[i].id /\ R[i] = S[i]
        /\ r[k].id = id /\ R[k] = m
        /\ \A i \in k .. l : r[i + 1].id = q[i].id /\ R[i + 1] = S[i]
    BY <1>1, InsertRight
  <1>5. \A i \in 0 .. l : S[i] \in Nat
    BY <1>1, SumsRight DEF IsSums
  <1>6. Ends(r)
    <2>1. l \in k .. l
      BY <1>1, <1>3
    <2>2. R[l + 1] = S[l]
      BY <1>4, <2>1
    <2> QED
      BY <1>1, <1>4, <2>2 DEF Ends
  <1>7. /\ DueOf(q) = [i \in 1 .. c |-> q[i].id] /\ WaitOf(q) = {q[i].id : i \in c + 1 .. l - 1}
    BY DEF DueOf, WaitOf
  <1>8. ASSUME NEW x \in 0 .. l, \A i \in 1 .. l + 1 : R[i] = 0 <=> i <= x
        PROVE  /\ DueOf(r) = [i \in 1 .. x |-> r[i].id]
               /\ WaitOf(r) = {r[i].id : i \in x + 1 .. l}
    <2>1. Len(r) - 1 = l /\ x \in 0 .. Len(r) - 1
      BY <1>1, <1>4
    <2>2. CountOf(r) = x
      BY <1>4, <1>6, <1>8, <2>1, CountIs
    <2> QED
      BY <2>1, <2>2 DEF DueOf, WaitOf
  <1> HIDE DEF r, S, R, l, c, k, m
  <1>9. CASE m = 0
    <2>1. \A i \in 1 .. l : i <= c <=> i < k
      <3> TAKE i \in 1 .. l
      <3>1. CASE i < k
        <4>1. i \in 0 .. k - 1 /\ i \in 0 .. l
          BY <1>1, <1>3, <3>1
        <4>2. S[i] <= 0 /\ S[i] \in Nat
          BY <1>3, <1>5, <1>9, <4>1
        <4> QED
          BY <1>2, <3>1, <4>2
      <3>2. CASE ~(i < k)
        <4>1. i \in k .. l
          BY <1>1, <1>3, <3>2
        <4>2. S[i] > 0
          BY <1>3, <1>9, <4>1
        <4> QED
          BY <1>2, <3>2, <4>2
      <3> QED
        BY <3>1, <3>2
    <2>2. k = c + 1
      <3>1. c + 1 \in 1 .. l /\ ~(c + 1 <= c) /\ ~(k < k)
        BY <1>1, <1>2, <1>3
      <3>2. ~(c + 1 < k) /\ ~(k <= c)
        BY <1>3, <2>1, <3>1
      <3> QED
        BY <1>2, <1>3, <3>2
    <2>3. ASSUME NEW i \in 1 .. l + 1 PROVE R[i] = 0 <=> i <= c + 1
      <3>1. CASE i < k
        <4>1. i \in 1 .. k - 1 /\ i \in 1 .. l /\ i <= c /\ i <= c + 1
          BY <1>1, <1>2, <1>3, <2>2, <3>1
        <4> QED
          BY <1>2, <1>4, <4>1
      <3>2. CASE i = k
        BY <1>2, <1>4, <1>9, <2>2, <3>2
      <3>3. CASE i > k
        <4>1. PICK j \in k .. l : i = j + 1
          <5>1. i - 1 \in k .. l /\ i = (i - 1) + 1
            BY <1>1, <1>3, <3>3
          <5> QED
            BY <5>1
        <4>2. j \in 1 .. l /\ ~(j <= c) /\ ~(i <= c + 1)
          BY <1>1, <1>2, <1>3, <2>2, <4>1
        <4> QED
          BY <1>2, <1>4, <4>1, <4>2
      <3> QED
        BY <1>3, <3>1, <3>2, <3>3
    <2>4. c + 1 \in 0 .. l
      BY <1>1, <1>2
    <2>5. /\ DueOf(r) = [i \in 1 .. c + 1 |-> r[i].id]
          /\ WaitOf(r) = {r[i].id : i \in c + 1 + 1 .. l}
      BY <1>8, <2>3, <2>4
    <2>6. DueOf(r) = Append(DueOf(q), id)
      <3> DEFINE Q == [i \in 1 .. c |-> q[i].id]
                 all == {q[i].id : i \in 1 .. l} \cup {id}
      <3>1. \A i \in 1 .. c : i \in 1 .. l /\ i \in 1 .. k - 1
        BY <1>1, <1>2, <2>2
      <3>2. Q \in Seq(all) /\ Len(Q) = c /\ id \in all
        BY <1>2, <3>1
      <3>3. \A i \in 1 .. c : Q[i] = r[i].id
        BY <1>4, <3>1
      <3> HIDE DEF Q, all
      <3>4. /\ Append(Q, id) \in Seq(all) /\ Len(Append(Q, id)) = c + 1
            /\ \A i \in 1 .. c : Append(Q, id)[i] = Q[i]
            /\ Append(Q, id)[c + 1] = id
        BY <3>2, AppendProperties
      <3>5. ASSUME NEW i \in 1 .. c + 1 PROVE Append(Q, id)[i] = r[i].id
        <4>1. i \in 1 .. c \/ i = c + 1
          BY <1>2
        <4> QED
          BY <1>4, <2>2, <3>3, <3>4, <4>1
      <3>6. Append(Q, id) = [i \in 1 .. c + 1 |-> Append(Q, id)[i]]
        BY <3>4, SeqIs, Zenon
      <3>7. Append(Q, id) = [i \in 1 .. c + 1 |-> r[i].id]
        BY <3>5, <3>6, Zenon
      <3> QED
        BY <1>7, <2>5, <3>7, Zenon DEF Q
    <2>7. WaitOf(r) = WaitOf(q)
      <3>1. ASSUME NEW i \in c + 1 + 1 .. l PROVE r[i].id \in WaitOf(q)
        <4>1. PICK j \in c + 1 .. l - 1 : i = j + 1 /\ j \in k .. l
          <5>1. i - 1 \in c + 1 .. l - 1 /\ i = (i - 1) + 1 /\ i - 1 \in k .. l
            BY <1>1, <1>2, <2>2
          <5> QED
            BY <5>1
        <4> QED
          BY <1>4, <1>7, <4>1
      <3>2. ASSUME NEW i \in c + 1 .. l - 1 PROVE q[i].id \in WaitOf(r)
        <4>1. i + 1 \in c + 1 + 1 .. l /\ i \in k .. l
          BY <1>1, <1>2, <2>2
        <4> QED
          BY <1>4, <2>5, <4>1
      <3> QED
        BY <1>7, <2>5, <3>1, <3>2
    <2> QED
      BY <1>9, <2>6, <2>7 DEF r, m
  <1>10. CASE m # 0
    <2>1. c < k
      <3>1. S[k] > m
        BY <1>1, <1>3
      <3>2. S[k] # 0
        BY <1>1, <3>1
      <3> QED
        BY <1>2, <1>3, <3>2
    <2>2. ASSUME NEW i \in 1 .. l + 1 PROVE R[i] = 0 <=> i <= c
      <3>1. CASE i < k
        <4>1. i \in 1 .. k - 1 /\ i \in 1 .. l
          BY <1>1, <1>3, <3>1
        <4> QED
          BY <1>2, <1>4, <4>1
      <3>2. CASE i = k
        BY <1>2, <1>3, <1>4, <1>10, <2>1, <3>2
      <3>3. CASE i > k
        <4>1. PICK j \in k .. l : i = j + 1
          <5>1. i - 1 \in k .. l /\ i = (i - 1) + 1
            BY <1>1, <1>3, <3>3
          <5> QED
            BY <5>1
        <4>2. j \in 1 .. l /\ ~(j <= c) /\ ~(i <= c)
          BY <1>1, <1>2, <1>3, <2>1, <4>1
        <4> QED
          BY <1>2, <1>4, <4>1, <4>2
      <3> QED
        BY <1>3, <3>1, <3>2, <3>3
    <2>3. c \in 0 .. l
      BY <1>1, <1>2
    <2>4. /\ DueOf(r) = [i \in 1 .. c |-> r[i].id]
          /\ WaitOf(r) = {r[i].id : i \in c + 1 .. l}
      BY <1>8, <2>2, <2>3
    <2>5. DueOf(r) = DueOf(q)
      <3>1. \A i \in 1 .. c : i \in 1 .. k - 1
        BY <1>2, <1>3, <2>1
      <3>2. \A i \in 1 .. c : r[i].id = q[i].id
        BY <1>4, <3>1
      <3> QED
        BY <1>7, <2>4, <3>2
    <2>6. WaitOf(r) = WaitOf(q) \cup {id}
      <3>1. ASSUME NEW i \in c + 1 .. l PROVE r[i].id \in WaitOf(q) \cup {id}
        <4>1. CASE i < k
          <5>1. i \in 1 .. k - 1 /\ i \in c + 1 .. l - 1
            BY <1>1, <1>2, <1>3, <4>1
          <5> QED
            BY <1>4, <1>7, <5>1
        <4>2. CASE i = k
          BY <1>4, <4>2
        <4>3. CASE i > k
          <5>1. PICK j \in k .. l : i = j + 1 /\ j \in c + 1 .. l - 1
            <6>1. i - 1 \in k .. l /\ i = (i - 1) + 1 /\ i - 1 \in c + 1 .. l - 1
              BY <1>1, <1>2, <1>3, <2>1, <4>3
            <6> QED
              BY <6>1
          <5> QED
            BY <1>4, <1>7, <5>1
        <4> QED
          BY <1>2, <1>3, <4>1, <4>2, <4>3
      <3>2. ASSUME NEW i \in c + 1 .. l - 1 PROVE q[i].id \in WaitOf(r)
        <4>1. CASE i < k
          <5>1. i \in 1 .. k - 1 /\ i \in c + 1 .. l
            BY <1>1, <1>2, <1>3, <4>1
          <5> QED
            BY <1>4, <2>4, <5>1
        <4>2. CASE ~(i < k)
          <5>1. i \in k .. l /\ i + 1 \in c + 1 .. l
            BY <1>1, <1>2, <1>3, <4>2
          <5> QED
            BY <1>4, <2>4, <5>1
        <4> QED
          BY <4>1, <4>2
      <3>3. id \in WaitOf(r)
        <4>1. k \in c + 1 .. l
          BY <1>2, <1>3, <2>1
        <4> QED
          BY <1>4, <2>4, <4>1
      <3> QED
        BY <1>7, <2>4, <3>1, <3>2, <3>3
    <2> QED
      BY <1>10, <2>5, <2>6 DEF r, m
  <1> QED
    BY <1>9, <1>10 DEF r, m

\* RemoveFirst takes the entry out of a list that has it once.
LEMMA FirstGone ==
  ASSUME NEW S, NEW s \in Seq(S), NEW x,
         \A i, j \in 1 .. Len(s) : s[i] = s[j] => i = j
  PROVE  /\ (\A i \in 1 .. Len(s) : s[i] # x) => DQ!Timers!RemoveFirst(s, x) = s
         /\ \A p \in 1 .. Len(s) : s[p] = x =>
               /\ DQ!Timers!RemoveFirst(s, x) \in Seq(S)
               /\ Len(DQ!Timers!RemoveFirst(s, x)) = Len(s) - 1
               /\ \A i \in 1 .. Len(s) - 1 :
                     DQ!Timers!RemoveFirst(s, x)[i] = IF i < p THEN s[i] ELSE s[i + 1]
  <1>1. (\A i \in 1 .. Len(s) : s[i] # x) => DQ!Timers!RemoveFirst(s, x) = s
    BY DEF DQ!Timers!RemoveFirst
  <1>2. ASSUME NEW p \in 1 .. Len(s), s[p] = x
        PROVE  DQ!Timers!RemoveFirst(s, x) = SubSeq(s, 1, p - 1) \o SubSeq(s, p + 1, Len(s))
    <2> DEFINE I == {i \in 1 .. Len(s) : s[i] = x}
    <2>1. DQ!Timers!RemoveFirst(s, x) = DQ!Timers!RemoveAt(s, IF I # {} THEN DQ!Timers!Min(I) ELSE 0)
      BY <1>2 DEF DQ!Timers!RemoveFirst, DQ!Timers!SelectInSeq
    <2>2. I = {p}
      BY <1>2
    <2>3. DQ!Timers!Min({p}) = p
      BY DEF DQ!Timers!Min
    <2>4. DQ!Timers!RemoveFirst(s, x) = DQ!Timers!RemoveAt(s, p)
      <3> HIDE DEF I
      <3> QED
        BY <2>1, <2>2, <2>3
    <2> QED
      BY <2>4 DEF DQ!Timers!RemoveAt
  <1>3. ASSUME NEW p \in 1 .. Len(s), s[p] = x
        PROVE  /\ DQ!Timers!RemoveFirst(s, x) \in Seq(S)
               /\ Len(DQ!Timers!RemoveFirst(s, x)) = Len(s) - 1
               /\ \A i \in 1 .. Len(s) - 1 :
                     DQ!Timers!RemoveFirst(s, x)[i] = IF i < p THEN s[i] ELSE s[i + 1]
    <2> DEFINE t == SubSeq(s, 1, p - 1) \o SubSeq(s, p + 1, Len(s))
    <2>1. DQ!Timers!RemoveFirst(s, x) = t
      BY <1>2, <1>3, Zenon
    <2>2. /\ t \in Seq(S) /\ Len(t) = Len(s) - 1
          /\ \A i \in 1 .. Len(s) - 1 : t[i] = IF i < p THEN s[i] ELSE s[i + 1]
      BY CutAt, Zenon
    <2> HIDE DEF t
    <2> QED
      BY <2>1, <2>2
  <1> QED
    BY <1>1, <1>3

\* An entry that is taken out is gone, and the others stay where they are.
LEMMA ViewWithout ==
  ASSUME MILLION \in Nat \ {0}, NEW q, Ends(q), NEW p \in 1 .. Len(q) - 1
  PROVE  LET r == DQ!Without(q, p)
             x == q[p].id
         IN  /\ DueOf(r) = DQ!Timers!RemoveFirst(DueOf(q), x) /\ WaitOf(r) = WaitOf(q) \ {x}
             /\ p = 1 /\ DQ!Sums(q)[1] = 0 =>
                   /\ DueOf(q) # <<>> /\ Head(DueOf(q)) = x
                   /\ DueOf(r) = Tail(DueOf(q)) /\ WaitOf(r) = WaitOf(q)
  <1> DEFINE r == DQ!Without(q, p)
             x == q[p].id
             S == DQ!Sums(q)
             R == DQ!Sums(r)
             l == Len(q)
             c == CountOf(q)
             D == DueOf(q)
             all == {q[i].id : i \in 1 .. l}
  <1>1. /\ Chain(q) /\ l \in Nat /\ l >= 1 /\ S[l] > 0 /\ p \in 1 .. l /\ p <= l - 1
        /\ \A i, j \in 1 .. l : q[i].id = q[j].id => i = j
    BY DEF Ends, Chain
  <1>2. c \in 0 .. l - 1 /\ \A i \in 1 .. l : S[i] = 0 <=> i <= c
    BY CountRight
  <1>3. /\ Chain(r) /\ Len(r) = l - 1
        /\ \A i \in 1 .. p - 1 : r[i].id = q[i].id /\ R[i] = S[i]
        /\ \A i \in p .. l - 1 : r[i].id = q[i + 1].id /\ R[i] = S[i + 1]
    BY <1>1, WithoutRight
  <1>4. Ends(r)
    <2>1. l - 1 \in p .. l - 1 /\ l - 1 + 1 = l
      BY <1>1
    <2>2. R[l - 1] = S[l]
      BY <1>3, <2>1
    <2> QED
      BY <1>1, <1>3, <2>2 DEF Ends
  <1>5. D = [i \in 1 .. c |-> q[i].id] /\ WaitOf(q) = {q[i].id : i \in c + 1 .. l - 1}
    BY DEF DueOf, WaitOf
  <1>6. ASSUME NEW y \in 0 .. l - 2, \A i \in 1 .. l - 1 : R[i] = 0 <=> i <= y
        PROVE  /\ DueOf(r) = [i \in 1 .. y |-> r[i].id]
               /\ WaitOf(r) = {r[i].id : i \in y + 1 .. l - 2}
    <2>1. Len(r) - 1 = l - 2 /\ y \in 0 .. Len(r) - 1
      BY <1>1, <1>3
    <2>2. CountOf(r) = y
      BY <1>3, <1>4, <1>6, <2>1, CountIs, Zenon
    <2> QED
      BY <2>1, <2>2, Zenon DEF DueOf, WaitOf
  <1>7. \A i \in 1 .. c : i \in 1 .. l
    BY <1>1, <1>2
  <1>8. D \in Seq(all) /\ Len(D) = c /\ \A i \in 1 .. c : D[i] = q[i].id
    BY <1>2, <1>5, <1>7
  <1>9. \A i, j \in 1 .. c : D[i] = D[j] => i = j
    BY <1>1, <1>7, <1>8, Zenon
  <1> HIDE DEF r, x, S, R, l, c, D, all
  <1>10. CASE p <= c
    <2>1. ASSUME NEW i \in 1 .. l - 1 PROVE R[i] = 0 <=> i <= c - 1
      <3>1. CASE i < p
        <4>1. i \in 1 .. p - 1 /\ i \in 1 .. l /\ i <= c /\ i <= c - 1
          BY <1>1, <1>2, <1>10, <3>1
        <4> QED
          BY <1>2, <1>3, <4>1, Zenon
      <3>2. CASE ~(i < p)
        <4>1. i \in p .. l - 1 /\ i + 1 \in 1 .. l /\ (i <= c - 1 <=> i + 1 <= c)
          BY <1>1, <1>2, <3>2
        <4> QED
          BY <1>2, <1>3, <4>1, Zenon
      <3> QED
        BY <3>1, <3>2
    <2>2. c - 1 \in 0 .. l - 2 /\ p \in 1 .. c /\ c - 1 + 1 = c
      BY <1>1, <1>2, <1>10
    <2>3. DueOf(r) = [i \in 1 .. c - 1 |-> r[i].id] /\ WaitOf(r) = {r[i].id : i \in c .. l - 2}
      BY <1>6, <2>1, <2>2, Zenon
    <2>4. ASSUME NEW i \in 1 .. c - 1 PROVE r[i].id = IF i < p THEN D[i] ELSE D[i + 1]
      <3>1. CASE i < p
        <4>1. i \in 1 .. p - 1 /\ i \in 1 .. c
          BY <1>1, <1>2, <3>1
        <4> QED
          BY <1>3, <1>8, <3>1, <4>1, Zenon
      <3>2. CASE ~(i < p)
        <4>1. i \in p .. l - 1 /\ i + 1 \in 1 .. c
          BY <1>1, <1>2, <3>2
        <4> QED
          BY <1>3, <1>8, <3>2, <4>1, Zenon
      <3> QED
        BY <3>1, <3>2
    <2>5. D[p] = x
      BY <1>8, <2>2 DEF x
    <2> DEFINE G == DQ!Timers!RemoveFirst(D, x)
    <2>6. /\ G \in Seq(all) /\ Len(G) = c - 1
          /\ \A i \in 1 .. c - 1 : G[i] = IF i < p THEN D[i] ELSE D[i + 1]
      BY <1>8, <1>9, <2>2, <2>5, FirstGone, SMTT(30)
    <2> HIDE DEF G
    <2>7. G = [i \in 1 .. c - 1 |-> G[i]]
      BY <2>6, SeqIs
    <2>8. DueOf(r) = G
      <3>1. \A i \in 1 .. c - 1 : G[i] = r[i].id
        BY <2>4, <2>6
      <3> QED
        BY <2>3, <2>7, <3>1
    <2>9. WaitOf(r) = WaitOf(q) /\ x \notin WaitOf(q)
      <3>1. ASSUME NEW i \in c .. l - 2 PROVE r[i].id \in WaitOf(q)
        <4>1. i \in p .. l - 1 /\ i + 1 \in c + 1 .. l - 1
          BY <1>1, <1>2, <1>10
        <4> QED
          BY <1>3, <1>5, <4>1
      <3>2. ASSUME NEW i \in c + 1 .. l - 1 PROVE q[i].id \in WaitOf(r) /\ q[i].id # x
        <4>1. PICK j \in c .. l - 2 : i = j + 1 /\ j \in p .. l - 1
          <5>1. i - 1 \in c .. l - 2 /\ i = (i - 1) + 1 /\ i - 1 \in p .. l - 1
            BY <1>1, <1>2, <1>10
          <5> QED
            BY <5>1
        <4>2. q[i].id = r[j].id
          BY <1>3, <4>1
        <4>3. i \in 1 .. l /\ i # p
          BY <1>1, <1>2, <1>10
        <4> QED
          BY <1>1, <2>3, <4>1, <4>2, <4>3 DEF x
      <3> QED
        BY <1>5, <2>3, <3>1, <3>2
    <2>10. WaitOf(r) = WaitOf(q) \ {x}
      BY <2>9
    <2>11. ASSUME p = 1 PROVE D # <<>> /\ Head(D) = x /\ DueOf(r) = Tail(D)
      <3>1. D # <<>> /\ Head(D) = D[1]
        BY <1>8, <2>2
      <3>2. Tail(D) \in Seq(all) /\ Len(Tail(D)) = c - 1 /\ \A i \in 1 .. c - 1 : Tail(D)[i] = D[i + 1]
        <4>1. /\ Tail(D) \in Seq(all) /\ Len(Tail(D)) = Len(D) - 1
              /\ \A i \in 1 .. Len(Tail(D)) : Tail(D)[i] = D[i + 1]
          BY <1>8, <3>1, HeadTailProperties
        <4> QED
          BY <1>8, <4>1
      <3>3. Tail(D) = [i \in 1 .. c - 1 |-> Tail(D)[i]]
        BY <3>2, SeqIs, Zenon
      <3>4. \A i \in 1 .. c - 1 : ~(i < p)
        BY <2>11
      <3>5. \A i \in 1 .. c - 1 : Tail(D)[i] = r[i].id
        BY <2>4, <3>2, <3>4
      <3>6. DueOf(r) = Tail(D)
        BY <2>3, <3>3, <3>5, Zenon
      <3> QED
        BY <2>5, <2>11, <3>1, <3>6
    <2> QED
      BY <2>8, <2>9, <2>10, <2>11 DEF r, x, G, D, S
  <1>11. CASE ~(p <= c)
    <2>1. ASSUME NEW i \in 1 .. l - 1 PROVE R[i] = 0 <=> i <= c
      <3>1. CASE i < p
        <4>1. i \in 1 .. p - 1 /\ i \in 1 .. l
          BY <1>1, <3>1
        <4> QED
          BY <1>2, <1>3, <4>1, Zenon
      <3>2. CASE ~(i < p)
        <4>1. i \in p .. l - 1 /\ i + 1 \in 1 .. l /\ ~(i + 1 <= c) /\ ~(i <= c)
          BY <1>1, <1>2, <1>11, <3>2
        <4> QED
          BY <1>2, <1>3, <4>1, Zenon
      <3> QED
        BY <3>1, <3>2
    <2>2. c \in 0 .. l - 2 /\ \A i \in 1 .. c : i \in 1 .. p - 1 /\ i # p
      BY <1>1, <1>2, <1>11
    <2>3. DueOf(r) = [i \in 1 .. c |-> r[i].id] /\ WaitOf(r) = {r[i].id : i \in c + 1 .. l - 2}
      BY <1>6, <2>1, <2>2
    <2>4. DueOf(r) = D
      <3>1. \A i \in 1 .. c : r[i].id = q[i].id
        BY <1>3, <2>2, Zenon
      <3> QED
        BY <1>5, <2>3, <3>1
    <2>5. \A i \in 1 .. c : D[i] # x
      <3> TAKE i \in 1 .. c
      <3>1. i \in 1 .. l /\ i # p /\ D[i] = q[i].id
        BY <1>7, <1>8, <2>2
      <3> QED
        BY <1>1, <3>1 DEF x
    <2>6. DQ!Timers!RemoveFirst(D, x) = D
      BY <1>8, <1>9, <2>5, FirstGone
    <2>7. WaitOf(r) = WaitOf(q) \ {x}
      <3>1. ASSUME NEW i \in c + 1 .. l - 2 PROVE r[i].id \in WaitOf(q) \ {x}
        <4>1. CASE i < p
          <5>1. i \in 1 .. p - 1 /\ i \in c + 1 .. l - 1 /\ i \in 1 .. l /\ i # p
            BY <1>1, <1>2, <4>1
          <5> QED
            BY <1>1, <1>3, <1>5, <5>1, Zenon DEF x
        <4>2. CASE ~(i < p)
          <5>1. i \in p .. l - 1 /\ i + 1 \in c + 1 .. l - 1 /\ i + 1 \in 1 .. l /\ i + 1 # p
            BY <1>1, <1>2, <4>2
          <5> QED
            BY <1>1, <1>3, <1>5, <5>1, ZenonT(30) DEF x
        <4> QED
          BY <4>1, <4>2
      <3>2. ASSUME NEW i \in c + 1 .. l - 1, q[i].id # x PROVE q[i].id \in WaitOf(r)
        <4>0. i # p /\ p <= l - 1
          BY <1>1, <3>2 DEF x, l
        <4>1. CASE i < p
          <5>1. i \in 1 .. p - 1 /\ i \in c + 1 .. l - 2
            BY <1>1, <1>2, <4>0, <4>1
          <5> QED
            BY <1>3, <2>3, <5>1
        <4>2. CASE ~(i < p)
          <5>1. PICK j \in p .. l - 1 : i = j + 1 /\ j \in c + 1 .. l - 2
            <6>1. i - 1 \in p .. l - 1 /\ i = (i - 1) + 1 /\ i - 1 \in c + 1 .. l - 2
              BY <1>1, <1>2, <1>11, <4>0, <4>2
            <6> QED
              BY <6>1
          <5> QED
            BY <1>3, <2>3, <5>1
        <4> QED
          BY <4>1, <4>2
      <3> QED
        BY <1>5, <2>3, <3>1, <3>2
    <2>8. p = 1 => S[1] # 0
      <3>1. 1 \in 1 .. l
        BY <1>1
      <3> QED
        BY <1>2, <1>11, <3>1
    <2> QED
      BY <2>4, <2>6, <2>7, <2>8 DEF r, x, D, S
  <1> QED
    BY <1>10, <1>11

\* The entries the two views speak of are those of the list.
LEMMA ViewListed ==
  ASSUME MILLION \in Nat \ {0}, NEW q, Ends(q)
  PROVE  WaitOf(q) \cup Range(DueOf(q)) = Listed(q)
  <1> DEFINE l == Len(q)
             c == CountOf(q)
  <1>1. l \in Nat /\ l >= 1 /\ c \in 0 .. l - 1
    BY CountRight DEF Ends, Chain
  <1>2. Range(DueOf(q)) = {q[i].id : i \in 1 .. c} /\ WaitOf(q) = {q[i].id : i \in c + 1 .. l - 1}
    BY DEF Range, DueOf, WaitOf
  <1>3. Listed(q) = {q[i].id : i \in 1 .. l - 1}
    BY DEF Listed
  <1> HIDE DEF l, c
  <1>4. \A i : i \in 1 .. l - 1 <=> i \in 1 .. c \/ i \in c + 1 .. l - 1
    BY <1>1
  <1> QED
    BY <1>2, <1>3, <1>4

\* An order of some elements of a set orders elements of it, and of a larger one.
LEMMA OrdersOf ==
  ASSUME NEW X, NEW Y, X \subseteq Y, NEW late \in SetToAllKPermutations(X)
  PROVE  late \in SetToAllKPermutations(Y) /\ Range(late) \subseteq X
  <1>1. PICK T \in SUBSET X : late \in SetToSeqs(T)
    BY DEF SetToAllKPermutations
  <1>2. late \in SetToAllKPermutations(Y)
    <2>1. T \in SUBSET Y
      OBVIOUS
    <2> QED
      BY <1>1, <2>1 DEF SetToAllKPermutations
  <1>3. late \in [1 .. Cardinality(T) -> T]
    BY <1>1 DEF SetToSeqs
  <1> QED
    BY <1>2, <1>3 DEF Range

\* Where the abstract steps take the views.
LEMMA ViewAdd ==
  ASSUME NEW id \in Tasks, NEW delayed \in BOOLEAN, id # drunning,
         WaitOf(queue) \cup Range(DueOf(queue)) = Listed(queue), id \notin Listed(queue),
         NEW late \in SetToAllKPermutations(WaitOf(queue)),
         delayed => /\ DueOf(queue') = DueOf(queue) \o late
                    /\ WaitOf(queue') = (WaitOf(queue) \ Range(late)) \cup {id},
         ~delayed => /\ DueOf(queue') = Append(DueOf(queue) \o late, id)
                     /\ WaitOf(queue') = WaitOf(queue) \ Range(late),
         drunning' = drunning
  PROVE  DQ!Timers!Add(id, delayed)
  <1>1. DQ!Timers!Expirations = SetToAllKPermutations(WaitOf(queue))
    BY SameView, SameLibrary, Zenon DEF DQ!Timers!Expirations
  <1>2. late \in DQ!Timers!Expirations /\ DQ!Timers!Range(late) = Range(late)
    BY <1>1, SameLibrary
  <1>3. DQ!Timers!Scheduled = Listed(queue)
    BY SameView, SameLibrary, Zenon DEF DQ!Timers!Scheduled
  <1>4. DQ!Timers!AddTo(id, delayed, [i \in 1 .. DQ!DueCount |-> queue[i].id] \o late,
           {queue[i].id : i \in DQ!DueCount + 1 .. Len(queue) - 1} \ DQ!Timers!Range(late))
    BY <1>2, SameView, Zenon DEF DQ!Timers!AddTo
  <1> QED
    BY <1>2, <1>3, <1>4, Zenon DEF DQ!Timers!Add

LEMMA ViewUpdate ==
  ASSUME NEW id \in Tasks, NEW delayed \in BOOLEAN,
         WaitOf(queue) \cup Range(DueOf(queue)) = Listed(queue), id \in Listed(queue),
         NEW late \in SetToAllKPermutations(WaitOf(queue) \ {id}), NEW D,
         D = DQ!Timers!RemoveFirst(DueOf(queue), id) \o late,
         delayed => /\ DueOf(queue') = D
                    /\ WaitOf(queue') = ((WaitOf(queue) \ {id}) \ Range(late)) \cup {id},
         ~delayed => /\ DueOf(queue') = Append(D, id)
                     /\ WaitOf(queue') = (WaitOf(queue) \ {id}) \ Range(late),
         drunning' = drunning
  PROVE  DQ!Timers!Update(id, delayed)
  <1>1. DQ!Timers!Expirations = SetToAllKPermutations(WaitOf(queue))
    BY SameView, SameLibrary, Zenon DEF DQ!Timers!Expirations
  <1>2. late \in SetToAllKPermutations(WaitOf(queue)) /\ id \notin Range(late)
    BY OrdersOf
  <1>3. late \in DQ!Timers!Expirations /\ DQ!Timers!Range(late) = Range(late)
    BY <1>1, <1>2, SameLibrary
  <1>4. DQ!Timers!Scheduled = Listed(queue)
    BY SameView, SameLibrary, Zenon DEF DQ!Timers!Scheduled
  <1>5. (WaitOf(queue) \ {id}) \ Range(late) = WaitOf(queue) \ (Range(late) \cup {id})
    OBVIOUS
  <1>6. DQ!Timers!AddTo(id, delayed,
           DQ!Timers!RemoveFirst([i \in 1 .. DQ!DueCount |-> queue[i].id], id) \o late,
           {queue[i].id : i \in DQ!DueCount + 1 .. Len(queue) - 1} \ (DQ!Timers!Range(late) \cup {id}))
    BY <1>3, <1>5, SameView, Zenon DEF DQ!Timers!AddTo
  <1> QED
    BY <1>2, <1>3, <1>4, <1>6, Zenon DEF DQ!Timers!Update

LEMMA ViewCancel ==
  ASSUME NEW id \in Tasks,
         WaitOf(queue) \cup Range(DueOf(queue)) = Listed(queue), id \in Listed(queue),
         DueOf(queue') = DQ!Timers!RemoveFirst(DueOf(queue), id),
         WaitOf(queue') = WaitOf(queue) \ {id}, drunning' = drunning
  PROVE  DQ!Timers!Cancel(id)
  <1>1. DQ!Timers!Scheduled = Listed(queue)
    BY SameView, SameLibrary, Zenon DEF DQ!Timers!Scheduled
  <1> QED
    BY <1>1, SameView, Zenon DEF DQ!Timers!Cancel

LEMMA ViewStart ==
  ASSUME drunning = NoTask, DueOf(queue) # <<>>, drunning' = Head(DueOf(queue)),
         DueOf(queue') = Tail(DueOf(queue)), WaitOf(queue') = WaitOf(queue)
  PROVE  DQ!Timers!Start
  BY SameView, Zenon DEF DQ!Timers!Start

\* synchronize, as the views see it.
LEMMA SyncView ==
  ASSUME PartsAssumption, DelaysFit, ClockRight, NEW q, NEW A, NEW n \in Nat,
         RightList(q, A, seen, n)
  PROVE  LET r == IF DQ!WentBack THEN q ELSE DQ!Elapse(q, DQ!Elapsed)
         IN  /\ Ends(q) /\ Ends(r) /\ Listed(r) = Listed(q)
             /\ DQ!Sums(r)[Len(r)] >= Far - MaxReal
             /\ \E late \in SetToAllKPermutations(WaitOf(q)) :
                   DueOf(r) = DueOf(q) \o late /\ WaitOf(r) = WaitOf(q) \ Range(late)
  <1> DEFINE e == DQ!Micros(DQ!Elapsed)
             r == IF DQ!WentBack THEN q ELSE DQ!Elapse(q, DQ!Elapsed)
  <1>1. e \in Nat /\ seen + e <= real /\ seen \in Nat /\ real \in Nat /\ real <= MaxReal
    BY ElapsedRight DEF ClockRight
  <1>2. MILLION \in Nat \ {0} /\ Far \in Nat /\ MaxReal < Far /\ MaxReal \in Nat
    BY FarNat
  <1>3. RightList(r, A, seen + e, n) /\ Later(q, r, e) /\ Listed(r) = Listed(q)
    BY SyncLater
  <1> HIDE DEF e, r
  <1>4. seen <= MaxReal /\ seen + e \in Nat /\ seen + e <= MaxReal
    BY <1>1, <1>2
  <1>5. Ends(q) /\ Ends(r)
    BY <1>1, <1>3, <1>4, RightEnds
  <1>6. DQ!Sums(r)[Len(r)] = Far - (seen + e)
    BY <1>3 DEF RightList
  <1>7. Far - (seen + e) >= Far - MaxReal
    BY <1>1, <1>2, <1>4
  <1>8. \E late \in SetToAllKPermutations(WaitOf(q)) :
           DueOf(r) = DueOf(q) \o late /\ WaitOf(r) = WaitOf(q) \ Range(late)
    BY <1>1, <1>2, <1>3, <1>5, ViewLater, Zenon
  <1> QED
    BY <1>3, <1>5, <1>6, <1>7, <1>8 DEF r

\* AddEntry, as the views see it.
LEMMA AddView ==
  ASSUME PartsAssumption, DelaysFit, ClockRight, NEW q, NEW A, NEW n \in Nat,
         RightList(q, A, seen, n), NEW id \in Tasks, id \notin Listed(q), NEW d \in Delays
  PROVE  LET r == DQ!Insert(IF DQ!WentBack THEN q ELSE DQ!Elapse(q, DQ!Elapsed),
                            DQ!Entry(id, DQ!Interval(d)))
         IN  /\ Ends(q)
             /\ \E late \in SetToAllKPermutations(WaitOf(q)) :
                /\ d = 0 => /\ DueOf(r) = Append(DueOf(q) \o late, id)
                            /\ WaitOf(r) = WaitOf(q) \ Range(late)
                /\ d # 0 => /\ DueOf(r) = DueOf(q) \o late
                            /\ WaitOf(r) = (WaitOf(q) \ Range(late)) \cup {id}
  <1> DEFINE s == IF DQ!WentBack THEN q ELSE DQ!Elapse(q, DQ!Elapsed)
             t == DQ!Interval(d)
             r == DQ!Insert(s, DQ!Entry(id, t))
  <1>1. /\ MILLION \in Nat \ {0} /\ Far \in Nat /\ MaxReal \in Nat /\ Sentinel \notin Tasks
        /\ d \in Nat /\ d + MaxReal < Far
    BY FarNat DEF DelaysFit
  <1>2. /\ Ends(q) /\ Ends(s) /\ Listed(s) = Listed(q) /\ DQ!Sums(s)[Len(s)] >= Far - MaxReal
        /\ \E late \in SetToAllKPermutations(WaitOf(q)) :
              DueOf(s) = DueOf(q) \o late /\ WaitOf(s) = WaitOf(q) \ Range(late)
    BY SyncView, Zenon
  <1> HIDE DEF s
  <1>3. t \in Moments /\ DQ!Micros(t) = d
    BY IntervalRight
  <1> HIDE DEF t
  <1>4. \A i \in 1 .. Len(s) : s[i].id # id
    <2>1. Len(s) \in Nat /\ \A i \in 1 .. Len(s) : s[i].id = Sentinel <=> i = Len(s)
      BY <1>2 DEF Ends, Chain
    <2> TAKE i \in 1 .. Len(s)
    <2>2. CASE i = Len(s)
      BY <1>1, <2>1, <2>2
    <2>3. CASE i # Len(s)
      <3>1. i \in 1 .. Len(s) - 1
        BY <2>1, <2>3
      <3> QED
        BY <1>2, <3>1, Zenon DEF Listed
    <2> QED
      BY <2>2, <2>3
  <1>5. DQ!Micros(t) < DQ!Sums(s)[Len(s)]
    <2>1. DQ!Sums(s)[Len(s)] \in Nat
      <3>1. s \in Seq(Links) /\ Len(s) \in Nat
        BY <1>2 DEF Ends, Chain
      <3>2. Len(s) \in 0 .. Len(s)
        BY <3>1
      <3> QED
        BY <1>1, <3>1, <3>2, SumsRight DEF IsSums
    <2> QED
      BY <1>1, <1>2, <1>3, <2>1
  <1>6. /\ d = 0 => DueOf(r) = Append(DueOf(s), id) /\ WaitOf(r) = WaitOf(s)
        /\ d # 0 => DueOf(r) = DueOf(s) /\ WaitOf(r) = WaitOf(s) \cup {id}
    BY <1>1, <1>2, <1>3, <1>4, <1>5, ViewInsert, Zenon
  <1> HIDE DEF r
  <1>7. PICK late \in SetToAllKPermutations(WaitOf(q)) :
           DueOf(s) = DueOf(q) \o late /\ WaitOf(s) = WaitOf(q) \ Range(late)
    BY <1>2, Zenon
  <1>8. /\ d = 0 => /\ DueOf(r) = Append(DueOf(q) \o late, id)
                    /\ WaitOf(r) = WaitOf(q) \ Range(late)
        /\ d # 0 => /\ DueOf(r) = DueOf(q) \o late
                    /\ WaitOf(r) = (WaitOf(q) \ Range(late)) \cup {id}
    BY <1>6, <1>7, Zenon
  <1> QED
    BY <1>2, <1>7, <1>8, Zenon DEF r, s, t

\* The list as the steps find it.
LEMMA ViewFacts ==
  ASSUME PartsAssumption, DelaysFit, QueueInv
  PROVE  /\ Ends(queue) /\ WaitOf(queue) \cup Range(DueOf(queue)) = Listed(queue)
         /\ DQ!Ids = Listed(queue) /\ ClockRight /\ RightList(queue, asked, seen, adds)
         /\ adds \in Nat /\ MILLION \in Nat \ {0}
  <1>1. /\ RightList(queue, asked, seen, adds) /\ seen \in Nat /\ ClockRight /\ MILLION \in Nat \ {0}
        /\ MaxReal \in Nat /\ seen <= real /\ real <= MaxReal /\ real \in Nat
    BY FarNat DEF QueueInv, ClockRight
  <1>2. seen <= MaxReal
    BY <1>1
  <1>3. Ends(queue)
    BY <1>1, <1>2, RightEnds
  <1> QED
    BY <1>1, <1>3, ViewListed, QueueFacts

LEMMA SchedulesAdd ==
  ASSUME PartsAssumption, DelaysFit, QueueInv, NEW id \in Tasks, NEW d \in Delays,
         DQ!ScheduleDelayTask(id, d)
  PROVE  DQ!Timers!Add(id, d # 0)
  <1>1. /\ id \notin Listed(queue) /\ id # drunning /\ drunning' = drunning
        /\ queue' = DQ!Insert(IF DQ!WentBack THEN queue ELSE DQ!Elapse(queue, DQ!Elapsed),
                              DQ!Entry(id, DQ!Interval(d)))
    BY ViewFacts DEF DQ!ScheduleDelayTask, DQ!Synchronized
  <1>2. PICK late \in SetToAllKPermutations(WaitOf(queue)) :
           /\ d = 0 => /\ DueOf(queue') = Append(DueOf(queue) \o late, id)
                       /\ WaitOf(queue') = WaitOf(queue) \ Range(late)
           /\ d # 0 => /\ DueOf(queue') = DueOf(queue) \o late
                       /\ WaitOf(queue') = (WaitOf(queue) \ Range(late)) \cup {id}
    BY <1>1, ViewFacts, AddView
  <1>3. PICK delayed \in BOOLEAN : delayed = (d # 0)
    BY Zenon
  <1>4. DQ!Timers!Add(id, delayed)
    BY <1>1, <1>2, <1>3, ViewFacts, ViewAdd, Zenon
  <1> QED
    BY <1>3, <1>4

LEMMA UpdatesUpdate ==
  ASSUME PartsAssumption, DelaysFit, QueueInv, NEW id \in Tasks, NEW d \in Delays,
         DQ!UpdateEntry(id, d)
  PROVE  DQ!Timers!Update(id, d # 0)
  <1> DEFINE q == DQ!Without(queue, DQ!PosOf(id))
             D == DQ!Timers!RemoveFirst(DueOf(queue), id)
  <1>1. /\ id \in DQ!Ids /\ drunning' = drunning
        /\ queue' = DQ!Insert(IF DQ!WentBack THEN q ELSE DQ!Elapse(q, DQ!Elapsed),
                              DQ!Entry(id, DQ!Interval(d)))
    BY DEF DQ!UpdateEntry
  <1>2. DQ!PosOf(id) \in 1 .. Len(queue) - 1 /\ queue[DQ!PosOf(id)].id = id
    BY <1>1, PosRight
  <1>3. RightList(q, asked, seen, adds) /\ id \notin Listed(q)
    BY <1>2, QueueDrops
  <1>4. DueOf(q) = D /\ WaitOf(q) = WaitOf(queue) \ {id}
    BY <1>2, ViewFacts, ViewWithout
  <1> HIDE DEF q, D
  <1>5. PICK late \in SetToAllKPermutations(WaitOf(q)) :
           /\ d = 0 => /\ DueOf(queue') = Append(DueOf(q) \o late, id)
                       /\ WaitOf(queue') = WaitOf(q) \ Range(late)
           /\ d # 0 => /\ DueOf(queue') = DueOf(q) \o late
                       /\ WaitOf(queue') = (WaitOf(q) \ Range(late)) \cup {id}
    BY <1>1, <1>3, ViewFacts, AddView
  <1>6. PICK delayed \in BOOLEAN : delayed = (d # 0)
    BY Zenon
  <1>7. PICK E : E = D \o late
    BY Zenon
  <1>8. /\ late \in SetToAllKPermutations(WaitOf(queue) \ {id})
        /\ E = DQ!Timers!RemoveFirst(DueOf(queue), id) \o late
        /\ delayed => /\ DueOf(queue') = E
                      /\ WaitOf(queue') = ((WaitOf(queue) \ {id}) \ Range(late)) \cup {id}
        /\ ~delayed => /\ DueOf(queue') = Append(E, id)
                       /\ WaitOf(queue') = (WaitOf(queue) \ {id}) \ Range(late)
    BY <1>4, <1>5, <1>6, <1>7, Zenon DEF D
  <1>9. DQ!Timers!Update(id, delayed)
    BY <1>1, <1>8, ViewFacts, ViewUpdate, Zenon
  <1> QED
    BY <1>6, <1>9

LEMMA RemovesCancel ==
  ASSUME PartsAssumption, DelaysFit, QueueInv, NEW id \in Tasks, DQ!RemoveEntry(id)
  PROVE  DQ!Timers!Cancel(id)
  <1>1. /\ id \in DQ!Ids /\ drunning' = drunning /\ queue' = DQ!Without(queue, DQ!PosOf(id))
    BY DEF DQ!RemoveEntry
  <1>2. DQ!PosOf(id) \in 1 .. Len(queue) - 1 /\ queue[DQ!PosOf(id)].id = id
    BY <1>1, PosRight
  <1>3. /\ DueOf(queue') = DQ!Timers!RemoveFirst(DueOf(queue), id)
        /\ WaitOf(queue') = WaitOf(queue) \ {id}
    BY <1>1, <1>2, ViewFacts, ViewWithout
  <1> QED
    BY <1>1, <1>3, ViewFacts, ViewCancel

LEMMA RunsStart ==
  ASSUME PartsAssumption, DelaysFit, QueueInv, DQ!RunTask
  PROVE  DQ!Timers!Start
  <1>1. /\ dpc = "alarm" /\ DQ!Eq(Head(queue).delta, DQ!Zero)
        /\ drunning' = Head(queue).id /\ queue' = DQ!Without(queue, 1)
    BY DEF DQ!RunTask
  <1>2. DQ!Sums(queue)[1] = 0 /\ 1 \in 1 .. Len(queue) - 1
    BY <1>1, HeadDue
  <1>3. drunning = NoTask
    BY <1>1 DEF QueueInv
  <1>4. Head(queue) = queue[1]
    BY QueueFacts
  <1>5. /\ DueOf(queue) # <<>> /\ Head(DueOf(queue)) = queue[1].id
        /\ DueOf(queue') = Tail(DueOf(queue)) /\ WaitOf(queue') = WaitOf(queue)
    BY <1>1, <1>2, ViewFacts, ViewWithout
  <1> QED
    BY <1>1, <1>3, <1>4, <1>5, ViewStart

\* Steps that leave list and task alone are none for the views.
LEMMA ViewStutters ==
  ASSUME queue' = queue, drunning' = drunning
  PROVE  UNCHANGED DQ!Timers!tqVars
  <1>1. DueOf(queue') = DueOf(queue) /\ WaitOf(queue') = WaitOf(queue)
    OBVIOUS
  <1> QED
    BY <1>1, SameView, Zenon DEF DQ!Timers!tqVars

LEMMA LoopsImplement ==
  ASSUME PartsAssumption, DelaysFit, QueueInv,
         DQ!TimeToNextAlarm \/ DQ!HandleAlarm \/ DQ!TaskReturns \/ DQ!AlarmDone
  PROVE  DQ!Timers!Synchronize \/ DQ!Timers!Return \/ UNCHANGED DQ!Timers!tqVars
  <1>1. CASE DQ!TimeToNextAlarm \/ DQ!HandleAlarm
    <2>1. /\ drunning' = drunning /\ (queue' = DQ!Synchronized \/ queue' = queue)
      BY <1>1 DEF DQ!TimeToNextAlarm, DQ!HandleAlarm
    <2>2. CASE queue' = DQ!Synchronized
      <3>1. queue' = IF DQ!WentBack THEN queue ELSE DQ!Elapse(queue, DQ!Elapsed)
        BY <2>2 DEF DQ!Synchronized
      <3>2. PICK late \in SetToAllKPermutations(WaitOf(queue)) :
              DueOf(queue') = DueOf(queue) \o late /\ WaitOf(queue') = WaitOf(queue) \ Range(late)
        BY <3>1, ViewFacts, SyncView
      <3> QED
        BY <2>1, <3>2, ViewSynchronize
    <2> QED
      BY <2>1, <2>2, ViewStutters
  <1>2. CASE DQ!TaskReturns
    <2>1. dpc = "task" /\ drunning' = NoTask /\ queue' = queue
      BY <1>2 DEF DQ!TaskReturns
    <2>2. drunning # NoTask
      BY <2>1 DEF QueueInv
    <2>3. DueOf(queue') = DueOf(queue) /\ WaitOf(queue') = WaitOf(queue)
      BY <2>1
    <2> QED
      BY <2>1, <2>2, <2>3, SameView, Zenon DEF DQ!Timers!Return
  <1>3. CASE DQ!AlarmDone
    BY <1>3, ViewStutters DEF DQ!AlarmDone
  <1> QED
    BY <1>1, <1>2, <1>3

LEMMA NextImplements ==
  ASSUME PartsAssumption, DelaysFit, QueueInv, [DQ!Next]_(DQ!dqVars)
  PROVE  [DQ!Timers!Next]_(DQ!Timers!tqVars)
  <1>1. ASSUME NEW id \in Tasks, NEW d \in Delays, DQ!ScheduleDelayTask(id, d)
        PROVE  DQ!Timers!Next
    <2>1. (d # 0) \in BOOLEAN
      OBVIOUS
    <2> QED
      BY <1>1, <2>1, SchedulesAdd, Zenon DEF DQ!Timers!Next
  <1>2. ASSUME NEW id \in Tasks, NEW d \in Delays, DQ!UpdateEntry(id, d)
        PROVE  DQ!Timers!Next
    <2>1. (d # 0) \in BOOLEAN
      OBVIOUS
    <2> QED
      BY <1>2, <2>1, UpdatesUpdate, Zenon DEF DQ!Timers!Next
  <1>3. ASSUME NEW id \in Tasks, DQ!RemoveEntry(id) PROVE DQ!Timers!Next
    BY <1>3, RemovesCancel DEF DQ!Timers!Next
  <1>4. CASE DQ!RunTask
    BY <1>4, RunsStart DEF DQ!Timers!Next
  <1>5. CASE DQ!TimeToNextAlarm \/ DQ!HandleAlarm \/ DQ!TaskReturns \/ DQ!AlarmDone
    BY <1>5, LoopsImplement DEF DQ!Timers!Next
  <1>6. CASE DQ!Tick \/ \E k \in Backsteps : DQ!SetBack(k)
    BY <1>6, ViewStutters DEF DQ!Tick, DQ!SetBack
  <1>7. CASE UNCHANGED DQ!dqVars
    BY <1>7, ViewStutters DEF DQ!dqVars
  <1> QED
    BY <1>1, <1>2, <1>3, <1>4, <1>5, <1>6, <1>7 DEF DQ!Next, DQ!Operation, DQ!Loop

LEMMA InitImplements ==
  ASSUME PartsAssumption, DelaysFit, DQ!Init
  PROVE  DQ!Timers!Init
  <1>1. QueueInv
    BY QueueInitInv
  <1>2. Ends(queue) /\ MILLION \in Nat \ {0}
    BY <1>1, ViewFacts
  <1>3. Len(queue) = 1 /\ drunning = NoTask
    BY DEF DQ!Init
  <1>4. CountOf(queue) = 0
    <2>1. CountOf(queue) \in 0 .. Len(queue) - 1
      BY <1>2, CountRight
    <2> QED
      BY <1>3, <2>1
  <1>5. WaitOf(queue) = {}
    <2>1. \A i : i \notin CountOf(queue) + 1 .. Len(queue) - 1
      BY <1>3, <1>4
    <2> QED
      BY <2>1, Zenon DEF WaitOf
  <1>6. DueOf(queue) = <<>>
    <2>1. DueOf(queue) = [i \in 1 .. 0 |-> queue[i].id]
      BY <1>4 DEF DueOf
    <2>2. \A i \in 1 .. 0 : queue[i].id \in {}
      OBVIOUS
    <2>3. DueOf(queue) \in Seq({}) /\ Len(DueOf(queue)) = 0
      BY <2>1, <2>2
    <2> QED
      BY <2>3, EmptySeq
  <1> QED
    BY <1>3, <1>5, <1>6, SameView, Zenon DEF DQ!Timers!Init

\* DelayQueue implements TimerQueue: the list of differences is, to the event loop, a
\* set of waiting entries and a queue of due ones.  Every addition, change, removal,
\* alarm and look at the clock is a step of that queue or leaves it as it is.
THEOREM QueueImplements == DQ!Spec => DQ!TimersSpec
  <1>0. PartsAssumption /\ DelaysFit
    BY PartsAssumption
  <1>1. DQ!Init => QueueInv /\ DQ!Timers!Init
    BY <1>0, QueueInitInv, InitImplements
  <1>2. QueueInv /\ [DQ!Next]_(DQ!dqVars) => QueueInv'
    BY <1>0, QueueNextInv
  <1>3. QueueInv /\ [DQ!Next]_(DQ!dqVars) => [DQ!Timers!Next]_(DQ!Timers!tqVars)
    BY <1>0, NextImplements
  <1> QED
    BY <1>1, <1>2, <1>3, PTL DEF DQ!Spec, DQ!TimersSpec, DQ!Timers!Spec

\* The refinement the run checks, for any tasks, delays and clocks.
THEOREM TimersAlways == LoopSpec => TimersSpec
  <1>0. PartsAssumption /\ DelaysFit
    BY PartsAssumption
  <1>1. LoopInit => DQ!Timers!Init
    BY <1>0, InitImplements DEF LoopInit
  <1>2. [LoopNext]_<<part, vars, delayVars, handlerVars, timeVars>> => [DQ!Next]_(DQ!dqVars)
    BY DEF LoopNext, delayVars, DQ!dqVars
  <1>3. QueueInv /\ [DQ!Next]_(DQ!dqVars) => [DQ!Timers!Next]_(DQ!Timers!tqVars)
    BY <1>0, NextImplements
  <1> QED
    BY <1>1, <1>2, <1>3, QueueAlways, PTL DEF LoopSpec, TimersSpec, DQ!TimersSpec, DQ!Timers!Spec
=============================================================================
