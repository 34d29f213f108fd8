------------------------- MODULE MCEventLoop_proofs -------------------------
(***************************************************************************)
(* What MCEventLoop checks of the event loop and of its set of socket      *)
(* handlers on a small instance, for any sockets, tasks and triggers.      *)
(***************************************************************************)
EXTENDS MCEventLoop, FiniteSetTheorems, SequenceTheorems, WellFoundedInduction, TLAPS

-----------------------------------------------------------------------------
(* Sets of numbers and sequences *)

\* A set of natural numbers that is not empty has a least element.
LEMMA Least ==
  ASSUME NEW S, S \subseteq Nat, S # {}
  PROVE  \E m \in S : \A k \in S : m <= k
  <1> DEFINE R == OpToRel(<, Nat)
  <1>1. IsWellFoundedOn(R, Nat)
    BY NatLessThanWellFounded, Zenon
  <1>2. \A x, y \in Nat : <<y, x>> \in R <=> y < x
    BY DEF OpToRel
  <1> HIDE DEF R
  <1>3. \E x \in S : \A y \in S : ~ (<<y, x>> \in R)
    BY <1>1, WFMin, Zenon
  <1>4. PICK m \in S : \A y \in S : ~ (<<y, m>> \in R)
    BY <1>3
  <1>5. ASSUME NEW k \in S PROVE m <= k
    <2>1. ~(k < m)
      BY <1>2, <1>4, Zenon
    <2> QED
      BY <2>1
  <1> QED
    BY <1>5

\* RemoveAt takes one element out and moves those behind it.
LEMMA CutAt ==
  ASSUME NEW S, NEW s \in Seq(S), NEW p \in 1 .. Len(s)
  PROVE  LET t == SubSeq(s, 1, p - 1) \o SubSeq(s, p + 1, Len(s))
         IN  /\ t \in Seq(S) /\ Len(t) = Len(s) - 1
             /\ \A i \in 1 .. Len(s) - 1 : t[i] = IF i < p THEN s[i] ELSE s[i + 1]
  <1> DEFINE front == SubSeq(s, 1, p - 1)
             rest  == SubSeq(s, p + 1, Len(s))
  <1>1. /\ front \in Seq(S) /\ Len(front) = p - 1
        /\ \A i \in 1 .. p - 1 : front[i] = s[i]
    <2>1. \A i \in 1 .. p - 1 : s[i] \in S
      OBVIOUS
    <2>2. /\ front \in Seq(S) /\ Len(front) = IF 1 <= p - 1 THEN p - 1 - 1 + 1 ELSE 0
          /\ \A i \in 1 .. p - 1 - 1 + 1 : front[i] = s[1 + i - 1]
      BY <2>1, SubSeqProperties
    <2> QED
      BY <2>2
  <1>2. /\ rest \in Seq(S) /\ Len(rest) = Len(s) - p
        /\ \A i \in 1 .. Len(s) - p : rest[i] = s[p + i]
    <2>1. /\ \A i \in p + 1 .. Len(s) : s[i] \in S
          /\ p + 1 \in Int /\ Len(s) \in Int
      OBVIOUS
    <2>2. /\ rest \in Seq(S) /\ Len(rest) = IF p + 1 <= Len(s) THEN Len(s) - (p + 1) + 1 ELSE 0
          /\ \A i \in 1 .. Len(s) - (p + 1) + 1 : rest[i] = s[p + 1 + i - 1]
      BY <2>1, SubSeqProperties
    <2> QED
      BY <2>2
  <1> HIDE DEF front, rest
  <1>3. /\ front \o rest \in Seq(S) /\ Len(front \o rest) = Len(front) + Len(rest)
        /\ \A i \in 1 .. Len(front) + Len(rest) :
              (front \o rest)[i] = IF i <= Len(front) THEN front[i] ELSE rest[i - Len(front)]
    BY <1>1, <1>2, ConcatProperties, Zenon
  <1>4. ASSUME NEW i \in 1 .. Len(s) - 1
        PROVE  (front \o rest)[i] = IF i < p THEN s[i] ELSE s[i + 1]
    <2>1. CASE i < p
      BY <1>1, <1>2, <1>3, <2>1
    <2>2. CASE ~(i < p)
      <3>1. PICK k \in 1 .. Len(s) - p : k = i - (p - 1)
        BY <2>2
      <3>2. (front \o rest)[i] = rest[k] /\ p + k = i + 1
        BY <1>1, <1>2, <1>3, <2>2, <3>1
      <3>3. rest[k] = s[p + k]
        BY <1>2, <3>1, Zenon
      <3> QED
        BY <2>2, <3>2, <3>3
    <2> QED
      BY <2>1, <2>2, Zenon
  <1>5. Len(front) + Len(rest) = Len(s) - 1
    BY <1>1, <1>2
  <1>6. front \o rest = SubSeq(s, 1, p - 1) \o SubSeq(s, p + 1, Len(s))
    BY DEF front, rest
  <1> QED
    BY <1>3, <1>4, <1>5, <1>6, Zenon

-----------------------------------------------------------------------------
(* HandlerSet *)

\* What a descriptor's handler waits for has happened.
HandlerReady(d) == \E e \in hdesc[d].flags : <<hdesc[d].handle, e>> \in hready

\* The list has addresses of descriptors, each once.
ListRight == /\ Set!TypeOK /\ hlist \in Seq(SetAddresses)
             /\ hcalls \in [SetAddresses -> {0, 1}]

\* While a walk goes on: the next descriptor is in the list, behind the one whose
\* handler runs; from there on none was called, and before it none that is ready
\* and was left alone was not.
WalkRight ==
    hhpc # "idle" =>
        /\ hnext \in Set!Listed \cup {End}
        /\ hhpc = "calling" => hcurrent \in SetAddresses
        /\ hhpc = "calling" => hcurrent # hnext
        /\ \A i, j \in 1 .. Len(hlist) : hlist[j] = hnext =>
              /\ hhpc = "calling" /\ hlist[i] = hcurrent => i < j
              /\ j <= i => hcalls[hlist[i]] = 0
        /\ \A i \in 1 .. Len(hlist) :
              hlist[i] \in hwatched /\ HandlerReady(hlist[i]) /\ hcalls[hlist[i]] # 1 =>
                  \E j \in 1 .. i : hlist[j] = hnext

\* The inductive invariant of the set.
SetInv == ListRight /\ WalkRight

\* PlaceOf finds a descriptor of the handle, if there is one.
LEMMA SetPlace ==
  ASSUME NEW h, hlist \in Seq(SetAddresses)
  PROVE  /\ Set!PlaceOf(h) \in 0 .. Len(hlist)
         /\ Set!PlaceOf(h) # 0 => hdesc[hlist[Set!PlaceOf(h)]].handle = h
  <1> DEFINE I == {i \in 1 .. Len(hlist) : hdesc[hlist[i]].handle = h}
  <1>1. Set!PlaceOf(h) = IF I # {} THEN Set!Min(I) ELSE 0
    BY DEF Set!PlaceOf, Set!SelectInSeq
  <1>2. I # {} => Set!Min(I) \in I
    <2> SUFFICES ASSUME I # {} PROVE Set!Min(I) \in I
      OBVIOUS
    <2>0. I \subseteq Nat
      OBVIOUS
    <2> HIDE DEF I
    <2>1. \E m \in I : \A k \in I : m <= k
      BY <2>0, Least, Zenon
    <2> QED
      BY <2>1 DEF Set!Min
  <1> QED
    BY <1>1, <1>2

\* Range and IsInjective of a sequence.
LEMMA SetRange ==
  ASSUME NEW S, NEW s \in Seq(S)
  PROVE  /\ Set!Range(s) = {s[i] : i \in 1 .. Len(s)}
         /\ Set!IsInjective(s) <=> \A i, j \in 1 .. Len(s) : s[i] = s[j] => i = j
  BY DEF Set!Range, Set!IsInjective

\* The addresses in the list.
LEMMA SetListed ==
  ASSUME hlist \in Seq(SetAddresses)
  PROVE  Set!Listed = {hlist[i] : i \in 1 .. Len(hlist)}
  <1>1. Set!Listed = Set!Range(hlist)
    BY DEF Set!Listed
  <1> QED
    BY <1>1, SetRange

\* The empty set of handlers.
LEMMA SetInitInv ==
  ASSUME Set!HandleAssumption, Set!Init
  PROVE  SetInv
  <1>1. hlist = <<>> /\ hlist \in Seq(SetAddresses) /\ Len(hlist) = 0
    BY DEF Set!Init
  <1>2. Set!Listed = {} /\ Set!IsInjective(hlist)
    <2>1. DOMAIN hlist = {}
      BY <1>1
    <2> QED
      BY <2>1 DEF Set!Listed, Set!Range, Set!IsInjective
  <1> QED
    BY <1>1, <1>2 DEF Set!Init, SetInv, ListRight, WalkRight, Set!TypeOK, Set!NoDesc, Set!Sockets

\* What lookupHandler returns is in the list.
LEMMA SetLookup ==
  ASSUME Set!HandleAssumption, SetInv, NEW h, Set!lookupHandler(h) # End
  PROVE  \E p \in 1 .. Len(hlist) :
            /\ p = Set!PlaceOf(h) /\ Set!lookupHandler(h) = hlist[p]
            /\ hdesc[hlist[p]].handle = h
            /\ hlist[p] \in SetAddresses /\ hlist[p] \in Set!Listed
  <1>1. hlist \in Seq(SetAddresses)
    BY DEF SetInv, ListRight
  <1>2. /\ Set!PlaceOf(h) \in 1 .. Len(hlist) /\ Set!lookupHandler(h) = hlist[Set!PlaceOf(h)]
        /\ hdesc[hlist[Set!PlaceOf(h)]].handle = h
    BY <1>1, SetPlace DEF Set!lookupHandler
  <1> QED
    BY <1>1, <1>2, SetRange DEF Set!Listed

\* New flags of a descriptor that is there, or a new handle for it.
LEMMA SetAlters ==
  ASSUME Set!HandleAssumption, SetInv, NEW d \in Set!Listed,
         hdesc' \in [SetAddresses -> [handle : Set!Sockets \cup {-1}, flags : SUBSET Events]],
         \A e \in SetAddresses : e # d => hdesc'[e] = hdesc[e],
         hdesc'[d] # Set!NoDesc,
         hwatched' = hwatched \ {d},
         UNCHANGED <<hlist, hready, hnext, hhpc, hcurrent, hcalls>>
  PROVE  SetInv'
  <1>1. Set!Listed' = Set!Listed
    BY DEF Set!Listed
  <1>2. ListRight'
    BY <1>1 DEF SetInv, ListRight, Set!TypeOK
  <1>3. \A i \in 1 .. Len(hlist) : hlist[i] \in SetAddresses
    BY DEF SetInv, ListRight
  <1>4. \A i \in 1 .. Len(hlist) : hlist[i] \in hwatched' =>
           /\ hlist[i] \in hwatched
           /\ HandlerReady(hlist[i])' <=> HandlerReady(hlist[i])
    BY <1>3, Zenon DEF HandlerReady
  <1>5. WalkRight'
    BY <1>1, <1>4 DEF SetInv, WalkRight
  <1> QED
    BY <1>2, <1>5 DEF SetInv

\* ChangeHandler keeps it.
LEMMA SetChanges ==
  ASSUME Set!HandleAssumption, SetInv, NEW h, NEW g \in Set!Sockets, Set!ChangeHandler(h, g)
  PROVE  SetInv'
  <1>1. PICK p \in 1 .. Len(hlist) : Set!lookupHandler(h) = hlist[p]
                                     /\ hlist[p] \in SetAddresses /\ hlist[p] \in Set!Listed
    BY SetLookup DEF Set!ChangeHandler
  <1> DEFINE d == hlist[p]
  <1>2. /\ hdesc' = [hdesc EXCEPT ![d].handle = g] /\ hwatched' = hwatched \ {d}
        /\ UNCHANGED <<hlist, hready, hnext, hhpc, hcurrent, hcalls>>
    BY <1>1 DEF Set!ChangeHandler
  <1>3. hdesc \in [SetAddresses -> [handle : Set!Sockets \cup {-1}, flags : SUBSET Events]]
    BY DEF SetInv, ListRight, Set!TypeOK
  <1>4. /\ hdesc' \in [SetAddresses -> [handle : Set!Sockets \cup {-1}, flags : SUBSET Events]]
        /\ \A e \in SetAddresses : e # d => hdesc'[e] = hdesc[e]
        /\ hdesc'[d].handle = g
    BY <1>1, <1>2, <1>3
  <1>5. hdesc'[d] # Set!NoDesc
    BY <1>4 DEF Set!NoDesc, Set!Sockets
  <1> QED
    BY <1>1, <1>2, <1>4, <1>5, SetAlters

\* AssignHandler keeps it: a new descriptor is before the one the walk goes to.
LEMMA SetAssigns ==
  ASSUME Set!HandleAssumption, SetInv, NEW h \in SetHandles, NEW f \in SUBSET Events,
         Set!AssignHandler(h, f)
  PROVE  SetInv'
  <1>0. /\ hdesc \in [SetAddresses -> [handle : Set!Sockets \cup {-1}, flags : SUBSET Events]]
        /\ hlist \in Seq(SetAddresses)
    BY DEF SetInv, ListRight, Set!TypeOK
  <1>1. CASE Set!lookupHandler(h) # End
    <2>1. PICK p \in 1 .. Len(hlist) : Set!lookupHandler(h) = hlist[p]
                                       /\ hlist[p] \in SetAddresses /\ hlist[p] \in Set!Listed
      BY <1>1, SetLookup
    <2> DEFINE d == hlist[p]
    <2>2. /\ hdesc' = [hdesc EXCEPT ![d].flags = f] /\ hwatched' = hwatched \ {d}
          /\ UNCHANGED <<hlist, hready, hnext, hhpc, hcurrent, hcalls>>
      BY <1>1, <2>1 DEF Set!AssignHandler
    <2>3. /\ hdesc' \in [SetAddresses -> [handle : Set!Sockets \cup {-1}, flags : SUBSET Events]]
          /\ \A e \in SetAddresses : e # d => hdesc'[e] = hdesc[e]
          /\ hdesc'[d].handle = hdesc[d].handle /\ hdesc[d] # Set!NoDesc
      BY <1>0, <2>1, <2>2, Zenon DEF SetInv, ListRight, Set!TypeOK
    <2>4. hdesc'[d] # Set!NoDesc
      <3>1. h > 0 /\ hdesc[d].handle = h
        BY <1>1, <2>1, SetLookup DEF Set!AssignHandler
      <3> QED
        BY <2>3, <3>1 DEF Set!NoDesc
    <2> QED
      BY <2>1, <2>2, <2>3, <2>4, SetAlters
  <1>2. CASE Set!lookupHandler(h) = End
    <2>1. PICK d \in SetAddresses \ Set!Listed :
             /\ hlist' = <<d>> \o hlist
             /\ hdesc' = [hdesc EXCEPT ![d] = [handle |-> h, flags |-> f]]
      BY <1>2, Zenon DEF Set!AssignHandler
    <2>2. h > 0 /\ UNCHANGED <<hready, hnext, hhpc, hcurrent, hcalls, hwatched>>
      BY <1>2 DEF Set!AssignHandler
    <2>3. /\ hlist' \in Seq(SetAddresses) /\ Len(hlist') = Len(hlist) + 1
          /\ hlist'[1] = d /\ \A i \in 1 .. Len(hlist) : hlist'[i + 1] = hlist[i]
          /\ \A i \in 2 .. Len(hlist) + 1 : hlist'[i] = hlist[i - 1]
      BY <1>0, <2>1
    <2>4. /\ \A i \in 1 .. Len(hlist) : hlist[i] \in SetAddresses /\ hlist[i] # d
          /\ Set!Listed = {hlist[i] : i \in 1 .. Len(hlist)}
          /\ Set!Listed' = {hlist'[i] : i \in 1 .. Len(hlist')}
          /\ \A i, j \in 1 .. Len(hlist) : hlist[i] = hlist[j] => i = j
      <3>1. Set!Listed = {hlist[i] : i \in 1 .. Len(hlist)}
        BY <1>0, SetListed, Zenon
      <3>2. Set!Listed' = {hlist'[i] : i \in 1 .. Len(hlist')}
        <4>1. Set!Listed' = Set!Range(hlist')
          BY DEF Set!Listed
        <4>2. hlist' \in Seq(SetAddresses)
          BY <2>3
        <4> QED
          BY <4>1, <4>2, SetRange
      <3>3. Set!IsInjective(hlist)
        BY DEF SetInv, ListRight, Set!TypeOK
      <3>4. \A i, j \in 1 .. Len(hlist) : hlist[i] = hlist[j] => i = j
        BY <1>0, <3>3, SetRange, Zenon
      <3>5. \A i \in 1 .. Len(hlist) : hlist[i] \in SetAddresses /\ hlist[i] # d
        BY <1>0, <2>1, <3>1
      <3> QED
        BY <3>1, <3>2, <3>4, <3>5
    <2>5. Set!Listed' = Set!Listed \cup {d}
      <3>1. ASSUME NEW i \in 1 .. Len(hlist') PROVE hlist'[i] \in Set!Listed \cup {d}
        <4>1. i = 1 \/ (i - 1 \in 1 .. Len(hlist) /\ hlist'[i] = hlist[i - 1])
          BY <1>0, <2>3
        <4> QED
          BY <2>3, <2>4, <4>1
      <3>2. ASSUME NEW i \in 1 .. Len(hlist) PROVE hlist[i] \in Set!Listed'
        <4>1. i + 1 \in 1 .. Len(hlist') /\ hlist'[i + 1] = hlist[i]
          BY <1>0, <2>3
        <4> QED
          BY <2>4, <4>1
      <3>3. d \in Set!Listed'
        BY <1>0, <2>3, <2>4
      <3> QED
        BY <2>4, <3>1, <3>2, <3>3
    <2>6. /\ hdesc' \in [SetAddresses -> [handle : Set!Sockets \cup {-1}, flags : SUBSET Events]]
          /\ \A e \in SetAddresses : e # d => hdesc'[e] = hdesc[e]
          /\ hdesc'[d].handle = h
      BY <1>0, <2>1, <2>2 DEF Set!Sockets
    <2>7. hdesc'[d] # Set!NoDesc
      BY <2>2, <2>6 DEF Set!NoDesc
    <2>8. Set!IsInjective(hlist')
      <3>1. ASSUME NEW i \in 1 .. Len(hlist'), NEW j \in 1 .. Len(hlist'), hlist'[i] = hlist'[j]
            PROVE  i = j
        <4>1. i = 1 \/ (i - 1 \in 1 .. Len(hlist) /\ hlist'[i] = hlist[i - 1])
          BY <1>0, <2>3
        <4>2. j = 1 \/ (j - 1 \in 1 .. Len(hlist) /\ hlist'[j] = hlist[j - 1])
          BY <1>0, <2>3
        <4>3. i # 1 /\ j # 1 => i - 1 = j - 1
          BY <2>4, <3>1, <4>1, <4>2
        <4>4. i = 1 <=> j = 1
          BY <2>3, <2>4, <3>1, <4>1, <4>2
        <4> QED
          BY <1>0, <2>3, <4>3, <4>4
      <3> QED
        BY <2>3, <3>1, SetRange, Zenon
    <2>9. ListRight'
      BY <2>1, <2>2, <2>3, <2>5, <2>6, <2>7, <2>8 DEF SetInv, ListRight, Set!TypeOK
    <2>10. d \notin hwatched /\ d # End
      BY <2>1 DEF SetInv, ListRight, Set!TypeOK, Set!HandleAssumption
    <2> DEFINE ReadyAfter(e) == \E ev \in hdesc'[e].flags : <<hdesc'[e].handle, ev>> \in hready'
    <2>11. ASSUME hhpc # "idle" PROVE WalkRight'
      <3>1. d # hnext
        BY <2>1, <2>10, <2>11 DEF SetInv, WalkRight
      <3>2. ASSUME NEW i \in 1 .. Len(hlist'), NEW j \in 1 .. Len(hlist'), hlist'[j] = hnext
            PROVE  /\ hhpc = "calling" /\ hlist'[i] = hcurrent => i < j
                   /\ j <= i => hcalls[hlist'[i]] = 0
        <4>1. j \in 2 .. Len(hlist) + 1 /\ hlist[j - 1] = hnext
          BY <1>0, <2>3, <3>1, <3>2
        <4>2. CASE i = 1
          BY <1>0, <4>1, <4>2
        <4>3. CASE i # 1
          <5>1. i \in 2 .. Len(hlist) + 1 /\ hlist'[i] = hlist[i - 1]
            BY <1>0, <2>3, <4>3
          <5>2. PICK k \in 1 .. Len(hlist), l \in 1 .. Len(hlist) : k = i - 1 /\ l = j - 1
            BY <1>0, <4>1, <5>1
          <5>3. /\ hhpc = "calling" /\ hlist[k] = hcurrent => k < l
                /\ l <= k => hcalls[hlist[k]] = 0
            BY <2>11, <4>1, <5>2, Zenon DEF SetInv, WalkRight
          <5> QED
            BY <5>1, <5>2, <5>3
        <4> QED
          BY <4>2, <4>3
      <3>3. ASSUME NEW i \in 1 .. Len(hlist'), hlist'[i] \in hwatched,
                   ReadyAfter(hlist'[i]), hcalls[hlist'[i]] # 1
            PROVE  \E j \in 1 .. i : hlist'[j] = hnext
        <4>1. i \in 2 .. Len(hlist) + 1 /\ hlist'[i] = hlist[i - 1]
          BY <1>0, <2>3, <2>10, <3>3
        <4>2. PICK k \in 1 .. Len(hlist) : k = i - 1
          BY <1>0, <4>1
        <4>3. HandlerReady(hlist[k])
          <5>1. hlist[k] \in SetAddresses /\ hdesc'[hlist[k]] = hdesc[hlist[k]]
            BY <2>4, <2>6, <4>2
          <5>2. ReadyAfter(hlist[k])
            BY <2>2, <3>3, <4>1, <4>2, <5>1, Zenon DEF HandlerReady
          <5> QED
            BY <2>2, <5>1, <5>2 DEF HandlerReady
        <4>4. PICK j \in 1 .. k : hlist[j] = hnext
          BY <2>11, <3>3, <4>1, <4>2, <4>3 DEF SetInv, WalkRight
        <4>5. hlist'[j + 1] = hnext /\ j + 1 \in 1 .. i
          BY <1>0, <2>3, <4>2, <4>4
        <4> QED
          BY <4>5
      <3>4. hnext \in Set!Listed' \cup {End}
        BY <2>5, <2>11 DEF SetInv, WalkRight
      <3>5. hhpc = "calling" => hcurrent \in SetAddresses /\ hcurrent # hnext
        BY <2>11 DEF SetInv, WalkRight
      <3> QED
        BY <2>2, <2>3, <3>2, <3>3, <3>4, <3>5, Zenon DEF WalkRight, HandlerReady
    <2> QED
      BY <2>2, <2>9, <2>11 DEF SetInv, WalkRight
  <1> QED
    BY <1>1, <1>2

\* RemoveHandler keeps it, if a handler removes no socket but its own: the next
\* descriptor stays, and the ones behind it stay behind it.
LEMMA SetRemoves ==
  ASSUME Set!HandleAssumption, ~RemoveOthers, SetInv, NEW h,
         Set!MayRemove(h), Set!RemoveHandler(h)
  PROVE  SetInv'
  <1>0. /\ hdesc \in [SetAddresses -> [handle : Set!Sockets \cup {-1}, flags : SUBSET Events]]
        /\ hlist \in Seq(SetAddresses)
    BY DEF SetInv, ListRight, Set!TypeOK
  <1>1. PICK p \in 1 .. Len(hlist) : /\ p = Set!PlaceOf(h) /\ Set!lookupHandler(h) = hlist[p]
                                     /\ hlist[p] \in SetAddresses
    BY SetLookup DEF Set!RemoveHandler
  <1> DEFINE d == hlist[p]
             Old(i) == IF i < p THEN i ELSE i + 1
  <1>2. /\ hlist' = SubSeq(hlist, 1, p - 1) \o SubSeq(hlist, p + 1, Len(hlist))
        /\ hdesc' = [hdesc EXCEPT ![d] = Set!NoDesc] /\ hwatched' = hwatched \ {d}
        /\ UNCHANGED <<hready, hnext, hhpc, hcurrent, hcalls>>
    BY <1>1 DEF Set!RemoveHandler, Set!RemoveAt
  <1>3. /\ hlist' \in Seq(SetAddresses) /\ Len(hlist') = Len(hlist) - 1
        /\ \A i \in 1 .. Len(hlist') : hlist'[i] = IF i < p THEN hlist[i] ELSE hlist[i + 1]
    BY <1>0, <1>2, CutAt, Zenon
  <1>4. \A i \in 1 .. Len(hlist') : Old(i) \in 1 .. Len(hlist) /\ hlist'[i] = hlist[Old(i)]
    BY <1>0, <1>3
  <1>5. \A i, j \in 1 .. Len(hlist') : Old(i) # p /\ (Old(i) < Old(j) <=> i < j)
    BY <1>0, <1>3
  <1>6. \A i \in 1 .. Len(hlist) : i # p => \E j \in 1 .. Len(hlist') : Old(j) = i
    <2> SUFFICES ASSUME NEW i \in 1 .. Len(hlist), i # p
                 PROVE  \E j \in 1 .. Len(hlist') : Old(j) = i
      OBVIOUS
    <2>1. CASE i < p
      <3>1. i \in 1 .. Len(hlist') /\ Old(i) = i
        BY <1>0, <1>3, <2>1
      <3> QED
        BY <3>1
    <2>2. CASE ~(i < p)
      <3>1. i - 1 \in 1 .. Len(hlist') /\ Old(i - 1) = i
        BY <1>0, <1>3, <2>2
      <3> QED
        BY <3>1
    <2> QED
      BY <2>1, <2>2
  <1> HIDE DEF Old
  <1>7. \A i, j \in 1 .. Len(hlist) : hlist[i] = hlist[j] => i = j
    <2>1. Set!IsInjective(hlist)
      BY DEF SetInv, ListRight, Set!TypeOK
    <2> QED
      BY <1>0, <2>1, SetRange, Zenon
  <1>8. \A i \in 1 .. Len(hlist') : hlist'[i] # d
    BY <1>4, <1>5, <1>7
  <1>9. Set!Listed' = Set!Listed \ {d}
    <2>1. Set!Listed = {hlist[i] : i \in 1 .. Len(hlist)}
      BY <1>0, SetListed
    <2>2. Set!Listed' = {hlist'[i] : i \in 1 .. Len(hlist')}
      <3>1. Set!Listed' = Set!Range(hlist') /\ hlist' \in Seq(SetAddresses)
        BY <1>3 DEF Set!Listed
      <3> QED
        BY <3>1, SetRange
    <2>3. ASSUME NEW i \in 1 .. Len(hlist') PROVE hlist'[i] \in Set!Listed \ {d}
      BY <1>4, <1>8, <2>1
    <2>4. ASSUME NEW i \in 1 .. Len(hlist), hlist[i] # d PROVE hlist[i] \in Set!Listed'
      <3>1. PICK j \in 1 .. Len(hlist') : Old(j) = i
        BY <1>6, <2>4
      <3> QED
        BY <1>4, <2>2, <3>1
    <2> QED
      BY <2>1, <2>2, <2>3, <2>4
  <1>10. ListRight'
    <2>1. \A i, j \in 1 .. Len(hlist') : hlist'[i] = hlist'[j] => i = j
      <3> SUFFICES ASSUME NEW i \in 1 .. Len(hlist'), NEW j \in 1 .. Len(hlist'),
                          hlist'[i] = hlist'[j]
                   PROVE  i = j
        OBVIOUS
      <3>1. Old(i) = Old(j) /\ Old(i) \in 1 .. Len(hlist)
        BY <1>4, <1>7
      <3>2. ~(i < j) /\ ~(j < i)
        BY <1>5, <3>1
      <3> QED
        BY <1>3, <3>2
    <2>2. Set!IsInjective(hlist')
      BY <1>3, <2>1, SetRange
    <2>3. hdesc' \in [SetAddresses -> [handle : Set!Sockets \cup {-1}, flags : SUBSET Events]]
      BY <1>0, <1>1, <1>2 DEF Set!NoDesc
    <2>4. \A e \in Set!Listed' : hdesc'[e] # Set!NoDesc
      BY <1>0, <1>2, <1>9 DEF SetInv, ListRight, Set!TypeOK
    <2> QED
      BY <1>2, <1>3, <1>9, <2>2, <2>3, <2>4, Zenon DEF SetInv, ListRight, Set!TypeOK
  <1>11. ASSUME hhpc # "idle" PROVE WalkRight'
    <2>1. hhpc = "calling" /\ d = hcurrent
      BY <1>1, <1>11 DEF Set!MayRemove
    <2>2. d # hnext /\ hnext \in Set!Listed' \cup {End} /\ hcurrent \in SetAddresses
      BY <1>9, <1>11, <2>1 DEF SetInv, WalkRight
    <2>3. ASSUME NEW i \in 1 .. Len(hlist'), NEW j \in 1 .. Len(hlist'), hlist'[j] = hnext
          PROVE  /\ hlist'[i] # hcurrent
                 /\ j <= i => hcalls[hlist'[i]] = 0
      <3>1. /\ Old(i) \in 1 .. Len(hlist) /\ Old(j) \in 1 .. Len(hlist)
            /\ hlist'[i] = hlist[Old(i)] /\ hlist[Old(j)] = hnext
        BY <1>4, <2>3
      <3>2. Old(j) <= Old(i) => hcalls[hlist[Old(i)]] = 0
        BY <1>11, <3>1 DEF SetInv, WalkRight
      <3>3. j <= i => Old(j) <= Old(i)
        BY <1>5, <3>1
      <3> QED
        BY <1>8, <2>1, <3>1, <3>2, <3>3
    <2> DEFINE ReadyAfter(e) == \E ev \in hdesc'[e].flags : <<hdesc'[e].handle, ev>> \in hready'
    <2>4. ASSUME NEW i \in 1 .. Len(hlist'), hlist'[i] \in hwatched',
                 ReadyAfter(hlist'[i]), hcalls[hlist'[i]] # 1
          PROVE  \E j \in 1 .. i : hlist'[j] = hnext
      <3>1. /\ Old(i) \in 1 .. Len(hlist) /\ hlist'[i] = hlist[Old(i)]
            /\ hlist[Old(i)] \in SetAddresses /\ hlist[Old(i)] # d
        BY <1>0, <1>4, <1>8
      <3>2. hdesc'[hlist[Old(i)]] = hdesc[hlist[Old(i)]]
        BY <1>0, <1>2, <3>1
      <3>3. HandlerReady(hlist[Old(i)]) /\ hlist[Old(i)] \in hwatched
        <4>1. PICK e \in SetAddresses : e = hlist[Old(i)]
          BY <3>1
        <4>2. ReadyAfter(e) /\ hdesc'[e] = hdesc[e] /\ hready' = hready
          BY <1>2, <2>4, <3>1, <3>2, <4>1, Zenon
        <4>3. HandlerReady(e)
          BY <4>2 DEF HandlerReady
        <4> QED
          BY <1>2, <2>4, <3>1, <4>1, <4>3, Zenon
      <3>4. PICK k \in 1 .. Old(i) : hlist[k] = hnext
        BY <1>11, <2>4, <3>1, <3>3 DEF SetInv, WalkRight
      <3>5. k \in 1 .. Len(hlist) /\ k # p
        BY <1>0, <2>2, <3>1, <3>4
      <3>6. PICK j \in 1 .. Len(hlist') : Old(j) = k
        BY <1>6, <3>5
      <3>7. hlist'[j] = hnext /\ ~(i < j)
        BY <1>4, <1>5, <3>1, <3>4, <3>6
      <3> QED
        BY <3>7
    <2> QED
      BY <1>2, <2>1, <2>2, <2>3, <2>4, Zenon DEF WalkRight, HandlerReady
  <1> QED
    BY <1>2, <1>10, <1>11, Zenon DEF SetInv, WalkRight

\* CallHandlers starts at the first descriptor, with none called.
LEMMA SetStarts ==
  ASSUME Set!HandleAssumption, SetInv, NEW r, Set!CallHandlers(r)
  PROVE  SetInv'
  <1>1. /\ hnext' = Set!FirstOf(hlist) /\ hhpc' = "walking" /\ hcurrent' = End
        /\ hwatched' = Set!Listed /\ hcalls' = [d \in SetAddresses |-> 0]
        /\ UNCHANGED <<hlist, hdesc>> /\ Set!Listed' = Set!Listed
    BY DEF Set!CallHandlers, Set!Listed
  <1>2. hlist \in Seq(SetAddresses) /\ Set!Listed = {hlist[i] : i \in 1 .. Len(hlist)}
    <2>1. hlist \in Seq(SetAddresses)
      BY DEF SetInv, ListRight
    <2>2. Set!Listed = {hlist[i] : i \in 1 .. Len(hlist)}
      BY <2>1, SetListed
    <2> QED
      BY <2>1, <2>2
  <1>3. CASE hlist = <<>>
    <2>1. hnext' = End /\ Len(hlist) = 0
      BY <1>1, <1>3 DEF Set!FirstOf
    <2>2. ListRight'
      BY <1>1, <2>1 DEF SetInv, ListRight, Set!TypeOK
    <2>3. WalkRight'
      BY <1>1, <2>1 DEF WalkRight
    <2> QED
      BY <2>2, <2>3 DEF SetInv
  <1>4. CASE hlist # <<>>
    <2>1. hnext' = hlist[1] /\ 1 \in 1 .. Len(hlist) /\ hlist[1] \in SetAddresses
      BY <1>1, <1>2, <1>4 DEF Set!FirstOf
    <2>2. hnext' \in Set!Listed
      BY <1>2, <2>1
    <2>3. ListRight'
      BY <1>1, <2>1 DEF SetInv, ListRight, Set!TypeOK
    <2>4. \A i \in 1 .. Len(hlist) : hcalls'[hlist[i]] = 0 /\ 1 \in 1 .. i
      BY <1>1, <1>2
    <2>5. WalkRight'
      BY <1>1, <2>1, <2>2, <2>4 DEF WalkRight
    <2> QED
      BY <2>3, <2>5 DEF SetInv
  <1> QED
    BY <1>3, <1>4

\* The place of the next descriptor, and the one after it.
LEMMA SetAfter ==
  ASSUME SetInv, hnext \in Set!Listed
  PROVE  \E p \in 1 .. Len(hlist) :
            /\ hlist[p] = hnext
            /\ \A i \in 1 .. Len(hlist) : hlist[i] = hnext => i = p
            /\ p = Len(hlist) => Set!After(hnext) = End
            /\ p # Len(hlist) => p + 1 \in 1 .. Len(hlist) /\ Set!After(hnext) = hlist[p + 1]
  <1>1. hlist \in Seq(SetAddresses) /\ Set!IsInjective(hlist)
    BY DEF SetInv, ListRight, Set!TypeOK
  <1>2. PICK p \in 1 .. Len(hlist) : hlist[p] = hnext
    BY <1>1, SetRange DEF Set!Listed
  <1>3. \A i, j \in 1 .. Len(hlist) : hlist[i] = hlist[j] => i = j
    BY <1>1, SetRange, Zenon
  <1>4. p = CHOOSE i \in 1 .. Len(hlist) : hlist[i] = hnext
    BY <1>2, <1>3
  <1>5. Set!After(hnext) = IF p = Len(hlist) THEN End ELSE hlist[p + 1]
    BY <1>4 DEF Set!After
  <1>6. p # Len(hlist) => p + 1 \in 1 .. Len(hlist)
    BY <1>1
  <1> QED
    BY <1>2, <1>3, <1>5, <1>6

\* WalkNext passes one descriptor, and calls its handler if it is ready.
LEMMA SetWalks ==
  ASSUME Set!HandleAssumption, SetInv, Set!WalkNext
  PROVE  SetInv'
  <1>1. /\ hhpc = "walking" /\ hnext \in Set!Listed /\ hcurrent' = hnext
        /\ hnext' = Set!After(hnext) /\ Set!Listed' = Set!Listed
        /\ UNCHANGED <<hlist, hdesc, hready, hwatched>>
    BY DEF Set!WalkNext, Set!Listed
  <1>2. PICK p \in 1 .. Len(hlist) :
            /\ hlist[p] = hnext
            /\ \A i \in 1 .. Len(hlist) : hlist[i] = hnext => i = p
            /\ p = Len(hlist) => hnext' = End
            /\ p # Len(hlist) => p + 1 \in 1 .. Len(hlist) /\ hnext' = hlist[p + 1]
    BY <1>1, SetAfter
  <1>3. /\ hlist \in Seq(SetAddresses) /\ hcalls \in [SetAddresses -> {0, 1}]
        /\ hdesc \in [SetAddresses -> [handle : Set!Sockets \cup {-1}, flags : SUBSET Events]]
        /\ \A i, j \in 1 .. Len(hlist) : hlist[i] = hlist[j] => i = j
        /\ Set!Listed = {hlist[i] : i \in 1 .. Len(hlist)}
    <2>1. /\ hlist \in Seq(SetAddresses) /\ hcalls \in [SetAddresses -> {0, 1}]
          /\ hdesc \in [SetAddresses -> [handle : Set!Sockets \cup {-1}, flags : SUBSET Events]]
          /\ Set!IsInjective(hlist)
      BY DEF SetInv, ListRight, Set!TypeOK
    <2>2. \A i, j \in 1 .. Len(hlist) : hlist[i] = hlist[j] => i = j
      BY <2>1, SetRange, Zenon
    <2>3. Set!Listed = {hlist[i] : i \in 1 .. Len(hlist)}
      BY <2>1, SetListed
    <2> QED
      BY <2>1, <2>2, <2>3
  <1>4. /\ \A i \in 1 .. Len(hlist) : hlist[i] \in SetAddresses
        /\ hcalls[hnext] = 0
        /\ \A i \in 1 .. Len(hlist) : p <= i => hcalls[hlist[i]] = 0
        /\ \A i \in 1 .. Len(hlist) :
              hlist[i] \in hwatched /\ HandlerReady(hlist[i]) /\ hcalls[hlist[i]] # 1 => p <= i
    <2>1. \A i \in 1 .. Len(hlist) : hlist[i] \in SetAddresses
      BY <1>3
    <2>2. \A i \in 1 .. Len(hlist) : p <= i => hcalls[hlist[i]] = 0
      BY <1>1, <1>2 DEF SetInv, WalkRight
    <2>3. ASSUME NEW i \in 1 .. Len(hlist), hlist[i] \in hwatched, HandlerReady(hlist[i]),
                 hcalls[hlist[i]] # 1
          PROVE  p <= i
      <3>1. PICK j \in 1 .. i : hlist[j] = hnext
        BY <1>1, <2>3 DEF SetInv, WalkRight
      <3>2. j \in 1 .. Len(hlist)
        BY <1>3, <3>1
      <3> QED
        BY <1>2, <3>1, <3>2
    <2> QED
      BY <1>2, <2>1, <2>2, <2>3
  <1>5. /\ hhpc' \in {"walking", "calling"} /\ hcalls' \in [SetAddresses -> {0, 1}]
        /\ \A d \in SetAddresses : d # hnext => hcalls'[d] = hcalls[d]
        /\ HandlerReady(hnext) => hcalls'[hnext] = 1
    <2>1. HandlerReady(hnext) => Set!ResultEvents(hnext) \cap hdesc[hnext].flags # {}
      <3>1. hnext \in SetAddresses
        BY <1>2, <1>4
      <3>2. hdesc[hnext].flags \subseteq Events
        BY <1>3, <3>1
      <3> QED
        BY <3>2 DEF HandlerReady, Set!ResultEvents
    <2>2. CASE Set!ResultEvents(hnext) \cap hdesc[hnext].flags # {}
      <3>1. hhpc' = "calling" /\ hcalls' = [hcalls EXCEPT ![hnext] = @ + 1]
        BY <2>2 DEF Set!WalkNext
      <3> QED
        BY <1>2, <1>3, <1>4, <3>1
    <2>3. CASE Set!ResultEvents(hnext) \cap hdesc[hnext].flags = {}
      <3>1. UNCHANGED <<hhpc, hcalls>>
        BY <2>3 DEF Set!WalkNext
      <3> QED
        BY <1>1, <1>3, <2>1, <2>3, <3>1
    <2> QED
      BY <2>2, <2>3
  <1>6. hnext' \in Set!Listed \cup {End} /\ hnext' \in SetAddresses \cup {End} /\ hnext' # hnext
    BY <1>2, <1>3, <1>4 DEF Set!HandleAssumption
  <1>7. ListRight'
    BY <1>1, <1>5, <1>6 DEF SetInv, ListRight, Set!TypeOK
  <1>8. ASSUME NEW i \in 1 .. Len(hlist), NEW j \in 1 .. Len(hlist), hlist[j] = hnext'
        PROVE  /\ hlist[i] = hnext => i < j
               /\ j <= i => hcalls'[hlist[i]] = 0
    <2>1. j = p + 1
      BY <1>2, <1>3, <1>4, <1>8 DEF Set!HandleAssumption
    <2>2. hlist[i] = hnext => i = p
      BY <1>2
    <2> QED
      BY <1>2, <1>3, <1>4, <1>5, <2>1, <2>2
  <1>9. ASSUME NEW i \in 1 .. Len(hlist), hlist[i] \in hwatched, HandlerReady(hlist[i]),
               hcalls'[hlist[i]] # 1
        PROVE  \E j \in 1 .. i : hlist[j] = hnext'
    <2>1. hlist[i] # hnext
      BY <1>5, <1>9
    <2>2. p <= i /\ i # p
      BY <1>2, <1>4, <1>5, <1>9, <2>1
    <2>3. p + 1 \in 1 .. i /\ p # Len(hlist)
      BY <1>3, <2>2
    <2> QED
      BY <1>2, <2>3
  <1>10. WalkRight'
    <2>1. hhpc' = "calling" => hcurrent' \in SetAddresses /\ hcurrent' # hnext'
      BY <1>1, <1>2, <1>4, <1>6
    <2> QED
      BY <1>1, <1>6, <1>8, <1>9, <2>1, Zenon DEF WalkRight, HandlerReady
  <1> QED
    BY <1>7, <1>10 DEF SetInv

\* Every step of the walk and of those who change the set keeps SetInv.
LEMMA SetNextInv ==
  ASSUME Set!HandleAssumption, ~RemoveOthers, SetInv, [Set!Next]_handlerVars
  PROVE  SetInv'
  <1>1. CASE UNCHANGED handlerVars
    <2>1. Set!Listed' = Set!Listed
      BY <1>1 DEF handlerVars, Set!Listed
    <2> QED
      BY <1>1, <2>1, Zenon DEF handlerVars, SetInv, ListRight, WalkRight, HandlerReady, Set!TypeOK
  <1>2. ASSUME NEW r \in SUBSET Set!Selected, Set!CallHandlers(r) PROVE SetInv'
    BY <1>2, SetStarts
  <1>3. CASE Set!WalkNext
    BY <1>3, SetWalks
  <1>4. CASE Set!HandlerReturns
    <2>1. /\ hhpc = "calling" /\ hhpc' = "walking" /\ Set!Listed' = Set!Listed
          /\ UNCHANGED <<hlist, hdesc, hready, hnext, hcurrent, hwatched, hcalls>>
      BY <1>4 DEF Set!HandlerReturns, Set!Listed
    <2> QED
      BY <2>1 DEF SetInv, ListRight, WalkRight, HandlerReady, Set!TypeOK
  <1>5. CASE Set!WalkEnds
    <2>1. /\ hhpc' = "idle" /\ Set!Listed' = Set!Listed
          /\ hcurrent' = End /\ hwatched' = {} /\ hcalls' = [d \in SetAddresses |-> 0]
          /\ UNCHANGED <<hlist, hdesc, hnext>>
      BY <1>5 DEF Set!WalkEnds, Set!Listed
    <2> QED
      BY <2>1 DEF SetInv, ListRight, WalkRight, Set!TypeOK
  <1>6. ASSUME NEW h \in SetHandles, NEW f \in SUBSET Events, Set!AssignHandler(h, f)
        PROVE  SetInv'
    BY <1>6, SetAssigns
  <1>7. ASSUME NEW h \in SetHandles, Set!MayRemove(h), Set!RemoveHandler(h)
        PROVE  SetInv'
    BY <1>7, SetRemoves
  <1>8. ASSUME NEW h \in Set!Sockets, NEW g \in Set!Sockets, Set!ChangeHandler(h, g)
        PROVE  SetInv'
    BY <1>8, SetChanges
  <1> QED
    BY <1>1, <1>2, <1>3, <1>4, <1>5, <1>6, <1>7, <1>8 DEF Set!Next, Set!Walk, Set!Change

\* What the run checks follows from it.
LEMMA SetInvWalkExact ==
  ASSUME SetInv
  PROVE  WalkExact
  <1>1. Set!TypeOK
    BY DEF SetInv, ListRight
  <1>2. Set!IteratorLive
    BY DEF SetInv, WalkRight, Set!IteratorLive
  <1>3. Set!CalledOnce
    BY DEF SetInv, ListRight, Set!CalledOnce
  <1>4. ASSUME hhpc = "walking", hnext = End, NEW d \in hwatched, HandlerReady(d)
        PROVE  hcalls[d] = 1
    <2>1. hlist \in Seq(SetAddresses) /\ hwatched \subseteq Set!Listed
      BY DEF SetInv, ListRight, Set!TypeOK
    <2>2. PICK i \in 1 .. Len(hlist) : hlist[i] = d
      BY <2>1, SetRange DEF Set!Listed
    <2>3. \A j \in 1 .. Len(hlist) : hlist[j] # End
      <3>1. End \notin SetAddresses
        BY PartsAssumption DEF Set!HandleAssumption
      <3> QED
        BY <2>1, <3>1
    <2>4. \A j \in 1 .. i : j \in 1 .. Len(hlist)
      BY <2>1, <2>2
    <2>5. ~ \E j \in 1 .. i : hlist[j] = hnext
      BY <1>4, <2>3, <2>4
    <2> QED
      BY <1>4, <2>2, <2>5, Zenon DEF SetInv, WalkRight
  <1>5. Set!NoneSkipped
    BY <1>4 DEF Set!NoneSkipped, HandlerReady
  <1> QED
    BY <1>1, <1>2, <1>3, <1>5 DEF WalkExact

\* Of any sockets, events and addresses, the walk never goes to a deleted
\* descriptor, calls no registration twice and skips none, as long as handlers
\* remove no sockets but their own.
THEOREM WalkRightAlone ==
  ASSUME ~RemoveOthers
  PROVE  Set!Spec => []WalkExact
  <1>0. Set!HandleAssumption
    BY PartsAssumption
  <1>1. Set!Init => SetInv
    BY <1>0, SetInitInv
  <1>2. SetInv /\ [Set!Next]_(Set!hsVars) => SetInv'
    BY <1>0, SetNextInv DEF Set!hsVars, handlerVars
  <1>3. SetInv => WalkExact
    BY SetInvWalkExact
  <1> QED
    BY <1>1, <1>2, <1>3, PTL DEF Set!Spec

\* The same of the whole run.
THEOREM WalkAlways ==
  ASSUME ~RemoveOthers
  PROVE  LoopSpec => []WalkExact
  <1>0. Set!HandleAssumption
    BY PartsAssumption
  <1>1. LoopInit => SetInv
    BY <1>0, SetInitInv DEF LoopInit
  <1>2. SetInv /\ [LoopNext]_<<part, vars, delayVars, handlerVars, timeVars>> => SetInv'
    <2> SUFFICES ASSUME SetInv, [LoopNext]_<<part, vars, delayVars, handlerVars, timeVars>>
                 PROVE  SetInv'
      OBVIOUS
    <2>1. [Set!Next]_handlerVars
      BY DEF LoopNext
    <2> QED
      BY <1>0, <2>1, SetNextInv
  <1>3. SetInv => WalkExact
    BY SetInvWalkExact
  <1> QED
    BY <1>1, <1>2, <1>3, PTL DEF LoopSpec

-----------------------------------------------------------------------------
(* Scheduler *)

\* The set of handlers keeps its type in the loop.
LoopList == HS!TypeOK /\ list \in Seq(Addresses)

\* Range and IsInjective of a sequence.
LEMMA LoopRange ==
  ASSUME NEW S, NEW s \in Seq(S)
  PROVE  /\ HS!Range(s) = {s[i] : i \in 1 .. Len(s)}
         /\ HS!IsInjective(s) <=> \A i, j \in 1 .. Len(s) : s[i] = s[j] => i = j
  BY DEF HS!Range, HS!IsInjective

\* What lookupHandler returns is in the list.
LEMMA LoopLookup ==
  ASSUME LoopList, NEW h, HS!lookupHandler(h) # End
  PROVE  \E p \in 1 .. Len(list) :
            /\ p = HS!PlaceOf(h) /\ HS!lookupHandler(h) = list[p]
            /\ desc[list[p]].handle = h
            /\ list[p] \in Addresses /\ list[p] \in HS!Listed
  <1>1. list \in Seq(Addresses)
    BY DEF LoopList
  <1> DEFINE I == {i \in 1 .. Len(list) : desc[list[i]].handle = h}
  <1>2. HS!PlaceOf(h) = IF I # {} THEN HS!Min(I) ELSE 0
    BY DEF HS!PlaceOf, HS!SelectInSeq
  <1>3. I # {} => HS!Min(I) \in I
    <2> SUFFICES ASSUME I # {} PROVE HS!Min(I) \in I
      OBVIOUS
    <2>0. I \subseteq Nat
      OBVIOUS
    <2> HIDE DEF I
    <2>1. \E m \in I : \A k \in I : m <= k
      BY <2>0, Least, Zenon
    <2> QED
      BY <2>1 DEF HS!Min
  <1>4. /\ HS!PlaceOf(h) \in 1 .. Len(list) /\ HS!lookupHandler(h) = list[HS!PlaceOf(h)]
        /\ desc[list[HS!PlaceOf(h)]].handle = h
    BY <1>1, <1>2, <1>3, Zenon DEF HS!lookupHandler
  <1> QED
    BY <1>1, <1>4, LoopRange DEF HS!Listed

\* AssignHandler keeps the list right.
LEMMA LoopAssigns ==
  ASSUME HS!HandleAssumption, LoopList, NEW h \in Handles, NEW f \in SUBSET Events,
         HS!AssignHandler(h, f)
  PROVE  LoopList'
  <1>0. /\ desc \in [Addresses -> [handle : HS!Sockets \cup {-1}, flags : SUBSET Events]]
        /\ list \in Seq(Addresses) /\ h > 0
        /\ UNCHANGED <<m_next_ptr, hpc, current>>
    BY DEF LoopList, HS!TypeOK, HS!AssignHandler
  <1>1. CASE HS!lookupHandler(h) # End
    <2>1. PICK p \in 1 .. Len(list) : /\ HS!lookupHandler(h) = list[p]
                                      /\ desc[list[p]].handle = h
                                      /\ list[p] \in Addresses /\ list[p] \in HS!Listed
      BY <1>1, LoopLookup
    <2> DEFINE d == list[p]
    <2>2. /\ desc' = [desc EXCEPT ![d].flags = f] /\ watched' = watched \ {d}
          /\ UNCHANGED list /\ HS!Listed' = HS!Listed
      BY <1>1, <2>1 DEF HS!AssignHandler, HS!Listed
    <2>3. /\ desc' \in [Addresses -> [handle : HS!Sockets \cup {-1}, flags : SUBSET Events]]
          /\ \A e \in Addresses : e # d => desc'[e] = desc[e]
          /\ desc'[d].handle = h
      BY <1>0, <2>1, <2>2
    <2>4. desc'[d] # HS!NoDesc
      BY <1>0, <2>3 DEF HS!NoDesc
    <2> QED
      BY <1>0, <2>2, <2>3, <2>4 DEF LoopList, HS!TypeOK
  <1>2. CASE HS!lookupHandler(h) = End
    <2>1. PICK d \in Addresses \ HS!Listed :
             /\ list' = <<d>> \o list
             /\ desc' = [desc EXCEPT ![d] = [handle |-> h, flags |-> f]]
      BY <1>2, Zenon DEF HS!AssignHandler
    <2>2. UNCHANGED watched
      BY <1>2 DEF HS!AssignHandler
    <2>3. /\ list' \in Seq(Addresses) /\ Len(list') = Len(list) + 1
          /\ list'[1] = d
          /\ \A i \in 1 .. Len(list') :
                i = 1 \/ (i - 1 \in 1 .. Len(list) /\ list'[i] = list[i - 1])
          /\ \A i \in 1 .. Len(list) : i + 1 \in 1 .. Len(list') /\ list'[i + 1] = list[i]
      BY <1>0, <2>1
    <2>4. /\ HS!Listed = {list[i] : i \in 1 .. Len(list)}
          /\ HS!Listed' = {list'[i] : i \in 1 .. Len(list')}
      <3>1. HS!Listed = HS!Range(list) /\ HS!Listed' = HS!Range(list')
        BY DEF HS!Listed
      <3>2. HS!Range(list) = {list[i] : i \in 1 .. Len(list)}
        BY <1>0, LoopRange
      <3>3. HS!Range(list') = {list'[i] : i \in 1 .. Len(list')}
        BY <2>3, LoopRange
      <3> QED
        BY <3>1, <3>2, <3>3
    <2>5. HS!Listed' = HS!Listed \cup {d}
      <3>1. \A i \in 1 .. Len(list') : list'[i] \in HS!Listed \cup {d}
        BY <2>3, <2>4
      <3>2. \A i \in 1 .. Len(list) : list[i] \in HS!Listed'
        BY <2>3, <2>4
      <3>3. d \in HS!Listed'
        <4>1. 1 \in 1 .. Len(list')
          BY <1>0, <2>3
        <4> QED
          BY <2>3, <2>4, <4>1
      <3> QED
        BY <2>4, <3>1, <3>2, <3>3
    <2>6. HS!IsInjective(list')
      <3>1. \A i, j \in 1 .. Len(list) : list[i] = list[j] => i = j
        <4>1. HS!IsInjective(list)
          BY DEF LoopList, HS!TypeOK
        <4> QED
          BY <1>0, <4>1, LoopRange, Zenon
      <3>2. \A i \in 1 .. Len(list) : list[i] # d
        BY <2>1, <2>4
      <3>3. ASSUME NEW i \in 1 .. Len(list'), NEW j \in 1 .. Len(list'), list'[i] = list'[j]
            PROVE  i = j
        <4>1. CASE i = 1 \/ j = 1
          BY <2>3, <3>2, <3>3, <4>1
        <4>2. CASE i # 1 /\ j # 1
          <5>1. PICK k \in 1 .. Len(list), l \in 1 .. Len(list) :
                   k = i - 1 /\ l = j - 1 /\ list[k] = list[l]
            BY <2>3, <3>3, <4>2
          <5>2. k = l
            BY <3>1, <5>1
          <5> QED
            BY <5>1, <5>2
        <4> QED
          BY <4>1, <4>2
      <3> QED
        BY <2>3, <3>3, LoopRange
    <2>7. /\ desc' \in [Addresses -> [handle : HS!Sockets \cup {-1}, flags : SUBSET Events]]
          /\ \A e \in Addresses : e # d => desc'[e] = desc[e]
          /\ desc'[d].handle = h
      BY <1>0, <2>1 DEF HS!Sockets
    <2>8. desc'[d] # HS!NoDesc
      BY <1>0, <2>7 DEF HS!NoDesc
    <2> QED
      BY <1>0, <2>1, <2>2, <2>3, <2>5, <2>6, <2>7, <2>8 DEF LoopList, HS!TypeOK
  <1> QED
    BY <1>1, <1>2

\* RemoveHandler keeps the list right.
LEMMA LoopRemoves ==
  ASSUME LoopList, NEW h, HS!RemoveHandler(h)
  PROVE  LoopList'
  <1>0. /\ desc \in [Addresses -> [handle : HS!Sockets \cup {-1}, flags : SUBSET Events]]
        /\ list \in Seq(Addresses)
    BY DEF LoopList, HS!TypeOK
  <1>1. PICK p \in 1 .. Len(list) : /\ p = HS!PlaceOf(h) /\ HS!lookupHandler(h) = list[p]
                                    /\ list[p] \in Addresses
    BY LoopLookup DEF HS!RemoveHandler
  <1> DEFINE d == list[p]
             Old(i) == IF i < p THEN i ELSE i + 1
  <1>2. /\ list' = SubSeq(list, 1, p - 1) \o SubSeq(list, p + 1, Len(list))
        /\ desc' = [desc EXCEPT ![d] = HS!NoDesc] /\ watched' = watched \ {d}
        /\ UNCHANGED <<m_next_ptr, hpc, current>>
    BY <1>1 DEF HS!RemoveHandler, HS!RemoveAt
  <1>3. /\ list' \in Seq(Addresses) /\ Len(list') = Len(list) - 1
        /\ \A i \in 1 .. Len(list') : list'[i] = IF i < p THEN list[i] ELSE list[i + 1]
    BY <1>0, <1>2, CutAt, Zenon
  <1>4. /\ \A i \in 1 .. Len(list') : /\ Old(i) \in 1 .. Len(list) /\ Old(i) # p
                                      /\ list'[i] = list[Old(i)]
        /\ \A i, j \in 1 .. Len(list') : Old(i) = Old(j) => i = j
    BY <1>0, <1>3
  <1>5. \A i \in 1 .. Len(list) : i # p => \E j \in 1 .. Len(list') : Old(j) = i
    <2> SUFFICES ASSUME NEW i \in 1 .. Len(list), i # p
                 PROVE  \E j \in 1 .. Len(list') : Old(j) = i
      OBVIOUS
    <2>1. CASE i < p
      <3>1. i \in 1 .. Len(list') /\ Old(i) = i
        BY <1>0, <1>3, <2>1
      <3> QED
        BY <3>1
    <2>2. CASE ~(i < p)
      <3>1. i - 1 \in 1 .. Len(list') /\ Old(i - 1) = i
        BY <1>0, <1>3, <2>2
      <3> QED
        BY <3>1
    <2> QED
      BY <2>1, <2>2
  <1> HIDE DEF Old
  <1>6. \A i, j \in 1 .. Len(list) : list[i] = list[j] => i = j
    <2>1. HS!IsInjective(list)
      BY DEF LoopList, HS!TypeOK
    <2> QED
      BY <1>0, <2>1, LoopRange, Zenon
  <1>7. /\ HS!Listed = {list[i] : i \in 1 .. Len(list)}
        /\ HS!Listed' = {list'[i] : i \in 1 .. Len(list')}
    <2>1. HS!Listed = HS!Range(list) /\ HS!Listed' = HS!Range(list')
      BY DEF HS!Listed
    <2>2. HS!Range(list) = {list[i] : i \in 1 .. Len(list)}
      BY <1>0, LoopRange
    <2>3. HS!Range(list') = {list'[i] : i \in 1 .. Len(list')}
      BY <1>3, LoopRange
    <2> QED
      BY <2>1, <2>2, <2>3
  <1>8. HS!Listed' = HS!Listed \ {d}
    <2>1. \A i \in 1 .. Len(list') : list'[i] \in HS!Listed \ {d}
      BY <1>4, <1>6, <1>7
    <2>2. ASSUME NEW i \in 1 .. Len(list), list[i] # d PROVE list[i] \in HS!Listed'
      <3>1. PICK j \in 1 .. Len(list') : Old(j) = i
        BY <1>5, <2>2
      <3> QED
        BY <1>4, <1>7, <3>1
    <2> QED
      BY <1>7, <2>1, <2>2, Zenon
  <1>9. HS!IsInjective(list')
    <2>1. \A i, j \in 1 .. Len(list') : list'[i] = list'[j] => i = j
      BY <1>4, <1>6, Zenon
    <2> QED
      BY <1>3, <2>1, LoopRange
  <1>10. /\ desc' \in [Addresses -> [handle : HS!Sockets \cup {-1}, flags : SUBSET Events]]
         /\ \A e \in HS!Listed' : desc'[e] # HS!NoDesc
    <2>1. desc' \in [Addresses -> [handle : HS!Sockets \cup {-1}, flags : SUBSET Events]]
      BY <1>0, <1>1, <1>2 DEF HS!NoDesc
    <2>2. \A e \in HS!Listed' : desc'[e] # HS!NoDesc
      BY <1>0, <1>2, <1>8 DEF LoopList, HS!TypeOK
    <2> QED
      BY <2>1, <2>2
  <1> QED
    BY <1>2, <1>3, <1>8, <1>9, <1>10, Zenon DEF LoopList, HS!TypeOK

\* The walk keeps the list right.
LEMMA LoopWalks ==
  ASSUME HS!HandleAssumption, LoopList,
         HS!WalkNext \/ HS!HandlerReturns \/ HS!WalkEnds \/ \E r : HS!CallHandlers(r)
  PROVE  LoopList'
  <1>1. UNCHANGED <<list, desc>> /\ HS!Listed' = HS!Listed
    BY DEF HS!WalkNext, HS!HandlerReturns, HS!WalkEnds, HS!CallHandlers, HS!Listed
  <1>2. list \in Seq(Addresses) /\ HS!IsInjective(list)
    BY DEF LoopList, HS!TypeOK
  <1>3. HS!Listed = {list[i] : i \in 1 .. Len(list)}
    <2>1. HS!Listed = HS!Range(list)
      BY DEF HS!Listed
    <2> QED
      BY <1>2, <2>1, LoopRange
  <1>4. CASE HS!WalkNext
    <2>1. PICK p \in 1 .. Len(list) : list[p] = m_next_ptr
      BY <1>3, <1>4 DEF HS!WalkNext
    <2>2. \A i, j \in 1 .. Len(list) : list[i] = list[j] => i = j
      BY <1>2, LoopRange, Zenon
    <2>3. p = CHOOSE i \in 1 .. Len(list) : list[i] = m_next_ptr
      BY <2>1, <2>2
    <2>4. HS!After(m_next_ptr) = IF p = Len(list) THEN End ELSE list[p + 1]
      BY <2>3 DEF HS!After
    <2>5. HS!After(m_next_ptr) \in Addresses \cup {End}
      BY <1>2, <2>4
    <2>6. /\ hpc' \in {"walking", "calling"} /\ current' = m_next_ptr
          /\ m_next_ptr' = HS!After(m_next_ptr) /\ UNCHANGED watched
      BY <1>4 DEF HS!WalkNext
    <2> QED
      BY <1>1, <2>5, <2>6 DEF LoopList, HS!TypeOK
  <1>5. CASE HS!HandlerReturns
    BY <1>1, <1>5 DEF HS!HandlerReturns, LoopList, HS!TypeOK
  <1>6. CASE HS!WalkEnds
    BY <1>1, <1>6 DEF HS!WalkEnds, LoopList, HS!TypeOK
  <1>7. ASSUME NEW r, HS!CallHandlers(r) PROVE LoopList'
    <2>1. HS!FirstOf(list) \in Addresses \cup {End}
      BY <1>2 DEF HS!FirstOf
    <2>2. /\ m_next_ptr' = HS!FirstOf(list) /\ hpc' = "walking" /\ current' = End
          /\ watched' = HS!Listed
      BY <1>7 DEF HS!CallHandlers
    <2> QED
      BY <1>1, <2>1, <2>2 DEF LoopList, HS!TypeOK
  <1> QED
    BY <1>4, <1>5, <1>6, <1>7

\* The loop's own part of the type.
LoopPlace == /\ step \in {"before", "check", "select", "handlers", "triggers",
                          "alarm", "done", "aborted"}
             /\ hpc # "idle" => step = "handlers"
             /\ inTrigger => step = "triggers"
             /\ InTask => step = "alarm"

\* The table of triggers, and how far the round has come.
RoundRight ==
    /\ m_triggers \in [0 .. max_trigger_count - 1 -> Procs \cup {Empty}]
    /\ next \in 0 .. max_trigger_count
    /\ kept \subseteq TS!Used
    /\ \A i \in kept : i < next => i \in called

\* The inductive invariant of the loop: the timeout is always one that select takes.
SleepInv ==
    /\ LoopList /\ LoopPlace /\ RoundRight
    /\ timeout \in {"zero", "finite", "capped"}
    /\ AbortOnlyOnSignal /\ NoSleepWhileDue

\* The loop before it starts.
LEMMA SleepInitInv ==
  ASSUME Init
  PROVE  SleepInv
  <1>1. LoopList
    <2>1. list = <<>> /\ list \in Seq(Addresses) /\ DOMAIN list = {}
      BY DEF Init, HS!Init
    <2> QED
      BY <2>1 DEF Init, HS!Init, LoopList, HS!TypeOK, HS!Listed, HS!Range, HS!IsInjective,
                  HS!NoDesc
  <1>2. RoundRight
    BY SchedulerAssumption DEF Init, TS!Init, TS!TriggerIds, RoundRight
  <1>3. LoopPlace
    BY DEF Init, HS!Init, TQ!Init, TS!Init, LoopPlace, InTask
  <1> QED
    BY <1>1, <1>2, <1>3 DEF Init, SleepInv, AbortOnlyOnSignal, NoSleepWhileDue

\* A call of the program or of a callback, not in select.
LEMMA CallsKeep ==
  ASSUME SleepInv, Calls
  PROVE  SleepInv'
  <1>0. /\ MayCall /\ UNCHANGED <<m_quit, step, timeout, interrupted>>
    BY DEF Calls, ScheduleDelayTask, SetBackgroundHanding, RemoveBackgroundHandling,
           CreateTrigger, RemoveTrigger, LoopSame
  <1>1. /\ timeout' \in {"zero", "finite", "capped"} /\ AbortOnlyOnSignal' /\ NoSleepWhileDue'
    <2>1. step # "select"
      BY <1>0 DEF SleepInv, LoopPlace, MayCall, InCallback, InHandler, InTask
    <2> QED
      BY <1>0, <2>1 DEF SleepInv, AbortOnlyOnSignal, NoSleepWhileDue
  <1>2. ASSUME NEW id \in Tasks, NEW delayed \in BOOLEAN, ScheduleDelayTask(id, delayed)
        PROVE  LoopList' /\ LoopPlace' /\ RoundRight'
    <2>1. UNCHANGED <<hsVars, tsVars, step, running>>
      BY <1>2 DEF ScheduleDelayTask, TQ!Add, LoopSame
    <2> QED
      BY <2>1 DEF hsVars, tsVars, SleepInv, LoopList, HS!TypeOK, HS!Listed, LoopPlace, InTask,
                  RoundRight, TS!Used
  <1>3. ASSUME UNCHANGED <<tqVars, tsVars>>, LoopList', UNCHANGED hpc
        PROVE  LoopList' /\ LoopPlace' /\ RoundRight'
    BY <1>0, <1>3 DEF tqVars, tsVars, SleepInv, LoopPlace, InTask, RoundRight, TS!Used
  <1>4. ASSUME NEW h \in Handles, NEW f \in SUBSET Events, SetBackgroundHanding(h, f)
        PROVE  LoopList' /\ LoopPlace' /\ RoundRight'
    <2>1. HS!AssignHandler(h, f) /\ UNCHANGED <<tqVars, tsVars>>
      BY <1>4 DEF SetBackgroundHanding
    <2>2. LoopList' /\ UNCHANGED hpc
      BY <2>1, LoopAssigns, SchedulerAssumption, Zenon DEF SleepInv, HS!AssignHandler
    <2> QED
      BY <1>3, <2>1, <2>2
  <1>5. ASSUME NEW h \in Handles, RemoveBackgroundHandling(h)
        PROVE  LoopList' /\ LoopPlace' /\ RoundRight'
    <2>1. HS!RemoveHandler(h) /\ UNCHANGED <<tqVars, tsVars>>
      BY <1>5 DEF RemoveBackgroundHandling
    <2>2. LoopList' /\ UNCHANGED hpc
      BY <2>1, LoopRemoves, Zenon DEF SleepInv, HS!RemoveHandler
    <2> QED
      BY <1>3, <2>1, <2>2
  <1>6. ASSUME UNCHANGED <<tqVars, hsVars, inTrigger>>, RoundRight'
        PROVE  LoopList' /\ LoopPlace' /\ RoundRight'
    BY <1>0, <1>6 DEF tqVars, hsVars, SleepInv, LoopList, HS!TypeOK, HS!Listed, LoopPlace, InTask
  <1>7. ASSUME NEW f \in Procs, CreateTrigger(f)
        PROVE  LoopList' /\ LoopPlace' /\ RoundRight'
    <2>1. /\ \E i : m_triggers' = [m_triggers EXCEPT ![i] = f]
          /\ UNCHANGED <<tqVars, hsVars, next, inTrigger, kept, called>>
      BY <1>7, Zenon DEF CreateTrigger, TS!CreateTrigger
    <2>2. RoundRight'
      BY <2>1, SchedulerAssumption, Zenon DEF SleepInv, RoundRight, TS!Used, TS!TriggerIds
    <2> QED
      BY <1>6, <2>1, <2>2
  <1>8. ASSUME NEW tid, RemoveTrigger(tid)
        PROVE  LoopList' /\ LoopPlace' /\ RoundRight'
    <2>1. /\ m_triggers' = [m_triggers EXCEPT ![tid] = Empty] /\ kept' = kept \ {tid}
          /\ UNCHANGED <<tqVars, hsVars, next, inTrigger, called>>
      BY <1>8 DEF RemoveTrigger, TS!RemoveTrigger
    <2>2. RoundRight'
      BY <2>1, Zenon DEF SleepInv, RoundRight, TS!Used, TS!TriggerIds
    <2> QED
      BY <1>6, <2>1, <2>2
  <1>9. LoopList' /\ LoopPlace' /\ RoundRight'
    BY <1>2, <1>4, <1>5, <1>7, <1>8 DEF Calls
  <1> QED
    BY <1>1, <1>9 DEF SleepInv

\* TriggeUpAll begins a round with the triggers there are.
LEMMA RoundStarts ==
  ASSUME RoundRight, TS!TriggeUpAll
  PROVE  RoundRight'
  BY SchedulerAssumption DEF RoundRight, TS!TriggeUpAll, TS!Used, TS!TriggerIds

\* The steps of the loop, StopLoop and select.
LEMMA StepsKeep ==
  ASSUME SleepInv,
         \/ StopLoop \/ DoEventLoop \/ SelectReturns \/ SelectFails
         \/ HandlerStep \/ LoopStep \/ AlarmStep
  PROVE  SleepInv'
  <1> USE DEF SleepInv, LoopPlace, InTask, AbortOnlyOnSignal, NoSleepWhileDue, Goto
  <1>1. ASSUME UNCHANGED hsVars PROVE LoopList'
    BY <1>1 DEF hsVars, LoopList, HS!TypeOK, HS!Listed
  <1>2. ASSUME UNCHANGED tsVars PROVE RoundRight' /\ inTrigger' = inTrigger
    BY <1>2 DEF tsVars, RoundRight, TS!Used
  <1>3. CASE StopLoop
    BY <1>1, <1>2, <1>3 DEF StopLoop, tqVars, hsVars
  <1>4. CASE DoEventLoop
    BY <1>1, <1>2, <1>4 DEF DoEventLoop, tqVars, hsVars
  <1>5. CASE SelectTimesOut
    <2>1. /\ step = "select" /\ step' = "triggers" /\ UNCHANGED <<tqVars, hsVars, timeout>>
          /\ TS!TriggeUpAll /\ interrupted' = interrupted
      BY <1>5 DEF SelectTimesOut
    <2>2. RoundRight' /\ inTrigger' = inTrigger
      BY <2>1, RoundStarts DEF TS!TriggeUpAll
    <2> QED
      BY <1>1, <2>1, <2>2 DEF tqVars, hsVars
  <1>6. ASSUME NEW r, SelectReady(r) PROVE SleepInv'
    <2>1. /\ step = "select" /\ step' = "handlers" /\ HS!CallHandlers(r)
          /\ UNCHANGED <<tqVars, tsVars, timeout, interrupted>>
      BY <1>6 DEF SelectReady
    <2>2. LoopList'
      BY <2>1, LoopWalks, SchedulerAssumption
    <2> QED
      BY <1>2, <2>1, <2>2 DEF tqVars
  <1>7. CASE SelectFails
    <2>1. /\ step = "select" /\ step' = "aborted" /\ interrupted' = (timeout # "uncapped")
          /\ UNCHANGED <<tqVars, hsVars, tsVars, timeout>>
      BY <1>7 DEF SelectFails
    <2>2. interrupted' = TRUE
      BY <2>1, Zenon
    <2> QED
      BY <1>1, <1>2, <2>1, <2>2 DEF tqVars, hsVars
  <1>8. CASE HandlerStep
    <2>1. /\ step = "handlers" /\ (HS!WalkNext \/ HS!HandlerReturns)
          /\ UNCHANGED <<tqVars, tsVars, step, timeout, interrupted>>
      BY <1>8 DEF HandlerStep
    <2>2. LoopList'
      BY <2>1, LoopWalks, SchedulerAssumption
    <2> QED
      BY <1>2, <2>1, <2>2 DEF tqVars
  <1>9. CASE LoopEnds
    BY <1>1, <1>2, <1>9 DEF LoopEnds, tqVars, hsVars
  <1>10. CASE TimeToNextAlarm
    <2>1. /\ step = "check" /\ step' = "select" /\ running' = running
          /\ UNCHANGED <<hsVars, tsVars, interrupted>>
          /\ timeout' \in {"zero", "finite", "capped"} /\ (due' # <<>> => timeout' = "zero")
      BY <1>10 DEF TimeToNextAlarm, TQ!Synchronize, tqVars, Timeouts
    <2> QED
      BY <1>1, <1>2, <2>1 DEF hsVars
  <1>11. CASE HandlersDone
    <2>1. /\ step = "handlers" /\ step' = "triggers" /\ HS!WalkEnds /\ TS!TriggeUpAll
          /\ UNCHANGED <<tqVars, timeout, interrupted>>
      BY <1>11 DEF HandlersDone
    <2>2. LoopList' /\ hpc' = "idle"
      BY <2>1, LoopWalks, SchedulerAssumption DEF HS!WalkEnds
    <2>3. RoundRight' /\ inTrigger' = inTrigger
      BY <2>1, RoundStarts DEF TS!TriggeUpAll
    <2> QED
      BY <2>1, <2>2, <2>3 DEF tqVars
  <1>12. CASE TriggerStep
    <2>1. /\ step = "triggers" /\ (TS!CallTrigger \/ TS!TriggerReturns)
          /\ UNCHANGED <<tqVars, hsVars, step, timeout, interrupted>>
      BY <1>12 DEF TriggerStep
    <2>2. RoundRight'
      <3>1. CASE TS!CallTrigger
        <4>1. /\ next < max_trigger_count /\ next' = next + 1 /\ UNCHANGED <<m_triggers, kept>>
              /\ called \subseteq called'
              /\ m_triggers[next] # Empty => next \in called'
          BY <3>1 DEF TS!CallTrigger
        <4>2. \A i \in kept : i \in Int /\ m_triggers[i] # Empty
          BY DEF RoundRight, TS!Used, TS!TriggerIds
        <4>3. \A i \in kept : i < next' => i \in called'
          BY <4>1, <4>2 DEF RoundRight
        <4> QED
          BY <4>1, <4>3, SchedulerAssumption DEF RoundRight, TS!Used
      <3>2. CASE TS!TriggerReturns
        BY <3>2 DEF TS!TriggerReturns, RoundRight, TS!Used
      <3> QED
        BY <2>1, <3>1, <3>2
    <2> QED
      BY <1>1, <2>1, <2>2 DEF tqVars, hsVars
  <1>13. CASE HandleAlarm
    <2>1. /\ step = "triggers" /\ step' = "alarm" /\ ~inTrigger /\ running' = running
          /\ UNCHANGED <<hsVars, tsVars, timeout, interrupted>>
      BY <1>13 DEF HandleAlarm, TS!TriggersDone, TQ!Synchronize, tqVars
    <2> QED
      BY <1>1, <1>2, <2>1 DEF hsVars
  <1>14. CASE AlarmDone
    BY <1>1, <1>2, <1>14 DEF AlarmDone, tqVars, hsVars
  <1>15. CASE AlarmStep
    <2>1. step = "alarm" /\ UNCHANGED <<hsVars, tsVars, step, timeout, interrupted>>
      BY <1>15 DEF AlarmStep
    <2> QED
      BY <1>1, <1>2, <2>1 DEF hsVars
  <1> QED
    BY <1>3, <1>4, <1>5, <1>6, <1>7, <1>8, <1>9, <1>10, <1>11, <1>12, <1>13, <1>14, <1>15
    DEF SelectReturns, LoopStep

\* Every step of the loop and of its callers keeps SleepInv.
LEMMA SleepNextInv ==
  ASSUME SleepInv, [Next]_vars
  PROVE  SleepInv'
  <1>1. CASE UNCHANGED vars
    BY <1>1 DEF vars, tqVars, hsVars, tsVars, SleepInv, LoopList, HS!TypeOK, HS!Listed,
                LoopPlace, InTask, RoundRight, TS!Used, AbortOnlyOnSignal, NoSleepWhileDue
  <1>2. CASE Next
    BY <1>2, CallsKeep, StepsKeep DEF Next
  <1> QED
    BY <1>1, <1>2

\* What the run checks follows from it.
LEMMA SleepInvExact ==
  ASSUME SleepInv
  PROVE  SleepsRight /\ TriggersCalled
  <1>1. SleepsRight
    BY DEF SleepInv, LoopList, LoopPlace, RoundRight, SleepsRight, TypeOK
  <1>2. ASSUME TS!TriggersDone, NEW i \in kept PROVE i \in called
    <2>1. i \in 0 .. max_trigger_count - 1 /\ next = max_trigger_count
      BY <1>2 DEF SleepInv, RoundRight, TS!Used, TS!TriggerIds, TS!TriggersDone
    <2>2. i < next
      BY <2>1, SchedulerAssumption
    <2> QED
      BY <2>2 DEF SleepInv, RoundRight
  <1> QED
    BY <1>1, <1>2 DEF TriggersCalled

\* The loop with any tasks, sockets and triggers, and whatever callbacks do: select
\* gets a timeout it takes, and none to sleep for while a task is due, and every
\* trigger that nobody removed has been called when a round ends.
THEOREM LoopRight == Spec => [](SleepsRight /\ TriggersCalled)
  <1>1. Init => SleepInv
    BY SleepInitInv
  <1>2. SleepInv /\ [Next]_vars => SleepInv'
    BY SleepNextInv
  <1>3. SleepInv => SleepsRight /\ TriggersCalled
    BY SleepInvExact
  <1> QED
    BY <1>1, <1>2, <1>3, PTL DEF Spec

\* SleepInv holds in the whole run.
LEMMA SleepAlways == LoopSpec => []SleepInv
  <1>1. LoopInit => SleepInv
    BY SleepInitInv DEF LoopInit
  <1>2. SleepInv /\ [LoopNext]_<<part, vars, delayVars, handlerVars, timeVars>> => SleepInv'
    <2> SUFFICES ASSUME SleepInv, [LoopNext]_<<part, vars, delayVars, handlerVars, timeVars>>
                 PROVE  SleepInv'
      OBVIOUS
    <2>1. [Next]_vars
      BY DEF LoopNext, CalmNext
    <2> QED
      BY <2>1, SleepNextInv
  <1> QED
    BY <1>1, <1>2, PTL DEF LoopSpec

\* In the whole run, select never gets a timeout it refuses, and never one to sleep
\* for while a task is due.
THEOREM SleepsAlways == LoopSpec => []SleepsRight
  <1>1. SleepInv => SleepsRight
    BY SleepInvExact
  <1> QED
    BY <1>1, SleepAlways, PTL

\* In the whole run, at the end of a round of triggers every one that was there when
\* it began and that nobody removed has been called.
THEOREM TriggersAlways == LoopSpec => []TriggersCalled
  <1>1. SleepInv => TriggersCalled
    BY SleepInvExact
  <1> QED
    BY <1>1, SleepAlways, PTL
=============================================================================
