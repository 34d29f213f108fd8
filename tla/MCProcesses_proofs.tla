------------------------- MODULE MCProcesses_proofs -------------------------
(***************************************************************************)
(* What MCProcesses checks of the process pool and of the application on a *)
(* small instance, for pools of any size and any limits of time.           *)
(***************************************************************************)
EXTENDS MCProcesses, FiniteSetTheorems, TLAPS

-----------------------------------------------------------------------------
(* ProcessPool *)

\* How much of a pass can have gone by at index i: two restarts of every index
\* before it, and those of this one.
Restarts == CASE why = "none" -> 2 * i
              [] why = "init" -> 0
              [] why = "end"  -> IF pc = "term" THEN 2 * i ELSE 2 * i + 1
              [] why = "gone" -> IF pc = "term" THEN 2 * i ELSE 2 * i + 1
              [] why = "silent" -> IF pc = "term" THEN 2 * i + 1 ELSE 2 * i + 2

\* Where the parent is, and why.
ParentPlace ==
    /\ pc \in {"idle", "look"} => why = "none"
    /\ pc = "idle" => elapsed = 0
    /\ pc = "hear" => why \in {"none", "gone"}
    /\ pc = "term" => why \in {"gone", "silent", "end"}
    /\ pc = "kill" => why \in {"gone", "silent", "end"}
    /\ pc \in {"fork", "start"} => why \in {"init", "gone", "silent"}
    /\ pc = "start" <=> forked # NoPid
    /\ elapsed <= Restarts * TermSleep

\* A son that lives has its pid in the table, except between fork and
\* SetStartInfo, and reads no other pid from it.
TableRight ==
    /\ \A p \in Alive : p = forked \/ pid[son[p].slot] = p
    /\ \A p \in Alive : p # forked /\ son[p].touching => son[p].read = p
    /\ pc = "start" /\ forked \in Alive => son[forked].slot = i /\ ~son[forked].touching

\* Which indices have no son: the one that is about to get one, the later ones while
\* the first sons are made, the earlier ones in the destructor, in the end all.
Vacant ==
    /\ pc = "fork" => SonsOf(i) = {}
    /\ pc = "start" => SonsOf(i) \subseteq {forked}
    /\ pc = "term" /\ why = "gone" => SonsOf(i) = {}
    /\ why = "init" => \A p \in Alive : p # forked => son[p].slot < i
    /\ why = "end" => \A p \in Alive : son[p].slot >= i
    /\ pc = "down" => Alive = {}

PoolInv == TypeOK /\ ParentPlace /\ TableRight /\ Vacant

\* If a pass takes no more than MaxHear, each index is restarted once in it at most,
\* and who was just started is not silent.
PassShort ==
    /\ elapsed <= (IF why = "none" \/ pc = "term" THEN i ELSE i + 1) * TermSleep
    /\ pc = "hear" /\ why = "gone" => life[i] = 0

\* The constants, and products with the length of a sleep.
LEMMA PoolConstants ==
  /\ Count \in Nat /\ Count > 0 /\ MaxHear \in Nat /\ TermSleep \in Nat
  /\ NoPid \notin Pids /\ EarlyTouch \in BOOLEAN
  BY PoolAssumption

LEMMA Sleeps ==
  ASSUME NEW a \in Nat, NEW b \in Nat, a <= b
  PROVE  /\ a * TermSleep \in Nat /\ b * TermSleep \in Nat
         /\ a * TermSleep <= b * TermSleep
         /\ (a + 1) * TermSleep = a * TermSleep + TermSleep
  <1>1. PICK d \in Nat : b = a + d
    <2>1. b - a \in Nat /\ b = a + (b - a)
      OBVIOUS
    <2> QED
      BY <2>1
  <1>2. TermSleep \in Nat
    BY PoolConstants
  <1>3. b * TermSleep = a * TermSleep + d * TermSleep
    BY <1>1, <1>2
  <1>4. a * TermSleep \in Nat /\ d * TermSleep \in Nat
    BY <1>2
  <1>5. (a + 1) * TermSleep = a * TermSleep + TermSleep
    BY <1>2
  <1> QED
    BY <1>3, <1>4, <1>5

\* No pass takes longer than MaxElapsed.
LEMMA PassBounded ==
  ASSUME NEW n \in Nat, n <= 2 * Count, NEW e \in Nat, e <= n * TermSleep
  PROVE  e \in 0 .. MaxElapsed /\ MaxElapsed \in Nat
  <1>1. Count \in Nat /\ 2 * Count \in Nat /\ TermSleep \in Nat
    BY PoolConstants
  <1>2. MaxElapsed = (2 * Count) * TermSleep
    BY <1>1 DEF MaxElapsed
  <1>3. PICK m \in Nat : m = 2 * Count
    BY <1>1
  <1>4. n * TermSleep <= m * TermSleep /\ n * TermSleep \in Nat /\ m * TermSleep \in Nat
    BY <1>3, Sleeps
  <1> QED
    BY <1>2, <1>3, <1>4

LEMMA ElapsedRange == 0 \in 0 .. MaxElapsed /\ MaxElapsed \in Nat
  <1>1. 0 <= 0 * TermSleep /\ 0 <= 2 * Count
    BY PoolConstants
  <1> QED
    BY <1>1, PassBounded

\* Ages stay in their range when time passes.
LEMMA AgesPass ==
  ASSUME NEW a \in Nat, NEW d \in Nat, NEW nt \in 0 .. MaxElapsed, MaxElapsed \in Nat
  PROVE  Older(a, d, nt) \in 0 .. MaxAge(MaxElapsed)
  BY PoolConstants DEF Older, MaxAge

LEMMA PoolInitInv ==
  ASSUME Init
  PROVE  PoolInv
  <1>1. 0 \in 0 .. MaxElapsed /\ MaxElapsed \in Nat
    BY ElapsedRange
  <1>2. TypeOK
    BY <1>1, PoolConstants DEF Init, TypeOK, Slots, NoSon, MaxAge
  <1>3. Alive = {}
    BY DEF Init, Alive, NoSon
  <1>4. ParentPlace
    BY PoolConstants DEF Init, ParentPlace, Restarts
  <1>5. TableRight /\ Vacant
    BY <1>3 DEF Init, TableRight, Vacant, SonsOf
  <1> QED
    BY <1>2, <1>4, <1>5 DEF PoolInv

\* After index i the parent is at the next one or at the end, for the same reason.
LEMMA ContinuePlace ==
  ASSUME TypeOK, Continue, elapsed <= (2 * i + 2) * TermSleep,
         why = "init" => elapsed = 0, forked' = NoPid
  PROVE  /\ i' \in Slots /\ elapsed' \in 0 .. MaxElapsed
         /\ pc' \in {"idle", "look", "hear", "term", "kill", "fork", "start", "down"}
         /\ why' \in {"none", "init", "gone", "silent", "end"}
         /\ ParentPlace'
  <1>1. /\ i \in Nat /\ i < Count /\ elapsed \in Nat /\ Count \in Nat /\ TermSleep \in Nat
        /\ why \in {"none", "init", "gone", "silent", "end"}
    BY PoolConstants DEF TypeOK, Slots
  <1>2. CASE i + 1 < Count
    <2>1. i' = i + 1 /\ elapsed' = elapsed /\ i' \in Slots
      BY <1>1, <1>2 DEF Continue, Slots
    <2>2. \/ why' = "init" /\ pc' = "fork" /\ elapsed' = 0
          \/ why' = "end" /\ pc' = "term"
          \/ why' = "none" /\ pc' = "look"
      BY <1>1, <1>2, <2>1 DEF Continue
    <2>3. elapsed' <= Restarts' * TermSleep
      <3>1. CASE why' = "init"
        BY <1>1, <2>2, <3>1 DEF Restarts
      <3>2. CASE why' # "init"
        <4>1. Restarts' = 2 * (i + 1)
          BY <2>1, <2>2, <3>2 DEF Restarts
        <4>2. 2 * (i + 1) = 2 * i + 2
          BY <1>1
        <4> QED
          BY <2>1, <4>1, <4>2
      <3> QED
        BY <3>1, <3>2
    <2>4. elapsed' \in 0 .. MaxElapsed
      <3>1. PICK n \in Nat : n = 2 * i + 2 /\ n <= 2 * Count
        <4>1. 2 * i + 2 \in Nat /\ 2 * i + 2 <= 2 * Count
          BY <1>1
        <4> QED
          BY <4>1
      <3> QED
        BY <1>1, <2>1, <3>1, PassBounded
    <2> QED
      BY <2>1, <2>2, <2>3, <2>4 DEF ParentPlace
  <1>3. CASE ~(i + 1 < Count)
    <2>1. i' = 0 /\ elapsed' = 0 /\ why' = "none" /\ pc' \in {"down", "idle"}
      BY <1>1, <1>3 DEF Continue
    <2>2. Restarts' * TermSleep = 0
      BY <1>1, <2>1 DEF Restarts
    <2>3. i' \in Slots
      BY <1>1, <2>1 DEF Slots
    <2>4. 0 \in 0 .. MaxElapsed
      BY ElapsedRange
    <2> QED
      BY <2>1, <2>2, <2>3, <2>4 DEF ParentPlace
  <1> QED
    BY <1>2, <1>3

\* The records of processes.
SonType == [state : {"none", "running", "hung", "zombie"}, slot : Slots,
            touching : BOOLEAN, read : Pids \cup {NoPid}]

LEMMA SonRecords ==
  /\ NoSon \in SonType /\ NoSon.state = "none"
  /\ Zombie \in SonType /\ Zombie.state = "zombie"
  /\ \A s \in Slots : /\ NewSon(s) \in SonType /\ NewSon(s).state = "running"
                       /\ NewSon(s).slot = s /\ ~NewSon(s).touching
  <1>1. 0 \in Slots
    BY PoolConstants DEF Slots
  <1>2. NoSon \in SonType /\ NoSon.state = "none"
    BY <1>1 DEF NoSon, SonType
  <1>3. Zombie \in SonType /\ Zombie.state = "zombie"
    BY <1>1 DEF Zombie, NoSon, SonType
  <1>4. ASSUME NEW s \in Slots
        PROVE  /\ NewSon(s) \in SonType /\ NewSon(s).state = "running"
               /\ NewSon(s).slot = s /\ ~NewSon(s).touching
    BY <1>1 DEF NewSon, NoSon, SonType
  <1> QED
    BY <1>2, <1>3, <1>4

\* What a step of a son leaves of the invariant: it changes its own record only, and
\* may leave the living.
LEMMA SonStep ==
  ASSUME PoolInv, UNCHANGED <<pid, pc, i, why, elapsed, forked>>,
         Alive' \subseteq Alive, \A q \in Alive' : son'[q].slot = son[q].slot,
         \A q \in Alive' : \/ son'[q] = son[q]
                           \/ /\ q # forked
                              /\ son'[q].touching => son'[q].read \in {q, son[q].read}
                              /\ ~son[q].touching /\ son'[q].touching => son'[q].read = q
  PROVE  ParentPlace' /\ TableRight' /\ Vacant'
  <1>1. ParentPlace'
    BY DEF PoolInv, ParentPlace, Restarts
  <1>2. TableRight'
    BY DEF PoolInv, TableRight
  <1>3. \A s : SonsOf(s)' \subseteq SonsOf(s)
    BY DEF SonsOf
  <1>4. Vacant'
    BY <1>3 DEF PoolInv, Vacant
  <1> QED
    BY <1>1, <1>2, <1>4

LEMMA TouchInv ==
  ASSUME ~EarlyTouch, PoolInv, NEW p \in Pids, Touch(p)
  PROVE  PoolInv'
  <1>1. /\ p \in Alive /\ p # forked /\ ~son[p].touching /\ son[p].slot \in Slots
        /\ pid[son[p].slot] = p
    BY DEF Touch, MayRun, Alive, PoolInv, TypeOK, TableRight
  <1>2. /\ son' = [son EXCEPT ![p].touching = TRUE, ![p].read = p]
        /\ life' = [life EXCEPT ![son[p].slot] = 0]
        /\ UNCHANGED <<pid, pc, i, why, elapsed, forked>>
    BY <1>1 DEF Touch
  <1>3. TypeOK'
    <2>1. 0 \in 0 .. MaxAge(MaxElapsed)
      BY ElapsedRange, PoolConstants DEF MaxAge
    <2> QED
      BY <1>1, <1>2, <2>1 DEF PoolInv, TypeOK
  <1>4. /\ Alive' = Alive /\ \A q \in Alive : son'[q].slot = son[q].slot
        /\ \A q \in Alive : q # p => son'[q] = son[q]
        /\ son'[p].touching /\ son'[p].read = p
    BY <1>1, <1>2 DEF Alive, PoolInv, TypeOK
  <1> QED
    BY <1>1, <1>2, <1>3, <1>4, SonStep DEF PoolInv

LEMMA TouchStoreInv ==
  ASSUME ~EarlyTouch, PoolInv, NEW p \in Pids, TouchStore(p)
  PROVE  PoolInv'
  <1>1. /\ p \in Alive /\ p # forked /\ son[p].touching /\ son[p].slot \in Slots
        /\ pid[son[p].slot] = p /\ son[p].read = p
    BY DEF TouchStore, MayRun, Alive, PoolInv, TypeOK, TableRight
  <1>2. /\ son' = [son EXCEPT ![p].touching = FALSE, ![p].read = NoPid]
        /\ UNCHANGED <<pid, life, pc, i, why, elapsed, forked>>
    BY <1>1 DEF TouchStore, PoolInv, TypeOK
  <1>3. TypeOK'
    <2>1. son' \in [Pids -> SonType]
      <3>1. son \in [Pids -> SonType] /\ FALSE \in BOOLEAN
        BY DEF PoolInv, TypeOK, SonType
      <3>2. [son[p] EXCEPT !.touching = FALSE, !.read = NoPid] \in SonType
        <4>1. son[p] \in SonType
          BY <3>1
        <4> QED
          BY <4>1 DEF SonType
      <3>3. son' = [son EXCEPT ![p] = [son[p] EXCEPT !.touching = FALSE, !.read = NoPid]]
        BY <1>2
      <3> QED
        BY <3>1, <3>2, <3>3
    <2> QED
      BY <1>2, <2>1 DEF PoolInv, TypeOK, SonType
  <1>4. /\ Alive' = Alive /\ \A q \in Alive : son'[q].slot = son[q].slot
        /\ \A q \in Alive : q # p => son'[q] = son[q]
        /\ ~son'[p].touching
    BY <1>1, <1>2 DEF Alive, PoolInv, TypeOK
  <1> QED
    BY <1>1, <1>2, <1>3, <1>4, SonStep DEF PoolInv

LEMMA HangInv ==
  ASSUME ~EarlyTouch, PoolInv, NEW p \in Pids, Hang(p)
  PROVE  PoolInv'
  <1>1. p \in Alive /\ p # forked
    BY DEF Hang, MayRun, Alive
  <1>2. /\ son' = [son EXCEPT ![p].state = "hung"]
        /\ UNCHANGED <<pid, life, pc, i, why, elapsed, forked>>
    BY DEF Hang
  <1>3. TypeOK'
    <2>1. son' \in [Pids -> SonType]
      BY <1>1, <1>2 DEF PoolInv, TypeOK, SonType
    <2> QED
      BY <1>2, <2>1 DEF PoolInv, TypeOK, SonType
  <1>4. /\ Alive' = Alive /\ \A q \in Alive : son'[q].slot = son[q].slot
        /\ \A q \in Alive : q # p => son'[q] = son[q]
        /\ son'[p].touching = son[p].touching /\ son'[p].read = son[p].read
    BY <1>1, <1>2 DEF Alive, PoolInv, TypeOK
  <1> QED
    BY <1>1, <1>2, <1>3, <1>4, SonStep DEF PoolInv

\* A son that dies, or is reaped.
LEMMA DieReapInv ==
  ASSUME PoolInv, NEW p \in Pids, Die(p) \/ Reap(p)
  PROVE  PoolInv'
  <1>1. /\ son' \in {[son EXCEPT ![p] = Zombie], [son EXCEPT ![p] = NoSon]}
        /\ UNCHANGED <<pid, life, pc, i, why, elapsed, forked>>
    BY DEF Die, Reap
  <1>2. son \in [Pids -> SonType]
    BY DEF PoolInv, TypeOK, SonType
  <1>3. TypeOK'
    <2>1. son' \in [Pids -> SonType]
      BY <1>1, <1>2, SonRecords
    <2> QED
      BY <1>1, <2>1 DEF PoolInv, TypeOK, SonType
  <1>4. Alive' \subseteq Alive /\ \A q \in Alive' : son'[q] = son[q]
    BY <1>1, <1>2, SonRecords DEF Alive
  <1> QED
    BY <1>1, <1>3, <1>4, SonStep DEF PoolInv

\* Steps of the parent that touch neither the sons nor the table.
LEMMA LookInv ==
  ASSUME PoolInv, ManagePool \/ Look \/ Destroy
  PROVE  PoolInv'
  <1>1. /\ UNCHANGED <<pid, life, son, elapsed, forked>> /\ Alive' = Alive
        /\ \A s : SonsOf(s)' = SonsOf(s)
    BY DEF ManagePool, Look, Destroy, Alive, SonsOf
  <1>2. 0 \in Slots /\ i \in Nat /\ TermSleep \in Nat
    BY PoolConstants DEF Slots, PoolInv, TypeOK
  <1>3. TypeOK'
    BY <1>1, <1>2 DEF PoolInv, TypeOK, ManagePool, Look, Destroy
  <1>4. ParentPlace'
    <2>1. CASE ManagePool \/ Destroy
      <3>1. elapsed = 0 /\ i' = 0
        BY <2>1 DEF PoolInv, ParentPlace, ManagePool, Destroy
      <3>2. Restarts' \in Nat /\ Restarts' = 0
        BY <2>1 DEF PoolInv, ParentPlace, ManagePool, Destroy, Restarts
      <3>3. elapsed' <= Restarts' * TermSleep
        BY <1>1, <1>2, <3>1, <3>2
      <3> QED
        BY <1>1, <2>1, <3>1, <3>3 DEF PoolInv, ParentPlace, ManagePool, Destroy
    <2>2. CASE Look
      <3>1. Restarts' = Restarts
        BY <2>2 DEF PoolInv, ParentPlace, Look, Restarts
      <3> QED
        BY <1>1, <2>2, <3>1 DEF PoolInv, ParentPlace, Look
    <2> QED
      BY <2>1, <2>2
  <1>5. TableRight'
    BY <1>1 DEF PoolInv, TableRight, ManagePool, Look, Destroy
  <1>6. Vacant'
    <2>1. CASE ManagePool \/ Destroy
      <3>1. \A p \in Alive : son[p].slot >= 0
        BY DEF PoolInv, TypeOK, Alive, Slots
      <3> QED
        BY <1>1, <2>1, <3>1 DEF PoolInv, Vacant, ParentPlace, ManagePool, Destroy
    <2>2. CASE Look
      <3>1. ASSUME pc' = "term"
            PROVE  SonsOf(i) = {}
        <4>1. ~ProcessExists(pid[i]) /\ forked = NoPid
          BY <2>2, <3>1 DEF Look, PoolInv, ParentPlace
        <4>2. \A p \in Alive : son[p].slot # i
          BY <4>1, PoolConstants DEF ProcessExists, PoolInv, TableRight, Alive
        <4> QED
          BY <4>2 DEF SonsOf
      <3> QED
        BY <1>1, <2>2, <3>1 DEF PoolInv, Vacant, ParentPlace, Look
    <2> QED
      BY <2>1, <2>2
  <1> QED
    BY <1>3, <1>4, <1>5, <1>6 DEF PoolInv

LEMMA HearInv ==
  ASSUME PoolInv, Hear
  PROVE  PoolInv'
  <1>1. /\ UNCHANGED <<pid, life, son, forked>> /\ Alive' = Alive
        /\ \A s : SonsOf(s)' = SonsOf(s)
        /\ pc = "hear" /\ why \in {"none", "gone"} /\ forked = NoPid
    BY DEF Hear, Alive, SonsOf, PoolInv, ParentPlace
  <1>2. i \in Nat /\ i < Count /\ Count \in Nat /\ TermSleep \in Nat /\ elapsed \in Nat
    BY PoolConstants DEF Slots, PoolInv, TypeOK
  <1>3. elapsed <= (2 * i + 1) * TermSleep
    <2>1. Restarts \in {2 * i, 2 * i + 1} /\ elapsed <= Restarts * TermSleep
      BY <1>1 DEF PoolInv, ParentPlace, Restarts
    <2>2. PICK m \in Nat, n \in Nat : m = Restarts /\ n = 2 * i + 1 /\ m <= n
      BY <1>2, <2>1
    <2>3. m * TermSleep <= n * TermSleep /\ m * TermSleep \in Nat /\ n * TermSleep \in Nat
      BY <2>2, Sleeps
    <2> QED
      BY <1>2, <2>1, <2>2, <2>3
  <1>4. CASE Silent(i)
    <2>1. pc' = "term" /\ why' = "silent" /\ UNCHANGED <<i, elapsed>>
      BY <1>4 DEF Hear
    <2>2. TypeOK'
      BY <1>1, <2>1 DEF PoolInv, TypeOK
    <2>3. ParentPlace'
      <3>1. Restarts' = 2 * i + 1
        BY <2>1 DEF Restarts
      <3> QED
        BY <1>1, <1>3, <2>1, <3>1 DEF PoolInv, ParentPlace
    <2>4. TableRight' /\ Vacant'
      BY <1>1, <2>1 DEF PoolInv, TableRight, Vacant
    <2> QED
      BY <2>2, <2>3, <2>4 DEF PoolInv
  <1>5. CASE ~Silent(i)
    <2>1. Continue
      BY <1>5 DEF Hear
    <2>2. elapsed <= (2 * i + 2) * TermSleep
      <3>1. PICK m \in Nat, n \in Nat : m = 2 * i + 1 /\ n = 2 * i + 2 /\ m <= n
        BY <1>2
      <3>2. m * TermSleep <= n * TermSleep /\ m * TermSleep \in Nat /\ n * TermSleep \in Nat
        BY <3>1, Sleeps
      <3> QED
        BY <1>2, <1>3, <3>1, <3>2
    <2>3. /\ i' \in Slots /\ elapsed' \in 0 .. MaxElapsed
          /\ pc' \in {"idle", "look", "hear", "term", "kill", "fork", "start", "down"}
          /\ why' \in {"none", "init", "gone", "silent", "end"}
          /\ ParentPlace'
      BY <1>1, <2>1, <2>2, ContinuePlace DEF PoolInv
    <2>4. why' = "none" /\ pc' \in {"look", "idle"}
      BY <1>1, <2>1 DEF Continue
    <2>5. TypeOK'
      BY <1>1, <2>3 DEF PoolInv, TypeOK
    <2>6. TableRight' /\ Vacant'
      BY <1>1, <2>4 DEF PoolInv, TableRight, Vacant
    <2> QED
      BY <2>3, <2>5, <2>6 DEF PoolInv
  <1> QED
    BY <1>4, <1>5

\* Time passes between two calls of ManagePool.
LEMMA TickInv ==
  ASSUME PoolInv, Tick
  PROVE  PoolInv'
  <1>1. /\ UNCHANGED <<pid, son, pc, i, why, elapsed, forked>> /\ Alive' = Alive
    BY DEF Tick, Alive
  <1>2. life' \in [Slots -> 0 .. MaxAge(MaxElapsed)]
    <2>1. \A s \in Slots : life[s] \in Nat
      BY ElapsedRange DEF PoolInv, TypeOK, MaxAge
    <2>2. \A s \in Slots : Older(life[s], 1, 0) \in 0 .. MaxAge(MaxElapsed)
      BY <2>1, ElapsedRange, AgesPass
    <2> QED
      BY <2>2 DEF Tick, Pass
  <1>3. TypeOK'
    BY <1>1, <1>2 DEF PoolInv, TypeOK
  <1> QED
    BY <1>1, <1>3, SonStep DEF PoolInv

\* What the signals of kill_child leave: the living that were not ended, as they
\* were.
LEMMA EndsLeave ==
  ASSUME PoolInv, NEW S, Ends(S)
  PROVE  /\ son' \in [Pids -> SonType] /\ Alive' = Alive \ S
         /\ \A q \in Alive' : son'[q] = son[q]
  <1>1. son \in [Pids -> SonType]
    BY DEF PoolInv, TypeOK, SonType
  <1>2. son' \in [Pids -> SonType]
    BY <1>1, SonRecords DEF Ends
  <1>3. \A q \in Pids : son'[q] = IF q \in S /\ q \in Alive THEN Zombie ELSE son[q]
    BY DEF Ends
  <1>4. Alive' = Alive \ S
    BY <1>3, SonRecords DEF Alive
  <1> QED
    BY <1>2, <1>3, <1>4 DEF Alive

LEMMA TermInv ==
  ASSUME PoolInv, Term
  PROVE  PoolInv'
  <1>1. PICK S \in {{}, Target} :
           /\ Ends(S) /\ pc' = IF S # {} /\ pid[i] = NoPid THEN "down" ELSE "kill"
    BY DEF Term
  <1>2. /\ pc = "term" /\ why \in {"gone", "silent", "end"} /\ forked = NoPid
        /\ elapsed' = elapsed + TermSleep /\ UNCHANGED <<pid, i, why, forked>>
        /\ Pass(TermSleep, elapsed + TermSleep)
    BY DEF Term, PoolInv, ParentPlace
  <1>3. /\ son' \in [Pids -> SonType] /\ Alive' = Alive \ S
        /\ \A q \in Alive' : son'[q] = son[q]
    BY <1>1, EndsLeave
  <1>4. i \in Nat /\ i < Count /\ Count \in Nat /\ TermSleep \in Nat /\ elapsed \in Nat
    BY PoolConstants DEF Slots, PoolInv, TypeOK
  <1>5. /\ Restarts \in {2 * i, 2 * i + 1} /\ elapsed <= Restarts * TermSleep
        /\ Restarts' = Restarts + 1
    <2>1. pc' # "term"
      BY <1>1
    <2> QED
      BY <1>2, <1>4, <2>1 DEF PoolInv, ParentPlace, Restarts
  <1>6. /\ elapsed' \in Nat /\ elapsed' <= Restarts' * TermSleep
        /\ elapsed' \in 0 .. MaxElapsed
    <2>1. PICK m \in Nat, n \in Nat : m = Restarts /\ n = Restarts' /\ n = m + 1 /\ n <= 2 * Count
      <3>1. Restarts \in Nat /\ Restarts + 1 \in Nat /\ Restarts + 1 <= 2 * Count
        BY <1>4, <1>5
      <3> QED
        BY <1>5, <3>1
    <2>2. n * TermSleep = m * TermSleep + TermSleep /\ m * TermSleep \in Nat
      BY <2>1, Sleeps
    <2>3. elapsed' \in Nat /\ elapsed' <= n * TermSleep
      BY <1>2, <1>4, <1>5, <2>1, <2>2
    <2> QED
      BY <2>1, <2>3, PassBounded
  <1>7. life' \in [Slots -> 0 .. MaxAge(MaxElapsed)]
    <2>1. \A s \in Slots : life[s] \in Nat
      BY ElapsedRange DEF PoolInv, TypeOK, MaxAge
    <2>2. \A s \in Slots : Older(life[s], TermSleep, elapsed') \in 0 .. MaxAge(MaxElapsed)
      BY <1>4, <1>6, <2>1, ElapsedRange, AgesPass
    <2> QED
      BY <1>2, <2>2 DEF Pass
  <1>8. TypeOK'
    BY <1>1, <1>2, <1>3, <1>6, <1>7 DEF PoolInv, TypeOK, SonType
  <1>9. ParentPlace'
    BY <1>1, <1>2, <1>6 DEF PoolInv, ParentPlace
  <1>10. TableRight'
    BY <1>1, <1>2, <1>3 DEF PoolInv, TableRight
  <1>11. Vacant'
    <2>1. \A q \in Alive' : q \in Alive /\ son'[q] = son[q]
      BY <1>3
    <2>2. pc' = "down" => Alive' = {}
      BY <1>1, <1>3 DEF Target, Alive
    <2> QED
      BY <1>1, <1>2, <2>1, <2>2 DEF PoolInv, Vacant
  <1> QED
    BY <1>8, <1>9, <1>10, <1>11 DEF PoolInv

LEMMA KillInv ==
  ASSUME PoolInv, Kill
  PROVE  PoolInv'
  <1>1. /\ pc = "kill" /\ why \in {"gone", "silent", "end"} /\ forked = NoPid
        /\ Ends(Target) /\ UNCHANGED <<pid, forked>>
    BY DEF Kill, PoolInv, ParentPlace
  <1>2. /\ son' \in [Pids -> SonType] /\ Alive' = Alive \ Target
        /\ \A q \in Alive' : q \in Alive /\ son'[q] = son[q]
    BY <1>1, EndsLeave
  <1>3. /\ i \in Nat /\ i < Count /\ Count \in Nat /\ TermSleep \in Nat /\ elapsed \in Nat
        /\ i \in Slots
    BY PoolConstants DEF Slots, PoolInv, TypeOK
  <1>4. \A q \in Alive' : son'[q].slot # i
    <2> SUFFICES ASSUME NEW q \in Alive', son[q].slot = i
                 PROVE  FALSE
      BY <1>2
    <2>1. q \in Pids /\ pid[i] = q
      BY <1>1, <1>2, PoolConstants DEF PoolInv, TableRight, Alive
    <2> QED
      BY <1>2, <2>1 DEF Target
  <1>5. TableRight'
    <2>1. pc' # "start"
      BY <1>1 DEF Kill, Continue
    <2> QED
      BY <1>1, <1>2, <2>1 DEF PoolInv, TableRight
  <1>6. CASE pid[i] = NoPid
    <2>1. pc' = "down" /\ UNCHANGED <<life, i, why, elapsed>>
      BY <1>6 DEF Kill
    <2>2. Alive' = {}
      BY <1>2, <1>6 DEF Target, Alive
    <2>3. TypeOK'
      BY <1>1, <1>2, <2>1 DEF PoolInv, TypeOK, SonType
    <2>4. ParentPlace'
      <3>1. Restarts' = Restarts
        BY <1>1, <2>1 DEF Restarts
      <3> QED
        BY <1>1, <2>1, <3>1 DEF PoolInv, ParentPlace
    <2>5. Vacant'
      BY <2>1, <2>2 DEF Vacant
    <2> QED
      BY <1>5, <2>3, <2>4, <2>5 DEF PoolInv
  <1>7. life' \in [Slots -> 0 .. MaxAge(MaxElapsed)]
    BY <1>3, ElapsedRange, PoolConstants DEF Kill, PoolInv, TypeOK, MaxAge
  <1>8. CASE pid[i] # NoPid /\ why # "end"
    <2>1. pc' = "fork" /\ UNCHANGED <<i, why, elapsed>>
      BY <1>8 DEF Kill
    <2>2. TypeOK'
      BY <1>1, <1>2, <1>7, <2>1 DEF PoolInv, TypeOK, SonType
    <2>3. ParentPlace'
      <3>1. Restarts' = Restarts
        BY <1>1, <2>1 DEF Restarts
      <3> QED
        BY <1>1, <1>8, <2>1, <3>1 DEF PoolInv, ParentPlace
    <2>4. SonsOf(i)' = {}
      BY <1>4, <2>1 DEF SonsOf
    <2>5. Vacant'
      BY <1>1, <1>8, <2>1, <2>4 DEF Vacant
    <2> QED
      BY <1>5, <2>2, <2>3, <2>5 DEF PoolInv
  <1>9. CASE pid[i] # NoPid /\ why = "end"
    <2>1. Continue
      BY <1>9 DEF Kill
    <2>2. elapsed <= (2 * i + 2) * TermSleep
      <3>1. elapsed <= (2 * i + 1) * TermSleep
        BY <1>1, <1>9 DEF PoolInv, ParentPlace, Restarts
      <3>2. PICK m \in Nat, n \in Nat : m = 2 * i + 1 /\ n = 2 * i + 2 /\ m <= n
        BY <1>3
      <3>3. m * TermSleep <= n * TermSleep /\ m * TermSleep \in Nat /\ n * TermSleep \in Nat
        BY <3>2, Sleeps
      <3> QED
        BY <1>3, <3>1, <3>2, <3>3
    <2>3. /\ i' \in Slots /\ elapsed' \in 0 .. MaxElapsed
          /\ pc' \in {"idle", "look", "hear", "term", "kill", "fork", "start", "down"}
          /\ why' \in {"none", "init", "gone", "silent", "end"}
          /\ ParentPlace'
      BY <1>1, <1>9, <2>1, <2>2, ContinuePlace DEF PoolInv
    <2>4. TypeOK'
      BY <1>1, <1>2, <1>7, <2>3 DEF PoolInv, TypeOK, SonType
    <2>5. \A q \in Alive' : son'[q].slot \in Slots /\ son'[q].slot >= i + 1
      <3>1. \A q \in Alive' : son[q].slot \in Slots /\ son[q].slot >= i
        BY <1>2, <1>9 DEF PoolInv, Vacant, TypeOK, Alive
      <3> QED
        BY <1>2, <1>3, <1>4, <3>1 DEF Slots
    <2>6. Vacant'
      <3>1. CASE i + 1 < Count
        <4>1. pc' = "term" /\ why' = "end" /\ i' = i + 1
          BY <1>9, <2>1, <3>1 DEF Continue
        <4> QED
          BY <2>5, <4>1 DEF Vacant
      <3>2. CASE ~(i + 1 < Count)
        <4>1. pc' = "down" /\ why' = "none"
          BY <1>9, <2>1, <3>2 DEF Continue
        <4>2. Alive' = {}
          BY <1>3, <2>5, <3>2 DEF Slots
        <4> QED
          BY <4>1, <4>2 DEF Vacant
      <3> QED
        BY <3>1, <3>2
    <2> QED
      BY <1>5, <2>3, <2>4, <2>6 DEF PoolInv
  <1> QED
    BY <1>6, <1>8, <1>9

\* A son is made for an index that has none.
LEMMA ForkInv ==
  ASSUME PoolInv, Fork
  PROVE  PoolInv'
  <1>1. PICK p \in Pids : /\ p \notin Alive /\ son' = [son EXCEPT ![p] = NewSon(i)]
                          /\ forked' = p
    BY DEF Fork
  <1>2. /\ pc = "fork" /\ pc' = "start" /\ UNCHANGED <<pid, life, i, why, elapsed>>
        /\ why \in {"init", "gone", "silent"} /\ forked = NoPid /\ i \in Slots
    BY DEF Fork, PoolInv, ParentPlace, TypeOK
  <1>3. son \in [Pids -> SonType]
    BY DEF PoolInv, TypeOK, SonType
  <1>4. son' \in [Pids -> SonType]
    BY <1>1, <1>2, <1>3, SonRecords
  <1>5. /\ Alive' = Alive \cup {p} /\ \A q \in Alive : q # p /\ son'[q] = son[q]
        /\ son'[p].slot = i /\ ~son'[p].touching
    BY <1>1, <1>2, <1>3, SonRecords DEF Alive
  <1>6. TypeOK'
    BY <1>1, <1>2, <1>4 DEF PoolInv, TypeOK, SonType
  <1>7. ParentPlace'
    <2>1. Restarts' = Restarts
      BY <1>2 DEF Restarts
    <2> QED
      BY <1>1, <1>2, <2>1, PoolConstants DEF PoolInv, ParentPlace
  <1>8. TableRight'
    BY <1>1, <1>2, <1>5, PoolConstants DEF PoolInv, TableRight, Alive
  <1>9. Vacant'
    <2>1. SonsOf(i)' = {p}
      BY <1>2, <1>5 DEF SonsOf, PoolInv, Vacant
    <2> QED
      BY <1>1, <1>2, <1>5, <2>1, PoolConstants DEF PoolInv, Vacant, Alive
  <1> QED
    BY <1>6, <1>7, <1>8, <1>9 DEF PoolInv

LEMMA SetStartInfoInv ==
  ASSUME PoolInv, SetStartInfo
  PROVE  PoolInv'
  <1>1. /\ pc = "start" /\ why \in {"init", "gone", "silent"} /\ forked \in Pids
        /\ i \in Slots /\ pid' = [pid EXCEPT ![i] = forked] /\ life' = [life EXCEPT ![i] = 0]
        /\ forked' = NoPid /\ son' = son /\ Alive' = Alive /\ \A s : SonsOf(s)' = SonsOf(s)
    BY DEF SetStartInfo, PoolInv, ParentPlace, TypeOK, Alive, SonsOf
  <1>2. i \in Nat /\ i < Count /\ Count \in Nat /\ TermSleep \in Nat /\ elapsed \in Nat
    BY PoolConstants DEF Slots, PoolInv, TypeOK
  <1>3. /\ pid' \in [Slots -> Pids \cup {NoPid}]
        /\ life' \in [Slots -> 0 .. MaxAge(MaxElapsed)]
    BY <1>1, ElapsedRange, PoolConstants DEF PoolInv, TypeOK, MaxAge
  <1>4. \A p \in Alive : pid'[son[p].slot] = p /\ (son[p].touching => son[p].read = p)
    <2>1. \A p \in Alive : son[p].slot \in Slots /\ (son[p].slot = i <=> p = forked)
      BY <1>1 DEF PoolInv, Vacant, TableRight, SonsOf, Alive, TypeOK
    <2>2. pid \in [Slots -> Pids \cup {NoPid}]
      BY DEF PoolInv, TypeOK
    <2> QED
      BY <1>1, <2>1, <2>2 DEF PoolInv, TableRight
  <1>5. TableRight'
    <2>1. pc' # "start"
      BY <1>1 DEF SetStartInfo, Continue
    <2> QED
      BY <1>1, <1>4, <2>1 DEF TableRight
  <1>6. elapsed <= (2 * i + 2) * TermSleep /\ (why = "init" => elapsed = 0)
    <2>1. Restarts \in Nat /\ Restarts <= 2 * i + 2 /\ elapsed <= Restarts * TermSleep
      BY <1>1, <1>2 DEF PoolInv, ParentPlace, Restarts
    <2>2. PICK m \in Nat, n \in Nat : m = Restarts /\ n = 2 * i + 2 /\ m <= n
      BY <1>2, <2>1
    <2>3. m * TermSleep <= n * TermSleep /\ m * TermSleep \in Nat /\ n * TermSleep \in Nat
      BY <2>2, Sleeps
    <2>4. why = "init" => Restarts = 0
      BY DEF Restarts
    <2> QED
      BY <1>2, <2>1, <2>2, <2>3, <2>4
  <1>7. CASE why = "gone"
    <2>1. pc' = "hear" /\ UNCHANGED <<i, why, elapsed>>
      BY <1>7 DEF SetStartInfo
    <2>2. TypeOK'
      BY <1>1, <1>3, <2>1 DEF PoolInv, TypeOK
    <2>3. ParentPlace'
      <3>1. Restarts' = Restarts
        BY <1>1, <2>1 DEF Restarts
      <3> QED
        BY <1>1, <1>7, <2>1, <3>1 DEF PoolInv, ParentPlace
    <2>4. Vacant'
      BY <1>7, <2>1 DEF Vacant
    <2> QED
      BY <1>5, <2>2, <2>3, <2>4 DEF PoolInv
  <1>8. CASE why # "gone"
    <2>1. Continue
      BY <1>8 DEF SetStartInfo
    <2>2. /\ i' \in Slots /\ elapsed' \in 0 .. MaxElapsed
          /\ pc' \in {"idle", "look", "hear", "term", "kill", "fork", "start", "down"}
          /\ why' \in {"none", "init", "gone", "silent", "end"}
          /\ ParentPlace'
      BY <1>1, <1>6, <2>1, ContinuePlace DEF PoolInv
    <2>3. TypeOK'
      BY <1>1, <1>3, <2>2 DEF PoolInv, TypeOK
    <2>4. Vacant'
      <3>1. CASE why = "init" /\ i + 1 < Count
        <4>1. pc' = "fork" /\ why' = "init" /\ i' = i + 1
          BY <2>1, <3>1 DEF Continue
        <4>2. \A p \in Alive : son[p].slot \in Nat /\ son[p].slot < i + 1
          <5>1. \A p \in Alive : son[p].slot \in Slots /\ (son[p].slot = i \/ p # forked)
            BY <1>1 DEF PoolInv, TypeOK, Alive, TableRight
          <5> QED
            BY <1>2, <3>1, <5>1 DEF PoolInv, Vacant, Slots
        <4>3. SonsOf(i + 1) = {}
          BY <1>2, <4>2 DEF SonsOf
        <4> QED
          BY <1>1, <4>1, <4>2, <4>3 DEF Vacant
      <3>2. CASE ~(why = "init" /\ i + 1 < Count)
        <4>1. pc' \in {"look", "idle"} /\ why' = "none"
          BY <1>1, <2>1, <3>2 DEF Continue
        <4> QED
          BY <4>1 DEF Vacant
      <3> QED
        BY <3>1, <3>2
    <2> QED
      BY <1>5, <2>2, <2>3, <2>4 DEF PoolInv
  <1> QED
    BY <1>7, <1>8

\* Every step of the parent, of a son and of time keeps PoolInv, if sons run when
\* fork has returned in the parent.
LEMMA PoolNextInv ==
  ASSUME ~EarlyTouch, PoolInv, [Next]_ppVars
  PROVE  PoolInv'
  <1>1. CASE UNCHANGED ppVars
    BY <1>1 DEF ppVars, PoolInv, TypeOK, ParentPlace, Restarts, TableRight, Vacant, Alive,
                SonsOf
  <1> QED
    BY <1>1, LookInv, HearInv, TickInv, TermInv, KillInv, ForkInv, SetStartInfoInv, TouchInv,
       TouchStoreInv, HangInv, DieReapInv
    DEF Next, Parent

\* Two sons of one index would have the same pid in the table, or one of them would
\* be the one that fork has just made for an index without a son.
LEMMA PoolInvExact ==
  ASSUME PoolInv
  PROVE  SonsExact /\ GoneMeansGone
  <1>1. ASSUME NEW s \in Slots, NEW p \in SonsOf(s), NEW q \in SonsOf(s)
        PROVE  p = q
    <2>1. p \in Alive /\ q \in Alive /\ son[p].slot = s /\ son[q].slot = s
      BY <1>1 DEF SonsOf
    <2>2. CASE p # forked /\ q # forked
      BY <2>1, <2>2 DEF PoolInv, TableRight
    <2>3. CASE p = forked \/ q = forked
      <3>1. pc = "start" /\ s = i
        BY <2>1, <2>3, PoolConstants DEF PoolInv, ParentPlace, TableRight, Alive
      <3> QED
        BY <1>1, <3>1 DEF PoolInv, Vacant
    <2> QED
      BY <2>2, <2>3
  <1>2. ASSUME NEW s \in Slots
        PROVE  Cardinality(SonsOf(s)) <= 1
    <2>1. CASE SonsOf(s) = {}
      BY <2>1, FS_EmptySet
    <2>2. CASE SonsOf(s) # {}
      <3>1. PICK p : SonsOf(s) = {p}
        BY <1>1, <2>2
      <3> QED
        BY <3>1, FS_Singleton
    <2> QED
      BY <2>1, <2>2
  <1> QED
    BY <1>2 DEF PoolInv, Vacant, SonsExact, OneSonEach, NoneLeft, GoneMeansGone

\* HProcessPool, with sons that run when fork has returned: an index never has two
\* sons, and after the destructor none is left.
THEOREM PoolSonsExact ==
  ASSUME ~EarlyTouch
  PROVE  Spec => []SonsExact
  <1>1. Init => PoolInv
    BY PoolInitInv
  <1>2. PoolInv /\ [Next]_ppVars => PoolInv'
    BY PoolNextInv
  <1>3. PoolInv => SonsExact
    BY PoolInvExact
  <1> QED
    BY <1>1, <1>2, <1>3, PTL DEF Spec

\* A step of the composition is one of the pool, or leaves it alone.
LEMMA PoolPart ==
  ASSUME [ProcNext]_<<part, ppVars, appVars, sgVars>>
  PROVE  [Next]_ppVars
  BY DEF ProcNext

\* The same in the composition that the run checks.
THEOREM SonsAlways ==
  ASSUME ~EarlyTouch
  PROVE  ProcSpec => []SonsExact
  <1>1. ProcInit => PoolInv
    BY PoolInitInv DEF ProcInit
  <1>2. PoolInv /\ [ProcNext]_<<part, ppVars, appVars, sgVars>> => PoolInv'
    BY PoolNextInv, PoolPart
  <1>3. PoolInv => SonsExact
    BY PoolInvExact
  <1> QED
    BY <1>1, <1>2, <1>3, PTL DEF ProcSpec

-----------------------------------------------------------------------------
(* Restarts for silence *)

\* The bound of PassShort, where the parent can be.
LEMMA ShortPass ==
  ASSUME PoolInv, PassShort, Count * TermSleep <= MaxHear
  PROVE  /\ elapsed \in Nat /\ elapsed <= MaxHear
         /\ i \in Nat /\ elapsed <= (i + 1) * TermSleep
  <1>1. /\ i \in Nat /\ i + 1 <= Count /\ Count \in Nat /\ TermSleep \in Nat /\ MaxHear \in Nat
        /\ elapsed \in Nat
    BY PoolConstants DEF PoolInv, TypeOK, Slots
  <1>2. PICK m \in Nat : m = i + 1 /\ m <= Count
    BY <1>1
  <1>3. /\ i * TermSleep \in Nat /\ m * TermSleep \in Nat /\ Count * TermSleep \in Nat
        /\ i * TermSleep <= m * TermSleep /\ m * TermSleep <= Count * TermSleep
    BY <1>1, <1>2, Sleeps
  <1>4. elapsed <= i * TermSleep \/ elapsed <= m * TermSleep
    BY <1>2 DEF PassShort
  <1> QED
    BY <1>1, <1>2, <1>3, <1>4

\* Silence is found only of a son that was silent: nt is not older than MaxHear.
LEMMA SilentIs ==
  ASSUME PoolInv, PassShort, Count * TermSleep <= MaxHear, pc = "hear", Silent(i)
  PROVE  life[i] > MaxHear /\ why = "none"
  <1>1. /\ elapsed \in Nat /\ elapsed <= MaxHear /\ MaxHear \in Nat
        /\ life[i] \in Nat
    BY ShortPass, ElapsedRange, PoolConstants DEF PoolInv, TypeOK, MaxAge
  <1>2. life[i] > MaxHear
    BY <1>1 DEF Silent, Abs
  <1>3. why # "gone"
    BY <1>1, <1>2 DEF PassShort
  <1> QED
    BY <1>2, <1>3 DEF PoolInv, ParentPlace

LEMMA PassShortNext ==
  ASSUME PoolInv, PassShort, Count * TermSleep <= MaxHear, [Next]_ppVars
  PROVE  PassShort'
  <1>1. /\ elapsed \in Nat /\ elapsed <= MaxHear /\ i \in Nat /\ i < Count /\ i \in Slots
        /\ elapsed <= (i + 1) * TermSleep /\ TermSleep \in Nat /\ Count \in Nat
    BY ShortPass, PoolConstants DEF PoolInv, TypeOK, Slots
  <1>2. ASSUME Continue
        PROVE  PassShort'
    <2>1. CASE i + 1 < Count
      <3>1. i' = i + 1 /\ elapsed' = elapsed
        BY <1>1, <1>2, <2>1 DEF Continue
      <3>2. /\ why' \in {"none", "end"} => why' = "none" \/ pc' = "term"
            /\ why' \in {"none", "end", "init"} /\ (why' = "init" => why = "init")
            /\ pc' # "hear"
        BY <1>2, <2>1 DEF Continue, PoolInv, TypeOK
      <3>3. why = "init" => elapsed = 0
        BY <1>1 DEF PoolInv, ParentPlace, Restarts
      <3>4. (i' + 1) * TermSleep \in Nat
        BY <1>1, <3>1
      <3> QED
        BY <1>1, <3>1, <3>2, <3>3, <3>4 DEF PassShort
    <2>2. CASE ~(i + 1 < Count)
      <3>1. i' = 0 /\ elapsed' = 0 /\ pc' \in {"down", "idle"} /\ why' = "none"
        BY <1>1, <1>2, <2>2 DEF Continue, PoolInv, TypeOK
      <3> QED
        BY <1>1, <3>1 DEF PassShort
    <2> QED
      BY <2>1, <2>2
  <1>3. CASE ManagePool \/ Destroy
    BY <1>1, <1>3 DEF ManagePool, Destroy, PassShort, PoolInv, ParentPlace
  <1>4. CASE Look
    BY <1>4 DEF Look, PassShort, PoolInv, ParentPlace
  <1>5. CASE Hear
    <2>1. CASE Silent(i)
      BY <1>5, <2>1, SilentIs DEF Hear, PassShort
    <2> QED
      BY <1>2, <1>5, <2>1 DEF Hear
  <1>6. CASE Term
    <2>1. /\ elapsed <= i * TermSleep /\ elapsed' = elapsed + TermSleep
          /\ UNCHANGED <<i, why>> /\ pc' \in {"kill", "down"} /\ why # "none"
      BY <1>6 DEF Term, PassShort, PoolInv, ParentPlace
    <2>2. (i + 1) * TermSleep = i * TermSleep + TermSleep /\ i * TermSleep \in Nat
      BY <1>1, Sleeps
    <2>3. elapsed' <= (i' + 1) * TermSleep
      BY <1>1, <2>1, <2>2
    <2> QED
      BY <2>1, <2>3 DEF PassShort
  <1>7. CASE Kill
    <2>1. why # "none" /\ pc = "kill"
      BY <1>7 DEF Kill, PoolInv, ParentPlace
    <2> QED
      BY <1>2, <1>7, <2>1 DEF Kill, PassShort
  <1>8. CASE Fork
    BY <1>8 DEF Fork, PassShort, PoolInv, ParentPlace
  <1>9. CASE SetStartInfo
    <2>1. CASE why = "gone"
      <3>1. life \in [Slots -> 0 .. MaxAge(MaxElapsed)] /\ pc = "start"
        BY <1>9 DEF PoolInv, TypeOK, SetStartInfo
      <3> QED
        BY <1>1, <1>9, <2>1, <3>1 DEF SetStartInfo, PassShort
    <2> QED
      BY <1>2, <1>9, <2>1 DEF SetStartInfo
  <1>10. CASE Tick
    BY <1>10 DEF Tick, PassShort
  <1>11. ASSUME NEW p \in Pids,
                Touch(p) \/ TouchStore(p) \/ Hang(p) \/ Die(p) \/ Reap(p)
         PROVE  PassShort'
    <2>1. UNCHANGED <<pc, i, why, elapsed>> /\ (life[i] = 0 => life'[i] = 0)
      BY <1>1, <1>11 DEF Touch, TouchStore, Hang, Die, Reap, PoolInv, TypeOK
    <2> QED
      BY <2>1 DEF PassShort
  <1>12. CASE UNCHANGED ppVars
    BY <1>12 DEF ppVars, PassShort
  <1> QED
    BY <1>3, <1>4, <1>5, <1>6, <1>7, <1>8, <1>9, <1>10, <1>11, <1>12 DEF Next, Parent

\* HProcessPool, if the restarts of all sons take no longer than MAX_HEAR_TIME (up to
\* 15 sons of 2 s each, of 30 s): a son is restarted only if it is gone, or if
\* nothing was heard of it for longer than MAX_HEAR_TIME.
THEOREM RestartsAlways ==
  ASSUME ~EarlyTouch, Count * TermSleep <= MaxHear
  PROVE  ProcSpec => RestartsJustified
  <1>1. ProcInit => PoolInv /\ PassShort
    <2> SUFFICES ASSUME ProcInit PROVE PoolInv /\ PassShort
      OBVIOUS
    <2>1. Init
      BY DEF ProcInit
    <2>2. PassShort
      BY <2>1, PoolConstants DEF Init, PassShort
    <2> QED
      BY <2>1, <2>2, PoolInitInv
  <1>2. PoolInv /\ PassShort /\ [ProcNext]_<<part, ppVars, appVars, sgVars>>
          => PoolInv' /\ PassShort'
    BY PoolNextInv, PassShortNext, PoolPart
  <1>3. PoolInv => GoneMeansGone
    BY PoolInvExact
  <1>4. PoolInv /\ PassShort /\ [ProcNext]_<<part, ppVars, appVars, sgVars>>
          => [pc = "hear" /\ pc' = "term" => life[i] > MaxHear]_ppVars
    <2> SUFFICES ASSUME PoolInv, PassShort, [ProcNext]_<<part, ppVars, appVars, sgVars>>,
                        pc = "hear", pc' = "term"
                 PROVE  life[i] > MaxHear
      OBVIOUS
    <2>1. [Next]_ppVars
      BY PoolPart
    <2>2. Hear
      BY <2>1 DEF Next, Parent, ManagePool, Look, Term, Kill, Fork, SetStartInfo, Destroy, Tick,
                  Touch, TouchStore, Hang, Die, Reap, ppVars
    <2>3. Silent(i)
      BY <2>2 DEF Hear, Continue, PoolInv, ParentPlace
    <2> QED
      BY <2>3, SilentIs
  <1> QED
    BY <1>1, <1>2, <1>3, <1>4, PTL DEF ProcSpec, RestartsJustified, SilentMeansSilent

-----------------------------------------------------------------------------
(* AppStart *)

Places == {"off", "signals", "gapp", "log", "fork1", "fork2", "pidfile", "pid", "test",
           "lock", "run"}

AppTypes ==
    /\ pids \in Nat /\ apc \in [Instances -> Places]
    /\ apid \in [Instances -> 0 .. pids] /\ m_pid \in [Instances -> 0 .. pids]
    /\ gapp \in [Instances -> BOOLEAN] /\ m_bRunning \in [Instances -> BOOLEAN]
    /\ told \in [Instances -> BOOLEAN]
    /\ holder \in 0 .. pids /\ pidfile \in 0 .. pids

\* A living process has a pid of its own, and no other is cached for it; the lock is
\* held by a process that runs, and by every one that runs with it configured.
AppInv ==
    /\ AppTypes
    /\ \A n \in Instances : apc[n] # "off" <=> apid[n] # 0
    /\ \A n, k \in Instances : apid[n] = apid[k] /\ apid[n] # 0 => n = k
    /\ \A n \in Instances : m_pid[n] \in {0, apid[n]}
    /\ \A n \in Instances : apc[n] \in {"test", "lock"} => conf.applock
    /\ \A n \in Instances : apc[n] = "run" /\ conf.applock => holder = apid[n]
    /\ \A n \in Instances : holder # 0 /\ holder = apid[n] => apc[n] = "run"

\* One instance alone: what it wrote into the pid file stays.
FileInv == \A n \in Instances : apc[n] \in {"test", "lock", "run"} => pidfile = apid[n]

LEMMA AppInitInv ==
  ASSUME App!Init
  PROVE  AppInv /\ FileInv
  BY DEF App!Init, AppInv, AppTypes, FileInv, Places

\* A process ends: nobody else has its pid, so only its own lock is dropped.
LEMMA EndInv ==
  ASSUME AppInv, NEW n \in Instances, App!Alive(n), App!End(n),
         UNCHANGED <<conf, pidfile, pids, starts>>
  PROVE  /\ AppInv'
         /\ FileInv => FileInv'
  <1>1. /\ apc' = [apc EXCEPT ![n] = "off"] /\ apid' = [apid EXCEPT ![n] = 0]
        /\ m_pid' = [m_pid EXCEPT ![n] = 0] /\ gapp' = [gapp EXCEPT ![n] = FALSE]
        /\ told' = [told EXCEPT ![n] = FALSE]
        /\ m_bRunning' = [m_bRunning EXCEPT ![n] = TRUE]
        /\ holder' = IF holder = apid[n] THEN 0 ELSE holder
    BY DEF App!End, App!Set
  <1>2. AppTypes'
    BY <1>1 DEF AppInv, AppTypes, Places
  <1> QED
    BY <1>1, <1>2 DEF AppInv, AppTypes, FileInv, App!Alive

\* Steps of Init that change neither pids nor the lock.
LEMMA AppSteps ==
  ASSUME AppInv, NEW n \in Instances,
         \/ App!SetupSignal(n) \/ App!SetGapp(n) \/ App!SetupLog(n) \/ App!OutOpen(n)
         \/ App!WriteFromString(n)
  PROVE  AppInv'
  <1> USE DEF App!Goto, App!Set, App!procVars, AppInv, AppTypes, Places
  <1>1. CASE App!SetupSignal(n)
    BY <1>1 DEF App!SetupSignal
  <1>2. CASE App!SetGapp(n)
    BY <1>2 DEF App!SetGapp
  <1>3. CASE App!SetupLog(n)
    <2>1. /\ apc[n] = "log" /\ apc' = [apc EXCEPT ![n] = apc'[n]]
          /\ apc'[n] \in {"fork1", "pidfile"}
          /\ m_pid' = [m_pid EXCEPT ![n] = m_pid'[n]] /\ m_pid'[n] \in {0, apid[n]}
          /\ UNCHANGED <<conf, apid, gapp, m_bRunning, told, holder, pidfile, pids, starts>>
      BY <1>3 DEF App!SetupLog, App!HGetPid
    <2>2. AppTypes'
      BY <2>1
    <2> QED
      BY <2>1, <2>2
  <1>4. CASE App!OutOpen(n)
    BY <1>4 DEF App!OutOpen
  <1>5. CASE App!WriteFromString(n)
    <2>1. /\ apc[n] = "pid" /\ apc' = [apc EXCEPT ![n] = apc'[n]]
          /\ IF conf.applock THEN apc'[n] = "test" ELSE apc'[n] = "run"
          /\ pidfile' = apid[n]
          /\ UNCHANGED <<conf, apid, m_pid, gapp, m_bRunning, told, holder, pids, starts>>
      BY <1>5 DEF App!WriteFromString
    <2>2. AppTypes'
      BY <2>1
    <2> QED
      BY <2>1, <2>2
  <1> QED
    BY <1>1, <1>2, <1>3, <1>4, <1>5

\* Steps that give a process a new pid: exec, and the forks of a daemon.
LEMMA AppPids ==
  ASSUME AppInv, NEW n \in Instances, App!Start(n) \/ App!Fork(n)
  PROVE  AppInv'
  <1> USE DEF App!Goto, App!Set, AppInv, AppTypes, Places
  <1>1. CASE App!Start(n)
    BY <1>1 DEF App!Start, App!Alive
  <1>2. CASE App!Fork(n)
    <2>1. CASE UNCHANGED <<pids, apid, m_pid>>
      BY <1>2, <2>1 DEF App!Fork
    <2>2. CASE /\ pids' = pids + 1 /\ apid' = [apid EXCEPT ![n] = pids + 1]
               /\ m_pid' = [m_pid EXCEPT ![n] = App!AtForkChild(n, pids + 1)]
      <3>1. m_pid' = [m_pid EXCEPT ![n] = m_pid'[n]] /\ m_pid'[n] \in {0, pids + 1}
        BY <2>2 DEF App!AtForkChild
      <3>2. /\ apc[n] \in {"fork1", "fork2"} /\ apc' = [apc EXCEPT ![n] = apc'[n]]
            /\ apc'[n] \in {"fork2", "pidfile"}
            /\ UNCHANGED <<conf, gapp, m_bRunning, told, holder, pidfile, starts>>
        BY <1>2 DEF App!Fork
      <3>3. AppTypes'
        BY <2>2, <3>1, <3>2
      <3>4. apid'[n] = pids + 1 /\ \A k \in Instances : k # n => apid'[k] = apid[k]
        BY <2>2
      <3> QED
        BY <3>1, <3>2, <3>3, <3>4
    <2> QED
      BY <1>2, <2>1, <2>2 DEF App!Fork
  <1> QED
    BY <1>1, <1>2

\* Every step of an instance keeps AppInv.
LEMMA AppNextInv ==
  ASSUME AppInv, [App!Next]_appVars
  PROVE  AppInv'
  <1>1. ASSUME NEW n \in Instances, App!LockTest(n)
        PROVE  AppInv'
    <2>1. CASE holder = 0
      BY <1>1, <2>1 DEF App!LockTest, App!Goto, App!Set, App!procVars, AppInv, AppTypes, Places
    <2>2. CASE holder # 0
      BY <1>1, <2>2, EndInv DEF App!LockTest, App!Alive
    <2> QED
      BY <2>1, <2>2
  <1>2. ASSUME NEW n \in Instances, App!Lock(n)
        PROVE  AppInv'
    BY <1>2 DEF App!Lock, App!Goto, App!Set, App!procVars, AppInv, AppTypes, Places
  <1>3. ASSUME NEW n \in Instances, App!Run(n) \/ App!Die(n)
        PROVE  AppInv'
    BY <1>3, EndInv DEF App!Run, App!Die, App!Alive
  <1>4. ASSUME NEW n \in Instances, App!Signal(n)
        PROVE  AppInv'
    <2>1. CASE apc[n] = "signals"
      BY <1>4, <2>1, EndInv DEF App!Signal
    <2>2. CASE apc[n] # "signals"
      <3>1. /\ told' = [told EXCEPT ![n] = TRUE]
            /\ m_bRunning' = [m_bRunning EXCEPT ![n] = m_bRunning[n] /\ ~gapp[n]]
            /\ UNCHANGED <<conf, apc, apid, m_pid, gapp, holder, pidfile, pids, starts>>
        BY <1>4, <2>2 DEF App!Signal, App!Set
      <3>2. told' \in [Instances -> BOOLEAN] /\ m_bRunning' \in [Instances -> BOOLEAN]
        BY <3>1 DEF AppInv, AppTypes
      <3> QED
        BY <3>1, <3>2 DEF AppInv, AppTypes
    <2> QED
      BY <2>1, <2>2
  <1>5. CASE UNCHANGED appVars
    BY <1>5 DEF appVars, AppInv, AppTypes
  <1> QED
    BY <1>1, <1>2, <1>3, <1>4, <1>5, AppSteps, AppPids DEF App!Next, App!Step

\* Nobody but the one instance is started.
Alone == \A n \in Instances \ {Single} : apc[n] = "off"

\* Then nobody else writes the pid file.
LEMMA FileNextInv ==
  ASSUME AppInv, FileInv, Alone, [AloneNext]_appVars
  PROVE  FileInv' /\ Alone'
  <1>0. Alone'
    BY DEF Alone, AloneNext, appVars
  <1> SUFFICES ASSUME NEW n \in Instances, apc'[n] \in {"test", "lock", "run"}
               PROVE  pidfile' = apid'[n]
    BY <1>0 DEF FileInv
  <1>a. n = Single
    BY <1>0 DEF Alone
  <1>b. ASSUME NEW k \in Instances, App!Start(k) \/ App!Step(k) \/ App!Signal(k) \/ App!Die(k)
        PROVE  k = n
    <2> SUFFICES ASSUME k # n PROVE FALSE
      OBVIOUS
    <2>1. apc[k] = "off" /\ apc'[k] = "off"
      BY <1>0, <1>a DEF Alone
    <2>2. App!Start(k)
      BY <1>b, <2>1 DEF App!Step, App!SetupSignal, App!SetGapp, App!SetupLog, App!Fork, App!OutOpen,
                App!WriteFromString, App!LockTest, App!Lock, App!Run, App!Signal, App!Die, App!Alive
    <2> QED
      BY <2>1, <2>2 DEF App!Start, App!Goto, App!Set, AppInv, AppTypes
  <1>1. CASE App!WriteFromString(n)
    BY <1>1 DEF App!WriteFromString, App!procVars
  <1>2. CASE (App!LockTest(n) /\ holder = 0) \/ App!Lock(n)
    BY <1>2 DEF App!LockTest, App!Lock, App!procVars, FileInv
  <1>3. CASE App!Signal(n) /\ apc[n] # "signals"
    BY <1>3 DEF App!Signal, FileInv
  <1>4. CASE UNCHANGED appVars
    BY <1>4 DEF appVars, FileInv
  <1>5. CASE \/ App!LockTest(n) /\ holder # 0
             \/ App!Signal(n) /\ apc[n] = "signals"
             \/ App!Run(n) \/ App!Die(n)
    BY <1>5 DEF App!LockTest, App!Signal, App!Run, App!Die, App!End, App!Set, AppInv, AppTypes
  <1>6. CASE \/ App!Start(n) \/ App!SetupSignal(n) \/ App!SetGapp(n) \/ App!SetupLog(n)
             \/ App!Fork(n) \/ App!OutOpen(n)
    BY <1>6 DEF App!Start, App!SetupSignal, App!SetGapp, App!SetupLog, App!Fork, App!OutOpen,
                App!Goto, App!Set, AppInv, AppTypes
  <1> QED
    BY <1>b, <1>1, <1>2, <1>3, <1>4, <1>5, <1>6 DEF AloneNext, App!Next, App!Step

\* The instance has the number of elements of the standard module.
LEMMA AppCardinality == \A S : App!Cardinality(S) = Cardinality(S)
  BY DEF App!Cardinality, Cardinality

LEMMA AppInvExact ==
  ASSUME AppInv
  PROVE  App!TypeOK /\ App!CachedPid /\ App!OneRuns
  <1>1. App!TypeOK
    BY DEF AppInv, AppTypes, Places, App!TypeOK, App!Alive
  <1>2. App!CachedPid
    BY DEF AppInv, App!CachedPid
  <1>3. App!OneRuns
    <2> DEFINE R == {n \in Instances : apc[n] = "run"}
    <2> SUFFICES ASSUME conf.applock PROVE Cardinality(R) <= 1
      BY AppCardinality DEF App!OneRuns
    <2>1. \A n, k \in R : n = k
      BY DEF AppInv
    <2>2. CASE R = {}
      BY <2>2, FS_EmptySet
    <2>3. CASE R # {}
      <3>1. PICK n : R = {n}
        BY <2>1, <2>3
      <3> QED
        BY <3>1, FS_Singleton
    <2> QED
      BY <2>2, <2>3
  <1> QED
    BY <1>1, <1>2, <1>3

\* A step of the composition is one of the application, or leaves it alone.
LEMMA AppPart ==
  ASSUME [ProcNext]_<<part, ppVars, appVars, sgVars>>
  PROVE  [App!Next]_appVars /\ part' = part /\ (part = "alone" => [AloneNext]_appVars)
  BY DEF ProcNext, AloneNext

\* HApp with any number of instances: one runs at a time if the application lock is
\* configured, and HGetPid never answers the pid of a parent that has exited.
THEOREM OneRunsAlways == ProcSpec => []OneRuns
  <1>1. ProcInit => AppInv
    BY AppInitInv DEF ProcInit
  <1>2. AppInv /\ [ProcNext]_<<part, ppVars, appVars, sgVars>> => AppInv'
    BY AppPart, AppNextInv
  <1>3. AppInv => OneRuns
    BY AppInvExact DEF OneRuns
  <1> QED
    BY <1>1, <1>2, <1>3, PTL DEF ProcSpec

\* HApp with one instance that is started, however often it is started, stopped and
\* killed: the pid file names the process that runs.
THEOREM PidsAlways == ProcSpec => []PidsRight
  <1> DEFINE AloneInv == part = "alone" => FileInv /\ Alone
  <1>1. ProcInit => AppInv /\ AloneInv
    <2>1. App!Init => Alone
      BY DEF App!Init, Alone
    <2> QED
      BY <2>1, AppInitInv DEF ProcInit
  <1>2. AppInv /\ AloneInv /\ [ProcNext]_<<part, ppVars, appVars, sgVars>>
          => AppInv' /\ AloneInv'
    BY AppPart, AppNextInv, FileNextInv
  <1>3. AppInv /\ AloneInv => PidsRight
    BY AppInvExact DEF PidsRight, FileInv, App!PidFileNamesIt
  <1> QED
    BY <1>1, <1>2, <1>3, PTL DEF ProcSpec
=============================================================================
