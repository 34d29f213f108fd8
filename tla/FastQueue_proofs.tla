-------------------------- MODULE FastQueue_proofs --------------------------
(***************************************************************************)
(* HSingleFastQueue for every size and every set of values: the inductive  *)
(* invariant of the ring, the safety properties that follow from it, and   *)
(* the refinement of the bounded FIFO.                                     *)
(***************************************************************************)
EXTENDS FastQueue, SequenceTheorems, TLAPS

ProducerAt(S) == pc["producer"] \in S
ConsumerAt(S) == pc["consumer"] \in S

Popping == {"pop_destroy", "pop_store"}
Getting == {"move", "destroy", "store"}

\* Where each thread may be, and what it has established by then.
ControlInv ==
    /\ ProducerAt({"idle", "construct", "publish", "have_read", "have_write"})
    /\ ConsumerAt({"idle", "have_read", "have_write"} \cup Getting \cup Popping)
    /\ ProducerAt({"construct", "publish"}) =>
          /\ NextPos(m_write_index) # m_read_index
          /\ arg \in Values
          /\ told["producer"] = "nothing" /\ guess["producer"] = -1
    /\ ConsumerAt(Getting \cup Popping) =>
          /\ m_read_index # m_write_index
          /\ told["consumer"] = "nothing" /\ guess["consumer"] = -1
    /\ ~alive => ProducerAt({"idle"}) /\ ConsumerAt({"idle"})

\* What the k-th slot after the read index holds.
SlotInv(k) ==
    LET d == m_data[SlotAt(m_read_index, k)]
    IN IF k <= TrueSize
       THEN IF k = 1 /\ ConsumerAt({"destroy", "store"})
            THEN d = Moved ELSE d \in Values
       ELSE IF k = TrueSize + 1 /\ ProducerAt({"publish"})
            THEN d = arg ELSE d = Raw

DataInv ==
    alive => /\ \A k \in 1 .. Size - 1 : SlotInv(k)
             /\ ConsumerAt({"store", "pop_store"}) => m_data[m_read_index] = Raw

\* How far the index an observer holds can be from the present one.
LoadedInv ==
    /\ ProducerAt({"have_write"}) => loaded["producer"] = m_write_index
    /\ ConsumerAt({"have_read"}) => loaded["consumer"] = m_read_index
    /\ ProducerAt({"have_read"}) =>
          TrueSize <= Distance(loaded["producer"], m_write_index)
    /\ ConsumerAt({"have_write"}) =>
          Distance(m_read_index, loaded["consumer"]) <= TrueSize

IInv == TypeOK /\ ControlInv /\ DataInv /\ LoadedInv
            /\ GuestSizeBounds /\ AnswersStay

-----------------------------------------------------------------------------
(* The arithmetic of the ring. *)

LEMMA SlotAtIsSlot ==
  ASSUME NEW r \in Slots, NEW k \in 0 .. Size - 1
  PROVE  SlotAt(r, k) \in Slots
BY SizeAssumption DEF SlotAt, Slots

\* Slots at different distances are different.
LEMMA SlotAtInjective ==
  ASSUME NEW r \in Slots, NEW j \in 0 .. Size - 1, NEW k \in 0 .. Size - 1,
         SlotAt(r, j) = SlotAt(r, k)
  PROVE  j = k
BY SizeAssumption DEF SlotAt, Slots

\* Advancing the write index makes the queue one longer, in the slot after it.
LEMMA WriteAdvances ==
  ASSUME NEW r \in Slots, NEW w \in Slots, NextPos(w) # r
  PROVE  /\ NextPos(w) \in Slots
         /\ Distance(r, NextPos(w)) = Distance(r, w) + 1
         /\ Distance(r, w) \in 0 .. Size - 2
         /\ NextPos(w) = SlotAt(r, Distance(r, w) + 1)
BY SizeAssumption DEF SlotAt, Slots, NextPos, Distance

\* Advancing the read index makes it one shorter and renumbers the slots.
LEMMA ReadAdvances ==
  ASSUME NEW r \in Slots, NEW w \in Slots, r # w
  PROVE  /\ NextPos(r) \in Slots
         /\ NextPos(r) = SlotAt(r, 1)
         /\ Distance(NextPos(r), w) = Distance(r, w) - 1
         /\ Distance(r, w) \in 1 .. Size - 1
         /\ SlotAt(NextPos(r), Size - 1) = r
         /\ \A k \in 0 .. Size - 2 : SlotAt(NextPos(r), k) = SlotAt(r, k + 1)
BY SizeAssumption DEF SlotAt, Slots, NextPos, Distance

LEMMA DistanceRange ==
  ASSUME NEW r \in Slots, NEW w \in Slots
  PROVE  /\ Distance(r, w) \in 0 .. Size - 1
         /\ Distance(r, w) = 0 <=> r = w
         /\ Distance(r, w) = Size - 1 <=> NextPos(w) = r
BY SizeAssumption DEF Slots, Distance, NextPos

-----------------------------------------------------------------------------
(* One lemma per action: it keeps the invariant. *)

USE SizeAssumption, MarkAssumption
    DEF Threads, TrueSize, ProducerAt, ConsumerAt, Popping, Getting

LEMMA InitInv == Init => IInv
BY DEF Init, IInv, TypeOK, ControlInv, DataInv, SlotInv, LoadedInv,
       GuestSizeBounds, AnswersStay, Slots, SlotAt, Distance

LEMMA PushBeginInv == IInv /\ (\E v \in Values : PushBegin(v)) => IInv'
<1> SUFFICES ASSUME IInv, NEW v \in Values, PushBegin(v) PROVE IInv'
  OBVIOUS
<1> USE DEF IInv, PushBegin, Idle, Forget, Goto, indexes
<1>1. TypeOK' BY DEF TypeOK
<1>2. ControlInv' BY DEF TypeOK, ControlInv
<1>3. DataInv' BY DEF TypeOK, DataInv, SlotInv
<1>4. LoadedInv' BY DEF TypeOK, LoadedInv
<1>5. GuestSizeBounds' /\ AnswersStay' BY DEF TypeOK, GuestSizeBounds, AnswersStay
<1> QED BY <1>1, <1>2, <1>3, <1>4, <1>5

LEMMA PushConstructInv == IInv /\ PushConstruct => IInv'
<1> SUFFICES ASSUME IInv, PushConstruct PROVE IInv'
  OBVIOUS
<1> USE DEF IInv, PushConstruct, Goto, indexes, answers
<1>1. TypeOK' BY DEF TypeOK, ControlInv
<1>2. ControlInv' BY DEF TypeOK, ControlInv
<1>3. DataInv'
  <2> DEFINE n == SlotAt(m_read_index, TrueSize + 1)
  <2>1. /\ NextPos(m_write_index) # m_read_index
        /\ NextPos(m_write_index) = n
        /\ n \in Slots
        /\ TrueSize \in 0 .. Size - 2
    BY WriteAdvances DEF TypeOK, ControlInv
  <2>2. ASSUME alive', NEW k \in 1 .. Size - 1 PROVE SlotInv(k)'
    <3>1. CASE k = TrueSize + 1
      <4>1. /\ SlotAt(m_read_index, k)' = n
            /\ TrueSize' = TrueSize
            /\ m_data'[n] = arg'
            /\ pc'["producer"] = "publish"
        BY <2>1, <3>1 DEF TypeOK
      <4> QED BY <2>1, <3>1, <4>1 DEF SlotInv
    <3>2. CASE k # TrueSize + 1
      <4>1. SlotAt(m_read_index, k) # n
        BY <2>1, <3>2, SlotAtInjective DEF TypeOK
      <4> QED BY <2>1, <2>2, <3>2, <4>1 DEF TypeOK, DataInv, SlotInv
    <3> QED BY <3>1, <3>2
  <2> QED BY <2>1, <2>2 DEF TypeOK, DataInv
<1>4. LoadedInv' BY DEF TypeOK, LoadedInv
<1>5. GuestSizeBounds' /\ AnswersStay' BY DEF TypeOK, GuestSizeBounds, AnswersStay
<1> QED BY <1>1, <1>2, <1>3, <1>4, <1>5

LEMMA PushPublishInv == IInv /\ PushPublish => IInv'
<1> SUFFICES ASSUME IInv, PushPublish PROVE IInv'
  OBVIOUS
<1> USE DEF IInv, PushPublish, Goto, indexes, answers
<1>1. /\ m_read_index \in Slots /\ m_write_index' \in Slots
      /\ TrueSize \in 0 .. Size - 2
      /\ TrueSize' = TrueSize + 1
  BY WriteAdvances DEF TypeOK, ControlInv
<1>2. TypeOK' BY <1>1 DEF TypeOK
<1>3. ControlInv'
  BY <1>1, DistanceRange DEF TypeOK, ControlInv
<1>4. DataInv'
  <2>1. ASSUME alive', NEW k \in 1 .. Size - 1 PROVE SlotInv(k)'
    <3>1. SlotInv(k) /\ SlotAt(m_read_index, k)' = SlotAt(m_read_index, k)
      BY <2>1 DEF DataInv
    <3>2. arg \in Values /\ pc'["producer"] = "idle"
      BY DEF TypeOK, ControlInv
    <3>3. CASE k <= TrueSize
      BY <1>1, <3>1, <3>3 DEF TypeOK, SlotInv
    <3>4. CASE k = TrueSize + 1
      <4>1. pc["consumer"] \in {"destroy", "store"} => TrueSize # 0
        BY <1>1, DistanceRange DEF TypeOK, ControlInv
      <4> QED BY <1>1, <3>1, <3>2, <3>4, <4>1 DEF TypeOK, SlotInv
    <3>5. CASE k > TrueSize + 1
      BY <1>1, <3>1, <3>2, <3>5 DEF SlotInv
    <3> QED BY <1>1, <3>3, <3>4, <3>5
  <2> QED BY <2>1 DEF TypeOK, DataInv
<1>5. LoadedInv'
  BY <1>1, DistanceRange DEF TypeOK, ControlInv, LoadedInv
<1>6. told' = told /\ guess' = guess /\ TrueSize' >= TrueSize
  BY <1>1
<1>7. GuestSizeBounds' /\ AnswersStay'
  BY <1>1, <1>6, DistanceRange DEF TypeOK, ControlInv, GuestSizeBounds, AnswersStay
<1> QED BY <1>2, <1>3, <1>4, <1>5, <1>7

LEMMA GetBeginInv == IInv /\ GetBegin => IInv'
<1> SUFFICES ASSUME IInv, GetBegin PROVE IInv'
  OBVIOUS
<1> USE DEF IInv, GetBegin, Idle, Forget, Goto, indexes
<1>1. TypeOK' BY DEF TypeOK
<1>2. ControlInv' BY DEF TypeOK, ControlInv
<1>3. DataInv' BY DEF TypeOK, DataInv, SlotInv
<1>4. LoadedInv' BY DEF TypeOK, LoadedInv
<1>5. GuestSizeBounds' /\ AnswersStay'
  BY DistanceRange DEF TypeOK, GuestSizeBounds, AnswersStay
<1> QED BY <1>1, <1>2, <1>3, <1>4, <1>5

LEMMA GetMoveInv == IInv /\ GetMove => IInv'
<1> SUFFICES ASSUME IInv, GetMove PROVE IInv'
  OBVIOUS
<1> USE DEF IInv, GetMove, Goto, indexes, answers
<1>1. /\ NextPos(m_read_index) = SlotAt(m_read_index, 1)
      /\ NextPos(m_read_index) \in Slots
      /\ TrueSize \in 1 .. Size - 1
      /\ alive
  BY ReadAdvances DEF TypeOK, ControlInv
<1>2. m_data[NextPos(m_read_index)] \in Values
  BY <1>1 DEF DataInv, SlotInv
<1>3. TypeOK' BY <1>1, <1>2 DEF TypeOK
<1>4. ControlInv' BY DEF TypeOK, ControlInv
<1>5. DataInv'
  <2>1. ASSUME NEW k \in 1 .. Size - 1 PROVE SlotInv(k)'
    <3>1. CASE k = 1
      BY <1>1, <3>1 DEF TypeOK, SlotInv
    <3>2. CASE k # 1
      <4>1. SlotAt(m_read_index, k) # NextPos(m_read_index)
        BY <1>1, <3>2, SlotAtInjective DEF TypeOK
      <4> QED BY <1>1, <3>2, <4>1 DEF TypeOK, DataInv, SlotInv
    <3> QED BY <3>1, <3>2
  <2> QED BY <2>1 DEF TypeOK, DataInv
<1>6. LoadedInv' BY DEF TypeOK, LoadedInv
<1>7. GuestSizeBounds' /\ AnswersStay' BY DEF TypeOK, GuestSizeBounds, AnswersStay
<1> QED BY <1>3, <1>4, <1>5, <1>6, <1>7

\* Get and popFront destroy the same slot.
LEMMA DestroyInv == IInv /\ (GetDestroy \/ PopDestroy) => IInv'
<1> SUFFICES ASSUME IInv, GetDestroy \/ PopDestroy PROVE IInv'
  OBVIOUS
<1> USE DEF IInv, GetDestroy, PopDestroy, Goto, indexes, answers
<1>1. /\ SlotAt(m_read_index, 0) = m_read_index
      /\ m_read_index \in Slots
  BY DEF TypeOK, SlotAt, Slots
<1>2. TypeOK' BY DEF TypeOK
<1>3. ControlInv' BY DEF TypeOK, ControlInv
<1>4. DataInv'
  <2>1. ASSUME alive', NEW k \in 1 .. Size - 1 PROVE SlotInv(k)'
    <3>1. SlotAt(m_read_index, k) # m_read_index
      BY <1>1, SlotAtInjective
    <3>2. SlotAt(m_read_index, k) \in Slots
      BY <1>1, SlotAtIsSlot
    <3>3. /\ SlotInv(k)
          /\ m_data'[SlotAt(m_read_index, k)'] = m_data[SlotAt(m_read_index, k)]
      BY <2>1, <3>1, <3>2 DEF TypeOK, DataInv
    <3>4. /\ TrueSize' = TrueSize
          /\ pc'["producer"] = pc["producer"] /\ arg' = arg
          /\ pc'["consumer"] \in {"destroy", "store"}
                <=> pc["consumer"] \in {"destroy", "store"}
      BY DEF TypeOK
    <3> QED BY <3>3, <3>4 DEF SlotInv
  <2> QED BY <1>1, <2>1 DEF TypeOK, DataInv
<1>5. LoadedInv' BY DEF TypeOK, LoadedInv
<1>6. GuestSizeBounds' /\ AnswersStay' BY DEF TypeOK, GuestSizeBounds, AnswersStay
<1> QED BY <1>2, <1>3, <1>4, <1>5, <1>6

LEMMA StoreInv == IInv /\ (GetStore \/ PopStore) => IInv'
<1> SUFFICES ASSUME IInv, GetStore \/ PopStore PROVE IInv'
  OBVIOUS
<1> USE DEF IInv, GetStore, PopStore, Goto, indexes, answers
<1>1. /\ m_read_index' = NextPos(m_read_index)
      /\ m_read_index' \in Slots /\ m_write_index \in Slots
      /\ TrueSize \in 1 .. Size - 1
      /\ TrueSize' = TrueSize - 1
      /\ SlotAt(m_read_index', Size - 1) = m_read_index
      /\ \A k \in 0 .. Size - 2 :
            SlotAt(m_read_index', k) = SlotAt(m_read_index, k + 1)
  BY ReadAdvances DEF TypeOK, ControlInv
<1>2. TypeOK' BY <1>1 DEF TypeOK
<1>3. ControlInv'
  BY <1>1, DistanceRange DEF TypeOK, ControlInv
<1>4. DataInv'
  <2>1. ASSUME alive', NEW k \in 1 .. Size - 1 PROVE SlotInv(k)'
    <3>1. CASE k = Size - 1
      <4>1. pc["producer"] = "publish" => TrueSize # Size - 1
        BY DistanceRange DEF TypeOK, ControlInv
      <4>2. m_data'[SlotAt(m_read_index, k)'] = Raw
        BY <1>1, <2>1, <3>1 DEF DataInv
      <4> QED BY <1>1, <3>1, <4>1, <4>2 DEF TypeOK, SlotInv
    <3>2. CASE k < Size - 1
      <4>1. /\ k + 1 \in 1 .. Size - 1
            /\ SlotAt(m_read_index, k)' = SlotAt(m_read_index, k + 1)
            /\ k \in 0 .. Size - 2
            /\ alive
        <5>1. k \in 0 .. Size - 2 /\ k + 1 \in 1 .. Size - 1
          BY <3>2
        <5> QED BY <1>1, <2>1, <5>1
      <4>2. SlotInv(k + 1)
        BY <4>1 DEF DataInv
      <4>3. /\ pc'["producer"] = pc["producer"] /\ arg' = arg /\ m_data' = m_data
            /\ pc'["consumer"] = "idle"
        BY DEF TypeOK
      <4>4. /\ k <= TrueSize' <=> k + 1 <= TrueSize
            /\ k = TrueSize' + 1 <=> k + 1 = TrueSize + 1
            /\ k + 1 # 1
        BY <1>1, <4>1
      <4> HIDE DEF TrueSize
      <4> QED BY <4>1, <4>2, <4>3, <4>4 DEF SlotInv
    <3> QED BY <3>1, <3>2
  <2> QED BY <2>1 DEF TypeOK, DataInv
<1>5. LoadedInv'
  BY <1>1, DistanceRange DEF TypeOK, LoadedInv
<1>6. GuestSizeBounds' /\ AnswersStay'
  BY <1>1, DistanceRange DEF TypeOK, ControlInv, GuestSizeBounds, AnswersStay
<1> QED BY <1>2, <1>3, <1>4, <1>5, <1>6

LEMMA FrontPtrInv == IInv /\ FrontPtr => IInv'
<1> SUFFICES ASSUME IInv, FrontPtr PROVE IInv'
  OBVIOUS
<1> USE DEF IInv, FrontPtr, Idle, indexes
<1>1. TypeOK' BY DEF TypeOK
<1>2. ControlInv' /\ LoadedInv' BY DEF ControlInv, LoadedInv
<1>3. DataInv' BY DEF DataInv, SlotInv
<1>4. GuestSizeBounds' /\ AnswersStay' BY DEF GuestSizeBounds, AnswersStay
<1> QED BY <1>1, <1>2, <1>3, <1>4

LEMMA PopBeginInv == IInv /\ PopBegin => IInv'
<1> SUFFICES ASSUME IInv, PopBegin PROVE IInv'
  OBVIOUS
<1> USE DEF IInv, PopBegin, Idle, Forget, Goto, indexes
<1>1. TypeOK' BY DEF TypeOK
<1>2. ControlInv' BY DEF TypeOK, ControlInv
<1>3. DataInv' BY DEF TypeOK, DataInv, SlotInv
<1>4. LoadedInv' BY DEF TypeOK, LoadedInv
<1>5. GuestSizeBounds' /\ AnswersStay'
  BY DistanceRange DEF TypeOK, GuestSizeBounds, AnswersStay
<1> QED BY <1>1, <1>2, <1>3, <1>4, <1>5

LEMMA LoadInv ==
  IInv /\ (\E t \in Threads : LoadReadFirst(t) \/ LoadWriteFirst(t)) => IInv'
<1> SUFFICES ASSUME IInv, NEW t \in Threads, LoadReadFirst(t) \/ LoadWriteFirst(t)
             PROVE IInv'
  OBVIOUS
<1> USE DEF IInv, LoadReadFirst, LoadWriteFirst, Idle, Goto, indexes, answers
<1>1. TypeOK' BY DEF TypeOK
<1>2. ControlInv' BY DEF TypeOK, ControlInv
<1>3. DataInv' BY DEF TypeOK, DataInv, SlotInv
<1>4. LoadedInv' BY DistanceRange DEF TypeOK, LoadedInv
<1>5. GuestSizeBounds' /\ AnswersStay' BY DEF TypeOK, GuestSizeBounds, AnswersStay
<1> QED BY <1>1, <1>2, <1>3, <1>4, <1>5

LEMMA AnswerInv ==
  IInv /\ (\E t \in Threads : IsEmpty(t) \/ IsFull(t) \/ GuestSize(t)) => IInv'
<1> SUFFICES ASSUME IInv, NEW t \in Threads, IsEmpty(t) \/ IsFull(t) \/ GuestSize(t)
             PROVE IInv'
  OBVIOUS
<1> USE DEF IInv, IsEmpty, IsFull, GuestSize, Answered, Goto, indexes
<1>0. 0 \in Slots BY DEF Slots
<1>1. TypeOK' BY <1>0, DistanceRange DEF TypeOK
<1>2. ControlInv' BY DEF TypeOK, ControlInv
<1>3. DataInv' BY DEF TypeOK, DataInv, SlotInv
<1>4. LoadedInv' BY DEF TypeOK, LoadedInv
<1>5. GuestSizeBounds'
  BY DistanceRange DEF TypeOK, ControlInv, LoadedInv, Loaded, GuestSizeBounds
<1>6. AnswersStay'
  BY DistanceRange DEF TypeOK, ControlInv, LoadedInv, Loaded, AnswersStay
<1> QED BY <1>1, <1>2, <1>3, <1>4, <1>5, <1>6

LEMMA DestructInv == IInv /\ Destruct => IInv'
<1> SUFFICES ASSUME IInv, Destruct PROVE IInv'
  OBVIOUS
<1> USE DEF IInv, Destruct, Idle, indexes, answers
<1>1. TypeOK' BY DEF TypeOK
<1>2. ControlInv' /\ LoadedInv' BY DEF ControlInv, LoadedInv
<1>3. DataInv' BY DEF DataInv
<1>4. GuestSizeBounds' /\ AnswersStay' BY DEF GuestSizeBounds, AnswersStay
<1> QED BY <1>1, <1>2, <1>3, <1>4

LEMMA Invariance == Spec => []IInv
<1>1. IInv /\ UNCHANGED vars => IInv'
  BY DEF IInv, TypeOK, ControlInv, DataInv, SlotInv, LoadedInv,
         GuestSizeBounds, AnswersStay, vars
<1>2. IInv /\ [Next]_vars => IInv'
  BY <1>1, PushBeginInv, PushConstructInv, PushPublishInv, GetBeginInv,
     GetMoveInv, DestroyInv, StoreInv, FrontPtrInv, PopBeginInv, LoadInv,
     AnswerInv, DestructInv
     DEF Next, Producer, Consumer, Observer
<1> QED BY InitInv, <1>2, PTL DEF Spec

-----------------------------------------------------------------------------
(* Safety for every size. *)

\* Every variable keeps its type.
THEOREM TypeCorrect == Spec => []TypeOK
<1>1. IInv => TypeOK BY DEF IInv
<1> QED BY Invariance, <1>1, PTL

\* Producer and consumer never touch the same slot at the same time (Push
\* against the move and the destruction in Get and popFront).
THEOREM RaceFree == Spec => []NoSlotRace
<1>1. IInv => NoSlotRace
  <2> SUFFICES ASSUME IInv, pc["producer"] \in {"construct", "publish"}
               PROVE  /\ pc["consumer"] = "move" =>
                            NextPos(m_write_index) # NextPos(m_read_index)
                      /\ NextPos(m_write_index) # m_read_index
    BY DEF NoSlotRace
  <2> QED BY DEF IInv, TypeOK, ControlInv, NextPos, Slots
<1> QED BY Invariance, <1>1, PTL

\* Push constructs only into slots whose last object was destructed.
THEOREM ConstructsRaw == Spec => []ConstructsInRawSlot
<1>1. IInv => ConstructsInRawSlot
  <2> SUFFICES ASSUME IInv, pc["producer"] = "construct"
               PROVE  m_data[NextPos(m_write_index)] = Raw
    BY DEF ConstructsInRawSlot
  <2>1. alive /\ NextPos(m_write_index) = SlotAt(m_read_index, TrueSize + 1)
              /\ TrueSize + 1 \in 1 .. Size - 1
              /\ ~(TrueSize + 1 <= TrueSize)
    BY WriteAdvances DEF IInv, TypeOK, ControlInv
  <2>2. SlotInv(TrueSize + 1)
    BY <2>1 DEF IInv, DataInv
  <2> HIDE DEF TrueSize
  <2> QED BY <2>1, <2>2 DEF SlotInv
<1> QED BY Invariance, <1>1, PTL

\* GuestSize bounds the true size from the side its comment names.
THEOREM GuestSizeCorrect == Spec => []GuestSizeBounds
<1>1. IInv => GuestSizeBounds BY DEF IInv
<1> QED BY Invariance, <1>1, PTL

\* A not-empty answer to the consumer and a not-full answer to the producer
\* hold until the thread that asked changes the queue.
THEOREM AnswersUsable == Spec => []AnswersStay
<1>1. IInv => AnswersStay BY DEF IInv
<1> QED BY Invariance, <1>1, PTL

\* For every ring size, slots are never raced on nor constructed twice (Push
\* against Get and popFront).
THEOREM SlotsAreSafe == Spec => []SlotsSafe
  BY RaceFree, ConstructsRaw, PTL DEF SlotsSafe

\* What GuestSize, isEmpty and isFull answer is right when it is used.
THEOREM ObserversAreRight == Spec => []ObserversRight
  BY GuestSizeCorrect, AnswersUsable, PTL DEF ObserversRight

-----------------------------------------------------------------------------
(* The ring implements the bounded FIFO. *)

\* The queue the ring stands for is a sequence of values.
LEMMA QueueIsSeq ==
  ASSUME IInv
  PROVE  /\ FrontIndex \in Slots
         /\ Queued \in 0 .. Size - 1
         /\ alive => /\ Queue \in Seq(Values) /\ Len(Queue) = Queued
                     /\ \A k \in 1 .. Queued :
                           Queue[k] = m_data[SlotAt(FrontIndex, k)]
<1> USE DEF IInv
<1>1. FrontIndex \in Slots /\ Queued \in 0 .. Size - 1
  BY ReadAdvances, DistanceRange DEF TypeOK, ControlInv, FrontIndex, Queued
<1>2. ASSUME alive, NEW k \in 1 .. Queued
      PROVE  m_data[SlotAt(FrontIndex, k)] \in Values
  <2>1. CASE pc["consumer"] \in {"destroy", "store"}
    <3>1. /\ Queued = TrueSize - 1 /\ TrueSize \in 1 .. Size - 1
          /\ SlotAt(FrontIndex, k) = SlotAt(m_read_index, k + 1)
      <4>1. /\ FrontIndex = NextPos(m_read_index) /\ m_read_index # m_write_index
            /\ m_read_index \in Slots /\ m_write_index \in Slots
        BY <2>1 DEF TypeOK, ControlInv, FrontIndex
      <4>2. Queued = TrueSize - 1 /\ TrueSize \in 1 .. Size - 1
        BY <4>1, ReadAdvances DEF Queued
      <4>3. k \in 0 .. Size - 2
        BY <4>2
      <4> QED BY <4>1, <4>2, <4>3, ReadAdvances
    <3>2. k + 1 \in 1 .. Size - 1 /\ k + 1 <= TrueSize /\ k + 1 # 1
      BY <3>1
    <3>3. SlotInv(k + 1)
      BY <1>2, <3>2 DEF DataInv
    <3> QED BY <3>1, <3>2, <3>3 DEF SlotInv
  <2>2. CASE pc["consumer"] \notin {"destroy", "store"}
    <3>1. FrontIndex = m_read_index /\ Queued = TrueSize
      BY <2>2 DEF FrontIndex, Queued
    <3>2. k \in 1 .. Size - 1 /\ k <= TrueSize
      BY <1>1, <3>1
    <3>3. SlotInv(k)
      BY <1>2, <3>2 DEF DataInv
    <3> QED BY <2>2, <3>1, <3>2, <3>3 DEF SlotInv
  <2> QED BY <2>1, <2>2
<1>3. ASSUME alive
      PROVE  /\ Queue \in Seq(Values) /\ Len(Queue) = Queued
             /\ \A k \in 1 .. Queued : Queue[k] = m_data[SlotAt(FrontIndex, k)]
  BY <1>1, <1>2, <1>3 DEF Queue
<1> QED BY <1>1, <1>3

QueueOfValues ==
    alive => /\ Queue \in Seq(Values) /\ Len(Queue) = Queued
             /\ \A k \in 1 .. Queued : Queue[k] = m_data[SlotAt(FrontIndex, k)]

LEMMA QueueTyped == IInv => QueueOfValues
BY QueueIsSeq DEF QueueOfValues

LEMMA QueueTypedAfter == IInv' => QueueOfValues'
BY QueueTyped, PTL

\* A step that moves no index the queue depends on, and changes no slot in it,
\* leaves the queue as it is.
LEMMA QueueUnchanged ==
  ASSUME IInv, alive' = alive, UNCHANGED <<FrontIndex, m_write_index>>,
         \A k \in 1 .. Queued :
            m_data'[SlotAt(FrontIndex, k)] = m_data[SlotAt(FrontIndex, k)]
  PROVE  Queue' = Queue
BY DEF Queue, Queued

LEMMA InitRefines == Init => Fifo!Init
BY DEF Init, Fifo!Init, Queue, Queued, FrontIndex, Distance

LEMMA PublishRefines == IInv /\ IInv' /\ PushPublish => Fifo!Put(arg) /\ arg \in Values
<1> SUFFICES ASSUME IInv, IInv', PushPublish PROVE Fifo!Put(arg) /\ arg \in Values
  OBVIOUS
<1> USE DEF PushPublish, Goto, answers
<1>1. /\ arg \in Values /\ alive /\ alive' /\ value' = value
      /\ NextPos(m_write_index) # m_read_index
      /\ m_read_index \in Slots /\ m_write_index \in Slots
  BY DEF IInv, TypeOK, ControlInv
<1>2. FrontIndex' = FrontIndex
  BY DEF IInv, TypeOK, FrontIndex
<1>3. NextPos(m_write_index) # FrontIndex
  BY <1>1 DEF IInv, TypeOK, ControlInv, FrontIndex, NextPos, Slots
<1>4. /\ Queued' = Queued + 1
      /\ Queued \in 0 .. Size - 2
      /\ NextPos(m_write_index) = SlotAt(FrontIndex, Queued + 1)
  BY <1>1, <1>2, <1>3, WriteAdvances, QueueIsSeq DEF Queued
<1>5. m_data[NextPos(m_write_index)] = arg
  <2>1. /\ NextPos(m_write_index) = SlotAt(m_read_index, TrueSize + 1)
        /\ TrueSize + 1 \in 1 .. Size - 1 /\ ~(TrueSize + 1 <= TrueSize)
    BY <1>1, WriteAdvances
  <2>2. SlotInv(TrueSize + 1)
    BY <1>1, <2>1 DEF IInv, DataInv
  <2> HIDE DEF TrueSize
  <2> QED BY <2>1, <2>2 DEF SlotInv
<1>6. /\ Queue \in Seq(Values) /\ Queue' \in Seq(Values)
      /\ Len(Queue) = Queued /\ Len(Queue') = Queued + 1
      /\ \A k \in 1 .. Queued : Queue[k] = m_data[SlotAt(FrontIndex, k)]
      /\ \A k \in 1 .. Queued + 1 : Queue'[k] = m_data[SlotAt(FrontIndex, k)]
  <2>1. /\ Queue' \in Seq(Values) /\ Len(Queue)' = Queued'
        /\ \A k \in 1 .. Queued' : Queue'[k] = m_data'[SlotAt(FrontIndex, k)']
    BY <1>1, QueueTypedAfter DEF QueueOfValues
  <2> QED BY <1>1, <1>2, <1>4, <2>1, QueueIsSeq
<1>7. Queue' = Append(Queue, arg)
  BY <1>1, <1>4, <1>5, <1>6, SeqEqual
<1> QED BY <1>1, <1>4, <1>6, <1>7 DEF Fifo!Put

\* Advancing the front by one, with the slots behind it as they were, removes
\* the head of the queue.
LEMMA FrontAdvances ==
  ASSUME IInv, IInv', alive, alive', m_write_index' = m_write_index,
         FrontIndex # m_write_index,
         FrontIndex' = NextPos(FrontIndex),
         \A k \in 2 .. Queued :
            m_data'[SlotAt(FrontIndex, k)] = m_data[SlotAt(FrontIndex, k)]
  PROVE  /\ Queue # <<>> /\ Queue' = Tail(Queue)
         /\ Head(Queue) = m_data[NextPos(FrontIndex)]
<1>1. FrontIndex \in Slots /\ m_write_index \in Slots
  BY QueueIsSeq DEF IInv, TypeOK
<1>2. /\ Queued' = Queued - 1 /\ Queued \in 1 .. Size - 1
      /\ NextPos(FrontIndex) = SlotAt(FrontIndex, 1)
      /\ \A k \in 0 .. Size - 2 :
            SlotAt(NextPos(FrontIndex), k) = SlotAt(FrontIndex, k + 1)
  BY <1>1, ReadAdvances DEF Queued
<1>3. /\ Queue \in Seq(Values) /\ Len(Queue) = Queued
      /\ \A k \in 1 .. Queued : Queue[k] = m_data[SlotAt(FrontIndex, k)]
  BY QueueIsSeq
<1>4. /\ Queue' \in Seq(Values) /\ Len(Queue') = Queued - 1
      /\ \A k \in 1 .. Queued - 1 : Queue'[k] = m_data'[SlotAt(FrontIndex', k)]
  BY <1>2, QueueTypedAfter DEF QueueOfValues
<1>5. ASSUME NEW k \in 1 .. Queued - 1 PROVE Queue'[k] = Queue[k + 1]
  <2>1. k \in 0 .. Size - 2 /\ k + 1 \in 2 .. Queued /\ k + 1 \in 1 .. Queued
    BY <1>2
  <2>2. SlotAt(FrontIndex', k) = SlotAt(FrontIndex, k + 1)
    BY <1>2, <2>1
  <2> QED BY <1>3, <1>4, <2>1, <2>2
<1>6. Queue # <<>> /\ Head(Queue) = Queue[1]
  BY <1>2, <1>3
<1>7. Queue' = Tail(Queue)
  <2>1. /\ Tail(Queue) \in Seq(Values) /\ Len(Tail(Queue)) = Queued - 1
        /\ \A k \in 1 .. Queued - 1 : Tail(Queue)[k] = Queue[k + 1]
    BY <1>2, <1>3, <1>6
  <2> QED BY <1>4, <1>5, <2>1, SeqEqual
<1> QED BY <1>2, <1>3, <1>6, <1>7

LEMMA MoveRefines == IInv /\ IInv' /\ GetMove => Fifo!Take
<1> SUFFICES ASSUME IInv, IInv', GetMove PROVE Fifo!Take
  OBVIOUS
<1> USE DEF GetMove, Goto, indexes
<1>1. /\ alive /\ alive' /\ m_write_index' = m_write_index
      /\ FrontIndex = m_read_index /\ FrontIndex' = NextPos(m_read_index)
      /\ m_read_index # m_write_index
      /\ m_read_index \in Slots /\ m_write_index \in Slots
  BY DEF IInv, TypeOK, ControlInv, FrontIndex
<1>2. ASSUME NEW k \in 2 .. Queued
      PROVE  m_data'[SlotAt(FrontIndex, k)] = m_data[SlotAt(FrontIndex, k)]
  <2>1. k \in 0 .. Size - 1
    BY QueueIsSeq
  <2>2. NextPos(m_read_index) = SlotAt(m_read_index, 1)
    BY <1>1, ReadAdvances
  <2>3. SlotAt(m_read_index, k) # NextPos(m_read_index)
    BY <1>1, <2>1, <2>2, SlotAtInjective
  <2> QED BY <1>1, <2>1, <2>3, SlotAtIsSlot DEF IInv, TypeOK
<1>3. /\ Queue # <<>> /\ Queue' = Tail(Queue)
      /\ Head(Queue) = m_data[NextPos(FrontIndex)]
  BY <1>1, <1>2, FrontAdvances
<1> QED BY <1>1, <1>3 DEF Fifo!Take

LEMMA PopRefines == IInv /\ IInv' /\ PopStore => Fifo!Discard
<1> SUFFICES ASSUME IInv, IInv', PopStore PROVE Fifo!Discard
  OBVIOUS
<1> USE DEF PopStore, Goto
<1>1. /\ alive /\ alive' /\ m_write_index' = m_write_index
      /\ FrontIndex = m_read_index /\ FrontIndex' = NextPos(m_read_index)
      /\ m_read_index # m_write_index
  BY DEF IInv, TypeOK, ControlInv, FrontIndex
<1>2. Queue # <<>> /\ Queue' = Tail(Queue)
  BY <1>1, FrontAdvances
<1> QED BY <1>2 DEF Fifo!Discard

LEMMA DestructRefines == Destruct => Fifo!Destruct
BY DEF Destruct, Fifo!Destruct, Queue

\* Construction happens behind the queue, destruction before it.
LEMMA ConstructStutters == IInv /\ PushConstruct => UNCHANGED <<Queue, value>>
<1> SUFFICES ASSUME IInv, PushConstruct PROVE UNCHANGED <<Queue, value>>
  OBVIOUS
<1> USE DEF PushConstruct, Goto, indexes
<1>1. /\ NextPos(m_write_index) # m_read_index
      /\ m_read_index \in Slots /\ m_write_index \in Slots
      /\ FrontIndex' = FrontIndex
  BY DEF IInv, TypeOK, ControlInv, FrontIndex
<1>2. NextPos(m_write_index) # FrontIndex
  BY <1>1 DEF IInv, TypeOK, ControlInv, FrontIndex, NextPos, Slots
<1>3. /\ Queued \in 0 .. Size - 2 /\ FrontIndex \in Slots
      /\ NextPos(m_write_index) = SlotAt(FrontIndex, Queued + 1)
  BY <1>1, <1>2, WriteAdvances, QueueIsSeq DEF Queued
<1>4. ASSUME NEW k \in 1 .. Queued
      PROVE  m_data'[SlotAt(FrontIndex, k)] = m_data[SlotAt(FrontIndex, k)]
  <2>1. k \in 0 .. Size - 1 /\ Queued + 1 \in 0 .. Size - 1 /\ k # Queued + 1
    BY <1>3
  <2>2. SlotAt(FrontIndex, k) # NextPos(m_write_index)
    BY <1>3, <2>1, SlotAtInjective
  <2> QED BY <1>3, <2>1, <2>2, SlotAtIsSlot DEF IInv, TypeOK
<1> QED BY <1>1, <1>4, QueueUnchanged

LEMMA DestroyStutters ==
  IInv /\ (GetDestroy \/ PopDestroy) => UNCHANGED <<Queue, value>>
<1> SUFFICES ASSUME IInv, GetDestroy \/ PopDestroy
             PROVE  UNCHANGED <<Queue, value>>
  OBVIOUS
<1> USE DEF GetDestroy, PopDestroy, Goto, indexes
<1>1. /\ m_read_index # m_write_index
      /\ m_read_index \in Slots /\ m_write_index \in Slots
      /\ FrontIndex' = FrontIndex
  BY DEF IInv, TypeOK, ControlInv, FrontIndex
<1>2. ASSUME NEW k \in 1 .. Queued
      PROVE  SlotAt(FrontIndex, k) # m_read_index
  BY <1>1 DEF SlotAt, Slots, Queued, Distance, FrontIndex, NextPos
<1>3. ASSUME NEW k \in 1 .. Queued
      PROVE  m_data'[SlotAt(FrontIndex, k)] = m_data[SlotAt(FrontIndex, k)]
  <2>1. k \in 0 .. Size - 1 /\ FrontIndex \in Slots
    BY QueueIsSeq
  <2> QED BY <1>2, <2>1, SlotAtIsSlot DEF IInv, TypeOK
<1> QED BY <1>1, <1>3, QueueUnchanged

\* Whatever else the threads do is invisible to the FIFO.
LEMMA OtherStutters ==
  IInv /\ \/ \E v \in Values : PushBegin(v)
          \/ GetBegin \/ GetStore \/ FrontPtr \/ PopBegin
          \/ \E t \in Threads : Observer(t)
          \/ UNCHANGED vars
  => UNCHANGED <<Queue, value>>
<1> SUFFICES ASSUME IInv,
                    \/ \E v \in Values : PushBegin(v)
                    \/ GetBegin \/ GetStore \/ FrontPtr \/ PopBegin
                    \/ \E t \in Threads : Observer(t)
                    \/ UNCHANGED vars
             PROVE  UNCHANGED <<Queue, value>>
  OBVIOUS
<1>1. UNCHANGED <<m_write_index, m_data, alive, value>>
  BY DEF PushBegin, GetBegin, GetStore, FrontPtr, PopBegin, Observer,
         LoadReadFirst, LoadWriteFirst, IsEmpty, IsFull, GuestSize, indexes, vars
<1>2. FrontIndex' = FrontIndex
  BY DEF PushBegin, GetBegin, GetStore, FrontPtr, PopBegin, Observer,
         LoadReadFirst, LoadWriteFirst, IsEmpty, IsFull, GuestSize, indexes, vars,
         IInv, TypeOK, ControlInv, FrontIndex, Idle, Goto, Answered
<1> QED BY <1>1, <1>2, QueueUnchanged

\* For every size and every set of values, HSingleFastQueue implements a
\* bounded FIFO of Size - 1 values under every interleaving of its threads.
THEOREM RingIsFifo == Spec => FifoSpec
<1>1. IInv /\ IInv' /\ [Next]_vars => [Fifo!Next]_<<Queue, value>>
  BY PublishRefines, MoveRefines, PopRefines, DestructRefines,
     ConstructStutters, DestroyStutters, OtherStutters
     DEF Next, Producer, Consumer, Fifo!Next
<1> QED BY <1>1, InitRefines, Invariance, PTL DEF Spec, FifoSpec, Fifo!Spec, Fifo!fifoVars
=============================================================================
