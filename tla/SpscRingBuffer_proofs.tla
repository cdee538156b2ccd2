----------------------- MODULE SpscRingBuffer_proofs -----------------------
(***************************************************************************)
(* Proofs about SpscRingBuffer for every capacity, index width and set of  *)
(* items.                                                                  *)
(***************************************************************************)
EXTENDS SpscRingBuffer, SequenceTheorems, TLAPS

(***************************************************************************)
(* The indices stand in one order around the ring, whatever each thread    *)
(* has seen or cached: what the producer believes to be read, what is      *)
(* read, what the consumer believes to be written, what is written.        *)
(***************************************************************************)
InOrder ==
  /\ Distance(writeIndex, cachedReadIndex) <= Capacity
  /\ Distance(writeIndex, cachedReadIndex)
       = Distance(readSeen, cachedReadIndex) + Distance(readIndex, readSeen)
         + Distance(cachedWriteIndex, readIndex) + Distance(writeSeen, cachedWriteIndex)
         + Distance(writeIndex, writeSeen)

IInv ==
  /\ TypeOK
  /\ InOrder
  /\ pushing => Distance(writeIndex, cachedReadIndex) < Capacity
  /\ popping => cachedWriteIndex # readIndex

-----------------------------------------------------------------------------
(* Division with remainder.                                                *)
LEMMA DivMod ==
  ASSUME NEW m \in Nat \ {0}, NEW x \in Int
  PROVE  x \div m \in Int /\ x % m \in 0 .. m - 1 /\ x = m * (x \div m) + (x % m)
OBVIOUS

(* The indices run over a multiple of the capacity, at least twice it.     *)
LEMMA Width ==
  \E k \in Nat : k >= 2 /\ IndexModulus = Capacity * k
<1> DEFINE k == IndexModulus \div Capacity
<1>1. k \in Int /\ IndexModulus = Capacity * k
  BY RingAssumption, DivMod
<1> HIDE DEF k
<1>2. k >= 0
  <2>1. k < 0 => Capacity * k < 0
    BY <1>1, RingAssumption
  <2>2. QED
    BY <1>1, <2>1, RingAssumption
<1>3. k # 0 /\ k # 1
  BY <1>1, RingAssumption
<1>4. QED
  BY <1>1, <1>2, <1>3

LEMMA WidthBound == IndexModulus \in Nat /\ Capacity \in Nat /\ 2 <= Capacity /\ Capacity < IndexModulus
<1>1. PICK k \in Nat : k >= 2 /\ IndexModulus = Capacity * k
  BY Width
<1>2. Capacity * k >= Capacity * 2
  BY <1>1, RingAssumption
<1>3. QED
  BY <1>1, <1>2, RingAssumption

(* Distance and successor without remainders.                              *)
LEMMA DistanceIs ==
  ASSUME NEW a \in Index, NEW b \in Index
  PROVE  /\ Distance(a, b) = IF a >= b THEN a - b ELSE a - b + IndexModulus
         /\ Distance(a, b) \in 0 .. IndexModulus - 1
BY WidthBound DEF Distance, Index

LEMMA FollowingIs ==
  ASSUME NEW a \in Index
  PROVE  /\ Following(a) = IF a + 1 = IndexModulus THEN 0 ELSE a + 1
         /\ Following(a) \in Index
BY WidthBound DEF Following, Index

(* How distances change when one end moves, and how they add up.           *)
LEMMA DistanceFrom ==
  ASSUME NEW a \in Index, NEW b \in Index
  PROVE  /\ Distance(a, b) \in Nat
         /\ Distance(a, a) = 0
         /\ Distance(a, b) = 0 => a = b
         /\ Distance(a, b) + 1 < IndexModulus => Distance(Following(a), b) = Distance(a, b) + 1
         /\ a # b => Distance(a, Following(b)) = Distance(a, b) - 1
<1> DEFINE D(x, y) == IF x >= y THEN x - y ELSE x - y + IndexModulus
<1>1. /\ Distance(a, b) = D(a, b) /\ Distance(a, b) \in Nat
      /\ Distance(a, a) = D(a, a)
      /\ Distance(Following(a), b) = D(Following(a), b)
      /\ Distance(a, Following(b)) = D(a, Following(b))
  BY DistanceIs, FollowingIs, WidthBound
<1>2. /\ Following(a) = IF a + 1 = IndexModulus THEN 0 ELSE a + 1
      /\ Following(b) = IF b + 1 = IndexModulus THEN 0 ELSE b + 1
  BY FollowingIs
<1>3. a \in 0 .. IndexModulus - 1 /\ b \in 0 .. IndexModulus - 1
  BY DEF Index
<1>4. QED
  BY <1>1, <1>2, <1>3, WidthBound

LEMMA DistanceAdds ==
  ASSUME NEW a \in Index, NEW b \in Index, NEW c \in Index,
         Distance(a, b) + Distance(b, c) < IndexModulus
  PROVE  Distance(a, c) = Distance(a, b) + Distance(b, c)
<1> DEFINE D(x, y) == IF x >= y THEN x - y ELSE x - y + IndexModulus
<1>1. Distance(a, b) = D(a, b) /\ Distance(b, c) = D(b, c) /\ Distance(a, c) = D(a, c)
  BY DistanceIs
<1>2. a \in 0 .. IndexModulus - 1 /\ b \in 0 .. IndexModulus - 1 /\ c \in 0 .. IndexModulus - 1
  BY DEF Index
<1>3. QED
  BY <1>1, <1>2, WidthBound

(* Two positions less than a capacity apart are different slots.           *)
LEMMA SlotsApart ==
  ASSUME NEW a \in Int, NEW b \in Int, NEW d \in Int, 0 < d, d < Capacity,
         a - b = d \/ a - b = d - IndexModulus
  PROVE  Slot(a) # Slot(b)
<1> SUFFICES ASSUME a % Capacity = b % Capacity PROVE FALSE
  BY DEF Slot
<1> DEFINE q == a \div Capacity
           p == b \div Capacity
<1>1. /\ q \in Int /\ a = Capacity * q + (a % Capacity) /\ a % Capacity \in Int
      /\ p \in Int /\ b = Capacity * p + (b % Capacity)
  BY DivMod, RingAssumption
<1> HIDE DEF q, p
<1>2. a - b = Capacity * (q - p)
  BY <1>1, WidthBound
<1>3. \E z \in Int : d = Capacity * z
  <2>1. CASE a - b = d
    BY <1>1, <1>2, <2>1
  <2>2. CASE a - b = d - IndexModulus
    <3>1. PICK k \in Nat : IndexModulus = Capacity * k
      BY Width
    <3>2. d = Capacity * (q - p) + Capacity * k
      BY <1>2, <2>2, <3>1, <1>1, WidthBound
    <3>3. Capacity * (q - p) + Capacity * k = Capacity * ((q - p) + k)
      BY <1>1, <3>1, WidthBound
    <3>4. (q - p) + k \in Int
      BY <1>1
    <3>5. QED
      BY <3>2, <3>3, <3>4
  <2>3. QED
    BY <2>1, <2>2
<1>4. PICK z \in Int : d = Capacity * z
  BY <1>3
<1>5. z <= 0 => Capacity * z <= 0
  BY WidthBound
<1>6. z >= 1 => Capacity * z >= Capacity
  BY WidthBound
<1>7. QED
  BY <1>4, <1>5, <1>6, WidthBound

(* The slot of an index is the same after the index wraps.                 *)
LEMMA SlotWraps ==
  ASSUME NEW a \in Nat
  PROVE  Slot(a + IndexModulus) = Slot(a) /\ Slot(a) \in 0 .. Capacity - 1
<1>1. PICK k \in Nat : IndexModulus = Capacity * k
  BY Width
<1> DEFINE q == a \div Capacity
<1>2. q \in Int /\ a = Capacity * q + (a % Capacity) /\ a % Capacity \in 0 .. Capacity - 1
  BY DivMod, RingAssumption
<1> DEFINE p == (a + IndexModulus) \div Capacity
<1>w. Capacity \in Nat \ {0} /\ a + IndexModulus \in Int
  BY WidthBound
<1>3. /\ p \in Int /\ a + IndexModulus = Capacity * p + ((a + IndexModulus) % Capacity)
      /\ (a + IndexModulus) % Capacity \in 0 .. Capacity - 1
  BY <1>w, DivMod
<1> DEFINE x == a % Capacity
           y == (a + IndexModulus) % Capacity
<1> HIDE DEF q, p, x, y
<1>a. a = Capacity * q + x /\ a + Capacity * k = Capacity * p + y
  BY <1>1, <1>2, <1>3 DEF x, y
<1>b. Capacity * (q + k - p) = Capacity * q + Capacity * k - Capacity * p
  BY <1>1, <1>2, <1>3, WidthBound
<1>4. y - x = Capacity * (q + k - p) /\ x \in 0 .. Capacity - 1 /\ y \in 0 .. Capacity - 1
  BY <1>a, <1>b, <1>1, <1>2, <1>3, WidthBound DEF x, y
<1>5. q + k - p >= 1 => Capacity * (q + k - p) >= Capacity
  BY <1>1, <1>2, <1>3, WidthBound
<1>6. q + k - p <= -1 => Capacity * (q + k - p) <= -Capacity
  BY <1>1, <1>2, <1>3, WidthBound
<1>7. q + k - p = 0
  BY <1>1, <1>2, <1>3, <1>4, <1>5, <1>6, WidthBound
<1>8. y = x
  BY <1>4, <1>7, WidthBound
<1>9. QED
  BY <1>8, <1>2 DEF x, y, Slot

-----------------------------------------------------------------------------
LEMMA InitInv == Init => IInv
<1> SUFFICES ASSUME Init PROVE IInv
  OBVIOUS
<1>1. 0 \in Index
  BY WidthBound DEF Index
<1>2. TypeOK
  BY <1>1 DEF Init, TypeOK
<1>3. Distance(0, 0) = 0
  BY <1>1, DistanceFrom
<1>4. QED
  BY <1>2, <1>3, WidthBound DEF Init, IInv, InOrder

(* What the invariant says of the indices, in the terms of the lemmas.     *)
LEMMA Indices ==
  ASSUME TypeOK
  PROVE  /\ writeIndex \in Index /\ cachedReadIndex \in Index /\ readSeen \in Index
         /\ readIndex \in Index /\ cachedWriteIndex \in Index /\ writeSeen \in Index
BY DEF TypeOK

LEMMA Chain ==
  ASSUME IInv
  PROVE  /\ Distance(writeIndex, cachedReadIndex) \in Nat /\ Distance(readSeen, cachedReadIndex) \in Nat
         /\ Distance(readIndex, readSeen) \in Nat /\ Distance(cachedWriteIndex, readIndex) \in Nat
         /\ Distance(writeSeen, cachedWriteIndex) \in Nat /\ Distance(writeIndex, writeSeen) \in Nat
         /\ Distance(writeIndex, cachedWriteIndex)
              = Distance(writeIndex, writeSeen) + Distance(writeSeen, cachedWriteIndex)
         /\ Distance(writeIndex, readIndex)
              = Distance(writeIndex, cachedWriteIndex) + Distance(cachedWriteIndex, readIndex)
         /\ Distance(writeIndex, readSeen)
              = Distance(writeIndex, readIndex) + Distance(readIndex, readSeen)
<1>1. /\ Distance(writeIndex, cachedReadIndex) \in Nat /\ Distance(readSeen, cachedReadIndex) \in Nat
      /\ Distance(readIndex, readSeen) \in Nat /\ Distance(cachedWriteIndex, readIndex) \in Nat
      /\ Distance(writeSeen, cachedWriteIndex) \in Nat /\ Distance(writeIndex, writeSeen) \in Nat
  BY Indices, DistanceFrom DEF IInv
<1>2. Distance(writeIndex, cachedWriteIndex)
        = Distance(writeIndex, writeSeen) + Distance(writeSeen, cachedWriteIndex)
  BY <1>1, Indices, DistanceAdds, WidthBound DEF IInv, InOrder
<1>3. Distance(writeIndex, readIndex)
        = Distance(writeIndex, cachedWriteIndex) + Distance(cachedWriteIndex, readIndex)
  BY <1>1, <1>2, Indices, DistanceAdds, WidthBound DEF IInv, InOrder
<1>4. Distance(writeIndex, readSeen)
        = Distance(writeIndex, readIndex) + Distance(readIndex, readSeen)
  BY <1>1, <1>2, <1>3, Indices, DistanceAdds, WidthBound DEF IInv, InOrder
<1>5. QED
  BY <1>1, <1>2, <1>3, <1>4

LEMMA TypeStep == TypeOK /\ [Next]_vars => TypeOK'
<1> SUFFICES ASSUME TypeOK, [Next]_vars PROVE TypeOK'
  OBVIOUS
<1>i. /\ writeIndex \in Index /\ readSeen \in Index /\ readIndex \in Index /\ writeSeen \in Index
  BY Indices
<1>a. \A x \in Index : Following(x) \in Index
  BY FollowingIs
<1>b. \A x \in Index : Slot(x) \in 0 .. Capacity - 1
  BY SlotWraps, WidthBound DEF Index
<1>1. ASSUME NEW i \in Items, FinishPush(i) PROVE TypeOK'
  BY <1>i, <1>a, <1>1 DEF TypeOK, FinishPush, consumer
<1>2. CASE FinishPop
  BY <1>i, <1>a, <1>b, <1>2 DEF TypeOK, FinishPop, producer
<1>3. CASE StartPush \/ RefusePush
  BY <1>3 DEF TypeOK, StartPush, RefusePush, ReadIndexUsed, consumer
<1>4. CASE StartPop \/ RefusePop
  BY <1>4 DEF TypeOK, StartPop, RefusePop, WriteIndexUsed, producer
<1>5. CASE WriteBecomesVisible
  BY <1>i, <1>a, <1>5 DEF TypeOK, WriteBecomesVisible, producer, consumer
<1>6. CASE ReadBecomesVisible
  BY <1>i, <1>a, <1>6 DEF TypeOK, ReadBecomesVisible, producer, consumer
<1>7. CASE UNCHANGED vars
  BY <1>7 DEF TypeOK, vars, producer, consumer
<1>8. QED
  BY <1>1, <1>2, <1>3, <1>4, <1>5, <1>6, <1>7 DEF Next, Produce, Consume

(* Every step moves one end of one or two of the distances in the chain.   *)
LEMMA InvStep == IInv /\ [Next]_vars => IInv'
<1> SUFFICES ASSUME IInv, [Next]_vars PROVE IInv'
  OBVIOUS
<1>t. TypeOK'
  BY TypeStep DEF IInv
<1>i. /\ writeIndex \in Index /\ cachedReadIndex \in Index /\ readSeen \in Index
      /\ readIndex \in Index /\ cachedWriteIndex \in Index /\ writeSeen \in Index
  BY Indices DEF IInv
<1>1. CASE StartPush \/ RefusePush
  <2>1. /\ cachedReadIndex' = ReadIndexUsed
        /\ UNCHANGED << writeIndex, readSeen, readIndex, cachedWriteIndex, writeSeen, popping >>
        /\ pushing' => ~FullAgainst(ReadIndexUsed)
    BY <1>1 DEF StartPush, RefusePush, consumer, IInv, TypeOK
  <2>2. CASE FullAgainst(cachedReadIndex)
    <3>1. cachedReadIndex' = readSeen
      BY <2>1, <2>2 DEF ReadIndexUsed
    <3>2. Distance(readSeen, readSeen) = 0
      BY <1>i, DistanceFrom
    <3>3. /\ Distance(writeIndex, readSeen) <= Capacity
          /\ pushing' => Distance(writeIndex, readSeen) < Capacity
      BY <2>1, <2>2, Chain, WidthBound DEF IInv, InOrder, FullAgainst, ReadIndexUsed
    <3>4. QED
      BY <2>1, <3>1, <3>2, <3>3, <1>t, Chain DEF IInv, InOrder
  <2>3. CASE ~FullAgainst(cachedReadIndex)
    <3>1. cachedReadIndex' = cachedReadIndex
      BY <2>1, <2>3 DEF ReadIndexUsed
    <3>2. QED
      BY <2>1, <2>3, <3>1, <1>t, Chain, WidthBound DEF IInv, InOrder, FullAgainst
  <2>4. QED
    BY <2>2, <2>3
<1>2. ASSUME NEW i \in Items, FinishPush(i) PROVE IInv'
  <2>1. /\ writeIndex' = Following(writeIndex) /\ pushing /\ ~pushing'
        /\ UNCHANGED << cachedReadIndex, readSeen, readIndex, cachedWriteIndex, writeSeen, popping >>
    BY <1>2 DEF FinishPush, consumer
  <2>2. /\ Distance(writeIndex, cachedReadIndex) + 1 < IndexModulus
        /\ Distance(writeIndex, writeSeen) + 1 < IndexModulus
    BY <2>1, Chain, WidthBound DEF IInv, InOrder
  <2>3. /\ Distance(writeIndex', cachedReadIndex) = Distance(writeIndex, cachedReadIndex) + 1
        /\ Distance(writeIndex', writeSeen) = Distance(writeIndex, writeSeen) + 1
    BY <2>1, <2>2, <1>i, DistanceFrom
  <2>4. QED
    BY <2>1, <2>3, <1>t, Chain, WidthBound DEF IInv, InOrder
<1>3. CASE StartPop \/ RefusePop
  <2>1. /\ cachedWriteIndex' = WriteIndexUsed
        /\ UNCHANGED << writeIndex, cachedReadIndex, readSeen, readIndex, writeSeen, pushing >>
        /\ popping' => readIndex # WriteIndexUsed
    BY <1>3 DEF StartPop, RefusePop, producer, IInv, TypeOK
  <2>2. CASE readIndex = cachedWriteIndex
    <3>1. cachedWriteIndex' = writeSeen
      BY <2>1, <2>2 DEF WriteIndexUsed
    <3>2. Distance(writeSeen, writeSeen) = 0 /\ Distance(cachedWriteIndex, readIndex) = 0
      BY <2>2, <1>i, DistanceFrom
    <3>3. QED
      BY <2>1, <2>2, <3>1, <3>2, <1>t, Chain DEF IInv, InOrder
  <2>3. CASE readIndex # cachedWriteIndex
    <3>1. cachedWriteIndex' = cachedWriteIndex
      BY <2>1, <2>3 DEF WriteIndexUsed
    <3>2. QED
      BY <2>1, <2>3, <3>1, <1>t DEF IInv, InOrder
  <2>4. QED
    BY <2>2, <2>3
<1>4. CASE FinishPop
  <2>1. /\ readIndex' = Following(readIndex) /\ popping /\ ~popping'
        /\ UNCHANGED << writeIndex, cachedReadIndex, readSeen, cachedWriteIndex, writeSeen, pushing >>
    BY <1>4 DEF FinishPop, producer
  <2>2. cachedWriteIndex # readIndex
    BY <2>1 DEF IInv
  <2>3. Distance(cachedWriteIndex, readIndex') = Distance(cachedWriteIndex, readIndex) - 1
    BY <2>1, <2>2, <1>i, DistanceFrom
  <2>4. Distance(cachedWriteIndex, readIndex) # 0
    BY <2>2, <1>i, DistanceFrom
  <2>5. Distance(readIndex', readSeen) = Distance(readIndex, readSeen) + 1
    <3>1. Distance(readIndex, readSeen) + 1 < IndexModulus
      BY <2>4, Chain, WidthBound DEF IInv, InOrder
    <3>2. QED
      BY <2>1, <3>1, <1>i, DistanceFrom
  <2>6. QED
    BY <2>1, <2>3, <2>5, <1>t, Chain DEF IInv, InOrder
<1>5. CASE WriteBecomesVisible
  <2>1. /\ writeSeen' = Following(writeSeen) /\ writeSeen # writeIndex
        /\ UNCHANGED << writeIndex, cachedReadIndex, readSeen, readIndex, cachedWriteIndex,
                        pushing, popping >>
    BY <1>5 DEF WriteBecomesVisible, producer, consumer
  <2>2. /\ Distance(writeIndex, writeSeen') = Distance(writeIndex, writeSeen) - 1
        /\ Distance(writeIndex, writeSeen) # 0
    BY <2>1, <1>i, DistanceFrom
  <2>3. Distance(writeSeen', cachedWriteIndex) = Distance(writeSeen, cachedWriteIndex) + 1
    <3>1. Distance(writeSeen, cachedWriteIndex) + 1 < IndexModulus
      BY <2>2, Chain, WidthBound DEF IInv, InOrder
    <3>2. QED
      BY <2>1, <3>1, <1>i, DistanceFrom
  <2>4. QED
    BY <2>1, <2>2, <2>3, <1>t, Chain DEF IInv, InOrder
<1>6. CASE ReadBecomesVisible
  <2>1. /\ readSeen' = Following(readSeen) /\ readSeen # readIndex
        /\ UNCHANGED << writeIndex, cachedReadIndex, readIndex, cachedWriteIndex, writeSeen,
                        pushing, popping >>
    BY <1>6 DEF ReadBecomesVisible, producer, consumer
  <2>2. /\ Distance(readIndex, readSeen') = Distance(readIndex, readSeen) - 1
        /\ Distance(readIndex, readSeen) # 0
    BY <2>1, <1>i, DistanceFrom
  <2>3. Distance(readSeen', cachedReadIndex) = Distance(readSeen, cachedReadIndex) + 1
    <3>1. Distance(readSeen, cachedReadIndex) + 1 < IndexModulus
      BY <2>2, Chain, WidthBound DEF IInv, InOrder
    <3>2. QED
      BY <2>1, <3>1, <1>i, DistanceFrom
  <2>4. QED
    BY <2>1, <2>2, <2>3, <1>t, Chain DEF IInv, InOrder
<1>7. CASE UNCHANGED vars
  BY <1>7, <1>t DEF IInv, InOrder, vars, producer, consumer
<1>8. QED
  BY <1>1, <1>2, <1>3, <1>4, <1>5, <1>6, <1>7 DEF Next, Produce, Consume

THEOREM Invariance == Spec => []IInv
BY InitInv, InvStep, PTL DEF Spec

(* Indices stay in range and slots hold items.                             *)
THEOREM TypeCorrect == Spec => []TypeOK
<1>1. IInv => TypeOK
  BY DEF IInv
<1>2. QED
  BY <1>1, Invariance, PTL

-----------------------------------------------------------------------------
(* A slot being filled and a slot being emptied lie less than a capacity   *)
(* apart, and are not the same.                                            *)
LEMMA RaceFree == IInv => NoSlotRace
<1> SUFFICES ASSUME IInv, pushing, popping PROVE Slot(writeIndex) # Slot(readIndex)
  BY DEF NoSlotRace
<1>1. 0 < Distance(writeIndex, readIndex) /\ Distance(writeIndex, readIndex) < Capacity
  <2>1. Distance(cachedWriteIndex, readIndex) # 0
    BY Indices, DistanceFrom DEF IInv
  <2>2. QED
    BY <2>1, Chain, WidthBound DEF IInv, InOrder
<1>2. \/ writeIndex - readIndex = Distance(writeIndex, readIndex)
      \/ writeIndex - readIndex = Distance(writeIndex, readIndex) - IndexModulus
  BY Indices, DistanceIs, WidthBound DEF IInv, Index
<1>3. writeIndex \in Int /\ readIndex \in Int /\ Distance(writeIndex, readIndex) \in Int
  BY Indices, DistanceFrom DEF IInv, Index
<1>4. QED
  BY <1>1, <1>2, <1>3, SlotsApart

(* The producer never copies into the slot the consumer moves an item out  *)
(* of, for every capacity and index width.                                 *)
THEOREM SlotsExclusive == Spec => []NoSlotRace
BY Invariance, RaceFree, PTL

-----------------------------------------------------------------------------
(* The refinement of MessageQueue.                                         *)
ContentsAre ==
  /\ Contents \in Seq(Items)
  /\ Len(Contents) = Distance(writeIndex, readIndex)
  /\ Distance(writeIndex, readIndex) \in Nat
  /\ \A n \in 1 .. Distance(writeIndex, readIndex) :
       Contents[n] = ringBuffer[Slot(readIndex + n - 1)]

LEMMA ContentsType == TypeOK => ContentsAre
<1> SUFFICES ASSUME TypeOK PROVE ContentsAre
  OBVIOUS
<1>1. Distance(writeIndex, readIndex) \in Nat
  BY Indices, DistanceFrom
<1>2. \A n \in 1 .. Distance(writeIndex, readIndex) :
        ringBuffer[Slot(readIndex + n - 1)] \in Items
  <2> SUFFICES ASSUME NEW n \in 1 .. Distance(writeIndex, readIndex)
               PROVE  ringBuffer[Slot(readIndex + n - 1)] \in Items
    OBVIOUS
  <2>1. readIndex + n - 1 \in Nat
    BY <1>1, Indices, WidthBound DEF Index
  <2>2. Slot(readIndex + n - 1) \in 0 .. Capacity - 1
    BY <2>1, SlotWraps
  <2>3. QED
    BY <2>2 DEF TypeOK
<1>3. Contents \in Seq(Items)
  BY <1>1, <1>2 DEF Contents
<1>4. Len(Contents) = Distance(writeIndex, readIndex)
  BY <1>1 DEF Contents
<1>5. QED
  BY <1>1, <1>3, <1>4 DEF Contents, ContentsAre

LEMMA PushAppends ==
  ASSUME IInv, IInv', NEW i \in Items, FinishPush(i)
  PROVE  /\ Len(Contents) < Capacity
         /\ Contents' = Append(Contents, i)
         /\ item' = item
<1> DEFINE d == Distance(writeIndex, readIndex)
<1>1. /\ pushing /\ writeIndex' = Following(writeIndex) /\ readIndex' = readIndex /\ item' = item
      /\ ringBuffer' = [ringBuffer EXCEPT ![Slot(writeIndex)] = i]
  BY DEF FinishPush, consumer
<1>2. writeIndex \in Index /\ readIndex \in Index
  BY Indices DEF IInv
<1>3. d \in Nat /\ d < Capacity
  BY <1>1, Chain, WidthBound DEF IInv, InOrder
<1>4. Distance(writeIndex, readIndex)' = d + 1
  BY <1>1, <1>2, <1>3, DistanceFrom, WidthBound
<1>5. writeIndex = readIndex + d \/ writeIndex + IndexModulus = readIndex + d
  <2>1. d = IF writeIndex >= readIndex THEN writeIndex - readIndex
                                       ELSE writeIndex - readIndex + IndexModulus
    BY <1>2, DistanceIs
  <2>2. writeIndex \in Int /\ readIndex \in Int
    BY <1>2 DEF Index
  <2> HIDE DEF d
  <2>3. QED
    BY <2>1, <2>2, <1>3, WidthBound
<1>6. Slot(readIndex + d) = Slot(writeIndex) /\ Slot(writeIndex) \in 0 .. Capacity - 1
  BY <1>2, <1>5, SlotWraps, WidthBound DEF Index
<1>7. \A n \in 1 .. d : Slot(writeIndex) # Slot(readIndex + n - 1)
  <2> SUFFICES ASSUME NEW n \in 1 .. d PROVE Slot(writeIndex) # Slot(readIndex + n - 1)
    OBVIOUS
  <2>1. /\ readIndex + n - 1 \in Int /\ writeIndex \in Int /\ d - n + 1 \in Int
        /\ 0 < d - n + 1 /\ d - n + 1 < Capacity
        /\ \/ writeIndex - (readIndex + n - 1) = d - n + 1
           \/ writeIndex - (readIndex + n - 1) = (d - n + 1) - IndexModulus
    BY <1>2, <1>3, <1>5, WidthBound DEF Index
  <2> HIDE DEF d
  <2>2. QED
    BY <2>1, SlotsApart
<1>8. /\ Contents \in Seq(Items) /\ Len(Contents) = d
      /\ \A n \in 1 .. d : Contents[n] = ringBuffer[Slot(readIndex + n - 1)]
  BY ContentsType DEF IInv, ContentsAre
<1>9. /\ Contents' \in Seq(Items) /\ Len(Contents') = d + 1
      /\ \A n \in 1 .. d + 1 : Contents'[n] = ringBuffer'[Slot(readIndex + n - 1)]
  <2>1. TypeOK'
    BY DEF IInv
  <2>2. ContentsAre'
    BY <2>1, ContentsType, PTL
  <2>3. QED
    BY <2>2, <1>1, <1>4 DEF ContentsAre, Slot
<1> HIDE DEF d
<1>10. \A n \in 1 .. d + 1 : Contents'[n] = IF n <= d THEN Contents[n] ELSE i
  <2> SUFFICES ASSUME NEW n \in 1 .. d + 1
               PROVE  Contents'[n] = IF n <= d THEN Contents[n] ELSE i
    OBVIOUS
  <2>0. ringBuffer \in [0 .. Capacity - 1 -> Items]
    BY DEF IInv, TypeOK
  <2>1. CASE n <= d
    <3>1. n \in 1 .. d
      BY <2>1, <1>3
    <3>2. readIndex + n - 1 \in Nat
      BY <3>1, <1>2, <1>3, WidthBound DEF Index
    <3>3. Slot(readIndex + n - 1) \in 0 .. Capacity - 1
      BY <3>2, SlotWraps
    <3>4. ringBuffer'[Slot(readIndex + n - 1)] = ringBuffer[Slot(readIndex + n - 1)]
      BY <1>1, <1>7, <2>0, <3>1, <3>3
    <3>5. QED
      BY <1>8, <1>9, <2>1, <3>1, <3>4
  <2>2. CASE n = d + 1
    <3>1. readIndex + n - 1 = readIndex + d
      BY <2>2, <1>2, <1>3, WidthBound DEF Index
    <3>2. ringBuffer'[Slot(readIndex + n - 1)] = i
      BY <1>1, <1>6, <2>0, <3>1
    <3>3. QED
      BY <1>3, <1>9, <2>2, <3>2
  <2>3. QED
    BY <1>3, <2>1, <2>2
<1>11. Contents' = Append(Contents, i)
  <2>1. Append(Contents, i) \in Seq(Items) /\ Len(Append(Contents, i)) = d + 1
    BY <1>8, AppendProperties
  <2>2. \A n \in 1 .. d + 1 : Append(Contents, i)[n] = IF n <= d THEN Contents[n] ELSE i
    BY <1>3, <1>8, AppendProperties
  <2>3. QED
    BY <2>1, <2>2, <1>9, <1>10, SeqEqual
<1>12. QED
  BY <1>1, <1>3, <1>8, <1>11

LEMMA PopTakesHead ==
  ASSUME IInv, IInv', FinishPop
  PROVE  /\ Contents # << >>
         /\ item' = Head(Contents)
         /\ Contents' = Tail(Contents)
<1> DEFINE d == Distance(writeIndex, readIndex)
<1>1. /\ popping /\ readIndex' = Following(readIndex)
      /\ UNCHANGED << ringBuffer, writeIndex >>
      /\ item' = ringBuffer[Slot(readIndex)]
  BY DEF FinishPop, producer
<1>2. writeIndex \in Index /\ readIndex \in Index
  BY Indices DEF IInv
<1>3. d \in Nat /\ d # 0 /\ writeIndex # readIndex
  <2>1. Distance(cachedWriteIndex, readIndex) # 0
    BY <1>1, Indices, DistanceFrom DEF IInv
  <2>2. d \in Nat /\ d # 0
    BY <2>1, Chain
  <2>3. QED
    BY <2>2, <1>2, DistanceFrom
<1>4. Distance(writeIndex, readIndex)' = d - 1
  BY <1>1, <1>2, <1>3, DistanceFrom
<1>5. /\ Contents \in Seq(Items) /\ Len(Contents) = d
      /\ \A n \in 1 .. d : Contents[n] = ringBuffer[Slot(readIndex + n - 1)]
  BY ContentsType DEF IInv, ContentsAre
<1>6. /\ Contents' \in Seq(Items) /\ Len(Contents') = d - 1
      /\ \A n \in 1 .. d - 1 : Contents'[n] = ringBuffer[Slot(readIndex' + n - 1)]
  <2>1. TypeOK'
    BY DEF IInv
  <2>2. ContentsAre'
    BY <2>1, ContentsType, PTL
  <2>3. QED
    BY <2>2, <1>1, <1>4 DEF ContentsAre, Slot
<1> HIDE DEF d
<1>7. \A n \in 1 .. d - 1 : Slot(readIndex' + n - 1) = Slot(readIndex + (n + 1) - 1)
  <2> SUFFICES ASSUME NEW n \in 1 .. d - 1
               PROVE  Slot(readIndex' + n - 1) = Slot(readIndex + (n + 1) - 1)
    OBVIOUS
  <2>1. readIndex' = IF readIndex + 1 = IndexModulus THEN 0 ELSE readIndex + 1
    BY <1>1, <1>2, FollowingIs
  <2>2. CASE readIndex + 1 = IndexModulus
    <3>1. readIndex' + n - 1 = n - 1 /\ readIndex + (n + 1) - 1 = (n - 1) + IndexModulus /\ n - 1 \in Nat
      BY <2>1, <2>2, <1>2, <1>3, WidthBound DEF Index
    <3>2. QED
      BY <3>1, SlotWraps
  <2>3. CASE readIndex + 1 # IndexModulus
    <3>1. readIndex' + n - 1 = readIndex + (n + 1) - 1
      BY <2>1, <2>3, <1>2, <1>3, WidthBound DEF Index
    <3>2. QED
      BY <3>1
  <2>4. QED
    BY <2>2, <2>3
<1>8. Contents # << >> /\ item' = Head(Contents)
  <2>1. Contents # << >>
    BY <1>3, <1>5
  <2>2. Contents[1] = ringBuffer[Slot(readIndex + 1 - 1)] /\ readIndex + 1 - 1 = readIndex
    BY <1>2, <1>3, <1>5 DEF Index
  <2>3. Head(Contents) = Contents[1]
    BY <2>1, <1>5
  <2>4. QED
    BY <2>1, <2>2, <2>3, <1>1
<1>9. Contents' = Tail(Contents)
  <2>1. /\ Tail(Contents) \in Seq(Items) /\ Len(Tail(Contents)) = d - 1
        /\ \A n \in 1 .. d - 1 : Tail(Contents)[n] = Contents[n + 1]
    BY <1>5, <1>8, HeadTailProperties
  <2>2. \A n \in 1 .. d - 1 : n + 1 \in 1 .. d
    BY <1>3
  <2>3. \A n \in 1 .. d - 1 : Contents'[n] = Tail(Contents)[n]
    BY <2>1, <2>2, <1>5, <1>6, <1>7
  <2>4. QED
    BY <2>1, <2>3, <1>6, SeqEqual
<1>10. QED
  BY <1>8, <1>9

LEMMA InitRefines == Init => Queue!Init
<1> SUFFICES ASSUME Init PROVE Queue!Init
  OBVIOUS
<1>1. IInv
  BY InitInv
<1>2. Distance(writeIndex, readIndex) = 0
  BY <1>1, Indices, DistanceFrom DEF Init, IInv
<1>3. Contents = << >>
  BY <1>1, <1>2, ContentsType DEF IInv, ContentsAre
<1>4. QED
  BY <1>3 DEF Init, Queue!Init

LEMMA StepRefines == IInv /\ [Next]_vars => [Queue!Next]_Queue!vars
<1> SUFFICES ASSUME IInv, [Next]_vars PROVE [Queue!Next]_Queue!vars
  OBVIOUS
<1> IInv'
  BY InvStep
<1>1. ASSUME NEW i \in Items, FinishPush(i) PROVE Queue!Next
  BY <1>1, PushAppends DEF Queue!Next, Queue!Push
<1>2. CASE FinishPop
  BY <1>2, PopTakesHead DEF Queue!Next, Queue!Pop
<1>3. ASSUME UNCHANGED << ringBuffer, writeIndex, readIndex, item >>
      PROVE  UNCHANGED Queue!vars
  BY <1>3 DEF Queue!vars, Contents, Distance, Slot
<1>4. CASE StartPush \/ RefusePush \/ StartPop \/ RefusePop
  BY <1>3, <1>4 DEF StartPush, RefusePush, StartPop, RefusePop, producer, consumer
<1>5. CASE WriteBecomesVisible \/ ReadBecomesVisible \/ UNCHANGED vars
  BY <1>3, <1>5 DEF WriteBecomesVisible, ReadBecomesVisible, vars, producer, consumer
<1>6. QED
  BY <1>1, <1>2, <1>4, <1>5 DEF Next, Produce, Consume

(* The ring is a bounded first-in first-out queue: FinishPush appends to   *)
(* what it holds, FinishPop takes the head, and nothing else changes it.   *)
THEOREM Refinement == Spec => ImplementsQueue
BY Invariance, InitRefines, StepRefines, PTL DEF Spec, ImplementsQueue, Queue!Spec
=============================================================================
