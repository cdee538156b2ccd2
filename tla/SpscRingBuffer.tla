--------------------------- MODULE SpscRingBuffer ---------------------------
(***************************************************************************)
(* src/host/include/normalizer/runtime/spsc_ringbuffer.hpp: the ring       *)
(* buffer between the replay thread, which pushes, and the host thread,    *)
(* which pops.  A step holds at most one access to an index of the other   *)
(* thread.  Such an access returns the value the thread can see, which may *)
(* lag behind the last store: writeSeen is the consumer's view of          *)
(* writeIndex, readSeen the producer's view of readIndex.  Copying an item *)
(* takes time: pushing and popping say that a slot is being accessed.      *)
(***************************************************************************)
EXTENDS Integers, Sequences

CONSTANTS
  Items, Capacity,
  IndexModulus      \* 2^64 in the code: indices wrap, only their difference counts

ASSUME RingAssumption ==
  /\ Capacity \in Nat \ {0, 1}
  /\ IndexModulus \in Nat \ {0, Capacity} /\ IndexModulus % Capacity = 0

VARIABLES
  ringBuffer,
  writeIndex, cachedReadIndex, readSeen, pushing,     \* the producer's
  readIndex, cachedWriteIndex, writeSeen, popping,    \* the consumer's
  item                                                \* the consumer's message

producer == << writeIndex, cachedReadIndex, pushing >>
consumer == << readIndex, cachedWriteIndex, popping, item >>
vars == << ringBuffer, producer, readSeen, consumer, writeSeen >>

Init ==
  /\ item \in Items
  /\ ringBuffer = [slot \in 0 .. Capacity - 1 |-> item]
  /\ writeIndex = 0 /\ cachedReadIndex = 0 /\ readSeen = 0 /\ pushing = FALSE
  /\ readIndex = 0 /\ cachedWriteIndex = 0 /\ writeSeen = 0 /\ popping = FALSE

-----------------------------------------------------------------------------
(* ringBuffer_[index & Mask]; Capacity is a power of two.                  *)
Slot(index) == index % Capacity

Following(index) == (index + 1) % IndexModulus

Distance(write, read) == (write - read) % IndexModulus

(* Mutant: one item more than the ring holds. *)
FullAgainstOneMore(read) == Distance(writeIndex, read) > Capacity

FullAgainst(read) == Distance(writeIndex, read) >= Capacity

(* What tryPush and tryPop compare with: the cached index of the other     *)
(* side, loaded anew when the cached one says full, or empty.              *)
ReadIndexUsed == IF FullAgainst(cachedReadIndex) THEN readSeen ELSE cachedReadIndex

(* Mutant: an empty ring is popped. *)
WriteIndexUsedUnchecked == IF readIndex = cachedWriteIndex THEN Following(readIndex) ELSE cachedWriteIndex

WriteIndexUsed == IF readIndex = cachedWriteIndex THEN writeSeen ELSE cachedWriteIndex

-----------------------------------------------------------------------------
(* tryPush                                                                 *)
StartPush ==
  /\ ~pushing
  /\ ~FullAgainst(ReadIndexUsed)
  /\ cachedReadIndex' = ReadIndexUsed
  /\ pushing' = TRUE
  /\ UNCHANGED << ringBuffer, writeIndex, readSeen, consumer, writeSeen >>

RefusePush ==
  /\ ~pushing
  /\ FullAgainst(ReadIndexUsed)
  /\ cachedReadIndex' = ReadIndexUsed
  /\ UNCHANGED << ringBuffer, writeIndex, pushing, readSeen, consumer, writeSeen >>

FinishPush(i) ==
  /\ pushing
  /\ ringBuffer' = [ringBuffer EXCEPT ![Slot(writeIndex)] = i]
  /\ writeIndex' = Following(writeIndex)
  /\ pushing' = FALSE
  /\ UNCHANGED << cachedReadIndex, readSeen, consumer, writeSeen >>

(* tryPop                                                                  *)
StartPop ==
  /\ ~popping
  /\ readIndex # WriteIndexUsed
  /\ cachedWriteIndex' = WriteIndexUsed
  /\ popping' = TRUE
  /\ UNCHANGED << ringBuffer, producer, readSeen, readIndex, item, writeSeen >>

RefusePop ==
  /\ ~popping
  /\ readIndex = WriteIndexUsed
  /\ cachedWriteIndex' = WriteIndexUsed
  /\ UNCHANGED << ringBuffer, producer, readSeen, readIndex, popping, item, writeSeen >>

FinishPop ==
  /\ popping
  /\ item' = ringBuffer[Slot(readIndex)]
  /\ readIndex' = Following(readIndex)
  /\ popping' = FALSE
  /\ UNCHANGED << ringBuffer, producer, readSeen, cachedWriteIndex, writeSeen >>

(* empty(), called by the consumer with a relaxed load of writeIndex.      *)
Empty == readIndex = writeSeen

-----------------------------------------------------------------------------
(* A store of one thread becomes visible to the other.                     *)
WriteBecomesVisible ==
  /\ writeSeen # writeIndex
  /\ writeSeen' = Following(writeSeen)
  /\ UNCHANGED << ringBuffer, producer, readSeen, consumer >>

ReadBecomesVisible ==
  /\ readSeen # readIndex
  /\ readSeen' = Following(readSeen)
  /\ UNCHANGED << ringBuffer, producer, consumer, writeSeen >>

Produce == StartPush \/ RefusePush \/ \E i \in Items : FinishPush(i)

Consume == StartPop \/ RefusePop \/ FinishPop

Next == Produce \/ Consume \/ WriteBecomesVisible \/ ReadBecomesVisible

Spec == Init /\ [][Next]_vars

-----------------------------------------------------------------------------
Index == 0 .. IndexModulus - 1

TypeOK ==
  /\ ringBuffer \in [0 .. Capacity - 1 -> Items] /\ item \in Items
  /\ {writeIndex, cachedReadIndex, readSeen} \subseteq Index
  /\ {readIndex, cachedWriteIndex, writeSeen} \subseteq Index
  /\ pushing \in BOOLEAN /\ popping \in BOOLEAN

(***************************************************************************)
(* The slots are not atomic: while the consumer moves an item out, the     *)
(* producer never copies into the same slot, whatever cached index either  *)
(* of them went by (spsc_ringbuffer.hpp, tryPush and tryPop).              *)
(***************************************************************************)
NoSlotRace == ~(pushing /\ popping /\ Slot(writeIndex) = Slot(readIndex))

(***************************************************************************)
(* The ring is a bounded first-in first-out queue: no item is lost,        *)
(* repeated, reordered or overwritten before it is taken, across the wrap  *)
(* of the slots and of the indices.                                        *)
(***************************************************************************)
Contents ==
  [n \in 1 .. Distance(writeIndex, readIndex) |-> ringBuffer[Slot(readIndex + n - 1)]]

Queue == INSTANCE MessageQueue WITH queue <- Contents

ImplementsQueue == Queue!Spec

=============================================================================
