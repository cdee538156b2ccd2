-------------------------- MODULE ReplayRun_proofs --------------------------
(***************************************************************************)
(* A run that says it is complete is, what is sent is sequenced, and on a  *)
(* link without losses every decision is the expected one: for every file, *)
(* every capacity of the ring, the batch and the pending intents, and      *)
(* whatever fails.                                                         *)
(***************************************************************************)
EXTENDS ReplayRun, FiniteSetTheorems, SequenceTheorems, TLAPS

Statuses == {"Starting", "AffinityFailed", "FileOpenFailed", "ReadFailed", "Ready", "Running",
             "Stopped", "InvalidTimestamp", "QueueOverflow", "Complete"}

(* No index wraps: there are fewer messages in a file.                     *)
RingInv ==
  /\ file \in Files
  /\ {writeIndex, cachedReadIndex, readSeen, readIndex, cachedWriteIndex, writeSeen} \subseteq Nat
  /\ cachedReadIndex <= readSeen /\ readSeen <= readIndex
  /\ readIndex <= cachedWriteIndex /\ cachedWriteIndex <= writeSeen
  /\ writeSeen <= writeIndex /\ writeIndex <= Len(file)
  /\ writeIndex <= cachedReadIndex + Capacity
  /\ pushing \in BOOLEAN /\ pushing => writeIndex < cachedReadIndex + Capacity
  /\ popping \in BOOLEAN /\ popping => readIndex < cachedWriteIndex
  /\ ringBuffer \in [0 .. Capacity - 1 -> Positions]

(* The ring holds the positions of the file that are pushed and not popped.*)
Contents ==
  /\ \A n \in readIndex .. writeIndex - 1 : ringBuffer[n % Capacity] = n + 1
  /\ handled = [n \in 1 .. readIndex |-> n]

(* The replay thread pushes one position after the other.                  *)
Pushed ==
  /\ replay \in {"setup", "waiting", "pacing", "pushing", "reading", "ended"}
  /\ position \in 1 .. Len(file)
  /\ replay \in {"setup", "waiting", "pacing", "pushing"} => position = writeIndex + 1
  /\ replay = "reading" => position = writeIndex
  /\ pushing <=> replay = "pushing"
  /\ \A n \in 1 .. writeIndex : HasTimestamp(n)
  /\ pushing => HasTimestamp(position)

Final(status) == status \in {"Complete", "Stopped"} \/ ReplayFailed(status)

LastStatus == statusLog[Len(statusLog)].status

(* A final status is the last, and "Complete" publishes all positions.     *)
StatusInv ==
  /\ statusLog \in Seq([status : Statuses, writes : Nat])
  /\ statusSeen \in 1 .. Len(statusLog)
  /\ \A k \in DOMAIN statusLog :
       /\ statusLog[k].writes <= writeIndex
       /\ Final(statusLog[k].status) => k = Len(statusLog) /\ replay = "ended"
       /\ statusLog[k].status = "Complete" => statusLog[k].writes = Len(file)

(* The whole file was popped and nothing waits to be sent or answered.     *)
Finished ==
  /\ readIndex = Len(file)
  /\ gateway.status = "Ok" /\ gateway.batch = << >> /\ gateway.pending = << >>

(* Why the host thread is where it is.                                     *)
HostInv ==
  /\ main \in {"setup", "check", "setupFailed", "service", "pop", "taking", "status", "drained",
               "stopping", "join", "exited"}
  /\ interruptRequested \in BOOLEAN /\ downstreamFlushed \in BOOLEAN /\ exitCode \in Int
  /\ popping <=> main = "taking"
  /\ main = "drained" => writeSeen = Len(file)
  /\ gateway.status # "Ok" => main \in {"stopping", "join", "exited"}
  /\ downstreamFlushed =>
       readIndex = Len(file) /\ (gateway.status = "Ok" => gateway.batch = << >>)
  /\ main \in {"stopping", "join"} =>
       \/ interruptRequested \/ gateway.status # "Ok" \/ Finished
       \/ ReplayFailed(LastStatus) /\ replay = "ended"
  /\ main # "exited" => exitCode # 0
  /\ exitCode = 0 => Finished

-----------------------------------------------------------------------------
Message == [kind : Kinds, number : Nat]

Datagram == Seq(Message)

GatewayStatuses ==
  {"Ok", "DownstreamSendFailed", "SequenceNumberExhausted", "PendingIntentQueueFull",
   "ProcessingFailed", "UnexpectedOrderDecision", "UpstreamReceiveFailed"}

GatewayRecord ==
  [batch : Datagram, oldestMessageTime : Nat, nextSequenceNumber : Nat, pending : Seq(Nat),
   status : GatewayStatuses, sent : Seq(Datagram), failing : Nat]

(* The number that follows the datagrams of s.                             *)
NextNumber(s) == IF s = << >> THEN StartupCommands + 1 ELSE NumberAfter(s[Len(s)])

WellFormed(d) ==
  /\ d # << >>
  /\ \A j \in DOMAIN d : d[j].number = d[1].number + j - 1
  /\ IntentsOf(d) \subseteq {Len(d)}

Sequenced(s) ==
  /\ s \in Seq(Datagram)
  /\ \A i \in DOMAIN s :
       /\ WellFormed(s[i])
       /\ s[i][1].number = IF i = 1 THEN StartupCommands + 1 ELSE NumberAfter(s[i - 1])
  /\ \A i, k \in DOMAIN s : i < k => NumberAfter(s[i]) <= s[k][1].number

(* The numbers in the batch continue those of s.                           *)
Continues(s, batch) == \A j \in DOMAIN batch : batch[j].number = NextNumber(s) + j - 1

(* So does the number to be used next, until it is exhausted.              *)
Upcoming(s, g) ==
  LET next == NextNumber(s) + Len(g.batch)
  IN  /\ next <= SequenceModulus
      /\ g.nextSequenceNumber = IF next = SequenceModulus THEN 0 ELSE next

Batched(s, g) ==
  /\ Continues(s, g.batch) /\ IntentsOf(g.batch) = {}
  /\ Upcoming(s, g)

IntentsIn(s) == UNION {{s[i][j].number : j \in IntentsOf(s[i])} : i \in DOMAIN s}

Elements(q) == {q[i] : i \in DOMAIN q}

(* The intents sent are those decided and those pending, in this order.    *)
Answerable(q, s) == Increasing(q) /\ Elements(q) = IntentsIn(s)

Ordered == decided \o gateway.pending

(* The number that follows the datagrams that have left the link.          *)
CarriedTo == IF carried = 0 THEN StartupCommands + 1 ELSE NumberAfter(stream[carried])

(* Nothing lost: the decisions in the socket are the next that are         *)
(* pending, and those of all the orders that the FPGA has got.             *)
Expected ==
  /\ Len(decided) + Len(inbound) <= Len(Ordered)
  /\ \A i \in DOMAIN inbound : inbound[i] = Ordered[Len(decided) + i]
  /\ \A k \in DOMAIN Ordered : k <= Len(decided) + Len(inbound) <=> Ordered[k] < CarriedTo

GatewayInv ==
  /\ gateway \in GatewayRecord /\ gateway.sent = << >>
  /\ time \in Nat /\ nowNs \in Nat
  /\ inbound \in Seq(Nat) /\ decided \in Seq(Nat)
  /\ carried \in 0 .. Len(stream)
  /\ Sequenced(stream)
  /\ gateway.status = "Ok" => Batched(stream, gateway)
  /\ gateway.status = "Ok" => Answerable(Ordered, stream)
  /\ lossFree /\ gateway.status = "Ok" => Expected
  /\ DecisionsExpected

IInv == RingInv /\ Contents /\ Pushed /\ StatusInv /\ HostInv /\ GatewayInv

-----------------------------------------------------------------------------
(* The ring                                                                *)
LEMMA FileLength ==
  ASSUME file \in Files
  PROVE  /\ file \in Seq([time : 0 .. MaxTime, kind : Kinds])
         /\ Len(file) \in Nat /\ 1 <= Len(file) /\ Len(file) < IndexModulus
<1>1. file \in Seq([time : 0 .. MaxTime, kind : Kinds]) /\ Len(file) \in 1 .. IndexModulus - 1
  BY FilesAssumption
<1> QED BY <1>1, ConstantsAssumption

LEMMA DivMod ==
  ASSUME NEW m \in Nat \ {0}, NEW x \in Int
  PROVE  x \div m \in Int /\ x % m \in 0 .. m - 1 /\ x = m * (x \div m) + (x % m)
OBVIOUS

LEMMA Remainder ==
  ASSUME NEW m \in Nat \ {0}, NEW x \in Nat, x < m
  PROVE  x % m = x
<1> DEFINE q == x \div m
           y == x % m
<1>1. q \in Int /\ y \in 0 .. m - 1 /\ x = m * q + y
  BY DivMod
<1> HIDE DEF q, y
<1>2. (q >= 1 => m * q >= m) /\ (q <= -1 => m * q <= -m) /\ (q = 0 => m * q = 0) /\ m * q \in Int
  BY <1>1
<1>3. q = 0
  BY <1>1, <1>2
<1>4. y = x
  BY <1>1, <1>2, <1>3
<1> QED BY <1>4 DEF y

LEMMA NoWrap ==
  /\ \A w, r \in Nat : r <= w /\ w < IndexModulus => Ring!Distance(w, r) = w - r
  /\ \A r \in Nat : r + 1 < IndexModulus => Ring!Following(r) = r + 1
<1>1. IndexModulus \in Nat
  BY ConstantsAssumption
<1>2. ASSUME NEW w \in Nat, NEW r \in Nat, r <= w, w < IndexModulus
      PROVE  Ring!Distance(w, r) = w - r
  <2>1. IndexModulus \in Nat \ {0} /\ w - r \in Nat /\ w - r < IndexModulus
    BY <1>1, <1>2
  <2>2. (w - r) % IndexModulus = w - r
    BY <2>1, Remainder
  <2> QED BY <2>2 DEF Ring!Distance
<1>3. ASSUME NEW r \in Nat, r + 1 < IndexModulus
      PROVE  Ring!Following(r) = r + 1
  <2>1. IndexModulus \in Nat \ {0} /\ r + 1 \in Nat
    BY <1>1, <1>3
  <2>2. (r + 1) % IndexModulus = r + 1
    BY <1>3, <2>1, Remainder
  <2> QED BY <2>2 DEF Ring!Following
<1> QED BY <1>2, <1>3

(* Two positions less than a capacity apart are in different slots.        *)
LEMMA SlotsApart ==
  ASSUME NEW a \in Nat, NEW b \in Nat, a < b, b - a < Capacity
  PROVE  a % Capacity # b % Capacity
<1> SUFFICES ASSUME a % Capacity = b % Capacity PROVE FALSE
  OBVIOUS
<1>1. Capacity \in Nat /\ 2 <= Capacity
  BY ConstantsAssumption
<1>2. Capacity \in Nat \ {0} /\ a \in Int /\ b \in Int
  BY <1>1
<1>a. a \div Capacity \in Int /\ a % Capacity \in 0 .. Capacity - 1
      /\ a = Capacity * (a \div Capacity) + (a % Capacity)
  BY <1>2, DivMod
<1>b. b \div Capacity \in Int /\ b = Capacity * (b \div Capacity) + (b % Capacity)
  BY <1>2, DivMod
<1> DEFINE p == a \div Capacity
           q == b \div Capacity
           c == a % Capacity
<1>3. p \in Int /\ q \in Int /\ c \in Int /\ a = Capacity * p + c /\ b = Capacity * q + c
  BY <1>a, <1>b
<1> HIDE DEF p, q, c
<1>4. b - a = Capacity * (q - p)
  BY <1>1, <1>3
<1>5. q - p \in Int /\ (q - p <= 0 => Capacity * (q - p) <= 0)
      /\ (q - p >= 1 => Capacity * (q - p) >= Capacity)
  BY <1>1, <1>3
<1> QED BY <1>1, <1>4, <1>5

LEMMA SlotType == ASSUME NEW a \in Nat PROVE a % Capacity \in 0 .. Capacity - 1
<1>1. Capacity \in Nat \ {0}
  BY ConstantsAssumption
<1> QED BY <1>1, DivMod

(* What the indices are to each other.                                     *)
LEMMA Indices ==
  ASSUME RingInv
  PROVE  /\ writeIndex \in Nat /\ cachedReadIndex \in Nat /\ readSeen \in Nat
         /\ readIndex \in Nat /\ cachedWriteIndex \in Nat /\ writeSeen \in Nat
         /\ cachedReadIndex <= readSeen /\ readSeen <= readIndex
         /\ readIndex <= cachedWriteIndex /\ cachedWriteIndex <= writeSeen
         /\ writeSeen <= writeIndex /\ writeIndex <= Len(file)
         /\ Len(file) \in Nat /\ Len(file) < IndexModulus /\ IndexModulus \in Nat
         /\ Capacity \in Nat /\ 2 <= Capacity
BY FileLength, ConstantsAssumption DEF RingInv

LEMMA StartPushStep ==
  ASSUME RingInv, Contents, Ring!StartPush, UNCHANGED << file, handled >>
  PROVE  RingInv' /\ Contents'
<1>1. /\ Ring!Distance(writeIndex, cachedReadIndex) = writeIndex - cachedReadIndex
      /\ Ring!Distance(writeIndex, readSeen) = writeIndex - readSeen
  <2>1. /\ cachedReadIndex <= writeIndex /\ readSeen <= writeIndex /\ writeIndex < IndexModulus
        /\ writeIndex \in Nat /\ cachedReadIndex \in Nat /\ readSeen \in Nat
    BY Indices
  <2> QED BY <2>1, NoWrap
<1>2. /\ cachedReadIndex' \in {cachedReadIndex, readSeen}
      /\ writeIndex < cachedReadIndex' + Capacity
  BY <1>1, Indices DEF Ring!StartPush, Ring!ReadIndexUsed, Ring!FullAgainst
<1>3. pushing' = TRUE /\ UNCHANGED << ringBuffer, writeIndex, readSeen, readIndex,
                                      cachedWriteIndex, popping, writeSeen >>
  BY DEF Ring!StartPush, Ring!consumer
<1> QED BY <1>2, <1>3, Indices DEF RingInv, Contents

LEMMA RefusePushStep ==
  ASSUME RingInv, Contents, Ring!RefusePush, UNCHANGED << file, handled >>
  PROVE  RingInv' /\ Contents'
<1>1. cachedReadIndex' \in {cachedReadIndex, readSeen} /\ ~pushing
  BY DEF Ring!RefusePush, Ring!ReadIndexUsed
<1>2. UNCHANGED << ringBuffer, writeIndex, pushing, readSeen, readIndex, cachedWriteIndex, popping,
                   writeSeen >>
  BY DEF Ring!RefusePush, Ring!consumer
<1> QED BY <1>1, <1>2, Indices DEF RingInv, Contents

LEMMA FinishPushStep ==
  ASSUME RingInv, Contents, Ring!FinishPush(writeIndex + 1), writeIndex < Len(file),
         UNCHANGED << file, handled >>
  PROVE  RingInv' /\ Contents' /\ writeIndex' = writeIndex + 1
<1>1. writeIndex' = writeIndex + 1
  <2>1. writeIndex \in Nat /\ writeIndex + 1 < IndexModulus
    BY Indices
  <2> QED BY <2>1, NoWrap DEF Ring!FinishPush
<1>2. /\ pushing /\ pushing' = FALSE
      /\ ringBuffer' = [ringBuffer EXCEPT ![writeIndex % Capacity] = writeIndex + 1]
      /\ UNCHANGED << cachedReadIndex, readSeen, readIndex, cachedWriteIndex, popping, writeSeen >>
  BY DEF Ring!FinishPush, Ring!consumer, Ring!Slot
<1>3. writeIndex + 1 \in Positions
  BY Indices DEF Positions
<1>4. ringBuffer' \in [0 .. Capacity - 1 -> Positions]
  BY <1>2, <1>3 DEF RingInv
<1>5. RingInv'
  <2>1. writeIndex < cachedReadIndex + Capacity
    BY <1>2 DEF RingInv
  <2>2. writeIndex' \in Nat /\ writeIndex' <= Len(file) /\ writeIndex' <= cachedReadIndex + Capacity
        /\ writeSeen <= writeIndex'
    BY <1>1, <2>1, Indices
  <2> QED BY <1>2, <1>4, <2>2 DEF RingInv
<1>6. ASSUME NEW n \in readIndex .. writeIndex
      PROVE  ringBuffer'[n % Capacity] = n + 1
  <2>1. n \in Nat /\ n % Capacity \in 0 .. Capacity - 1 /\ writeIndex % Capacity \in 0 .. Capacity - 1
    <3>1. n \in Nat /\ writeIndex \in Nat
      BY Indices
    <3> QED BY <3>1, SlotType
  <2>2. CASE n = writeIndex
    BY <1>2, <2>1, <2>2 DEF RingInv
  <2>3. CASE n # writeIndex
    <3>1. n < writeIndex /\ writeIndex - n < Capacity /\ n \in readIndex .. writeIndex - 1
      <4>1. writeIndex < cachedReadIndex + Capacity
        BY <1>2 DEF RingInv
      <4>2. /\ writeIndex \in Nat /\ readIndex \in Nat /\ cachedReadIndex \in Nat
            /\ Capacity \in Nat /\ cachedReadIndex <= readIndex
        BY Indices
      <4> HIDE DEF RingInv
      <4>3. n < writeIndex /\ readIndex <= n /\ n \in readIndex .. writeIndex - 1
        BY <2>3, <4>2
      <4> QED BY <4>1, <4>2, <4>3
    <3>2. n % Capacity # writeIndex % Capacity
      BY <2>1, <3>1, Indices, SlotsApart
    <3>3. ringBuffer[n % Capacity] = n + 1
      BY <3>1 DEF Contents
    <3> QED BY <1>2, <2>1, <3>2, <3>3 DEF RingInv
  <2> QED BY <2>2, <2>3
<1>7. readIndex' .. writeIndex' - 1 = readIndex .. writeIndex
  BY <1>1, <1>2, Indices
<1>8. Contents'
  BY <1>2, <1>6, <1>7 DEF Contents
<1> QED BY <1>1, <1>5, <1>8

LEMMA StartPopStep ==
  ASSUME RingInv, Contents, Ring!StartPop, UNCHANGED << file, handled >>
  PROVE  RingInv' /\ Contents'
<1>1. /\ cachedWriteIndex' \in {cachedWriteIndex, writeSeen} /\ readIndex # cachedWriteIndex'
      /\ cachedWriteIndex <= cachedWriteIndex'
  BY Indices DEF Ring!StartPop, Ring!WriteIndexUsed
<1>2. UNCHANGED << ringBuffer, writeIndex, cachedReadIndex, pushing, readSeen, readIndex,
                   writeSeen >> /\ popping' = TRUE
  BY DEF Ring!StartPop, Ring!producer
<1> QED BY <1>1, <1>2, Indices DEF RingInv, Contents

LEMMA RefusePopStep ==
  ASSUME RingInv, Contents, Ring!RefusePop, UNCHANGED << file, handled >>
  PROVE  RingInv' /\ Contents'
<1>1. cachedWriteIndex' \in {cachedWriteIndex, writeSeen} /\ cachedWriteIndex <= cachedWriteIndex'
  BY Indices DEF Ring!RefusePop, Ring!WriteIndexUsed
<1>2. UNCHANGED << ringBuffer, writeIndex, cachedReadIndex, pushing, readSeen, readIndex, popping,
                   writeSeen >> /\ ~popping
  BY DEF Ring!RefusePop, Ring!producer
<1> QED BY <1>1, <1>2, Indices DEF RingInv, Contents

LEMMA FinishPopStep ==
  ASSUME RingInv, Contents, Ring!FinishPop, handled' = Append(handled, item'), UNCHANGED file
  PROVE  /\ RingInv' /\ Contents'
         /\ readIndex' = readIndex + 1 /\ item' = readIndex + 1 /\ readIndex < writeIndex
<1>1. readIndex < writeIndex /\ popping
  BY Indices DEF Ring!FinishPop, RingInv
<1>2. readIndex' = readIndex + 1
  <2>1. readIndex \in Nat /\ readIndex + 1 < IndexModulus
    BY <1>1, Indices
  <2> QED BY <2>1, NoWrap DEF Ring!FinishPop
<1>3. item' = readIndex + 1
  <2>1. readIndex \in readIndex .. writeIndex - 1
    BY <1>1, Indices
  <2>2. ringBuffer[readIndex % Capacity] = readIndex + 1
    BY <2>1 DEF Contents
  <2> QED BY <2>2 DEF Ring!FinishPop, Ring!Slot
<1>4. /\ UNCHANGED << ringBuffer, writeIndex, cachedReadIndex, pushing, readSeen,
                      cachedWriteIndex, writeSeen >>
      /\ popping' = FALSE
  BY DEF Ring!FinishPop, Ring!producer
<1>5. RingInv'
  <2>1. readIndex < cachedWriteIndex
    BY <1>1 DEF RingInv
  <2>2. readIndex' \in Nat /\ readSeen <= readIndex' /\ readIndex' <= cachedWriteIndex
    BY <1>2, <2>1, Indices
  <2> QED BY <1>4, <2>2 DEF RingInv
<1>6. \A n \in readIndex' .. writeIndex' - 1 : n \in readIndex .. writeIndex - 1
  BY <1>2, <1>4, Indices
<1>7. handled' = [n \in 1 .. readIndex' |-> n]
  <2>1. handled = [n \in 1 .. readIndex |-> n] /\ handled \in Seq(Nat) /\ Len(handled) = readIndex
    BY Indices DEF Contents
  <2>2. handled' = [n \in 1 .. readIndex + 1 |-> IF n <= readIndex THEN handled[n] ELSE readIndex + 1]
    BY <1>3, <2>1, Indices
  <2> QED BY <1>2, <2>1, <2>2, Indices
<1> QED BY <1>1, <1>2, <1>3, <1>4, <1>5, <1>6, <1>7 DEF Contents

LEMMA WriteVisibleStep ==
  ASSUME RingInv, Contents, Ring!WriteBecomesVisible, UNCHANGED << file, item, handled >>
  PROVE  RingInv' /\ Contents'
<1>1. writeSeen < writeIndex /\ writeSeen' = writeSeen + 1
  <2>1. writeSeen \in Nat /\ writeIndex \in Nat /\ writeSeen <= writeIndex
    BY Indices
  <2>2. writeSeen < writeIndex /\ writeSeen + 1 < IndexModulus
    BY <2>1, Indices DEF Ring!WriteBecomesVisible
  <2> QED BY <2>1, <2>2, NoWrap DEF Ring!WriteBecomesVisible
<1>2. UNCHANGED << ringBuffer, writeIndex, cachedReadIndex, pushing, readSeen, readIndex,
                   cachedWriteIndex, popping >>
  BY DEF Ring!WriteBecomesVisible, Ring!producer, Ring!consumer
<1>3. RingInv'
  <2>1. writeSeen' \in Nat /\ cachedWriteIndex <= writeSeen' /\ writeSeen' <= writeIndex
    BY <1>1, Indices
  <2> QED BY <1>2, <2>1 DEF RingInv
<1> QED BY <1>2, <1>3 DEF Contents

LEMMA ReadVisibleStep ==
  ASSUME RingInv, Contents, Ring!ReadBecomesVisible, UNCHANGED << file, item, handled >>
  PROVE  RingInv' /\ Contents'
<1>1. readSeen < readIndex /\ readSeen' = readSeen + 1
  <2>1. readIndex \in Nat /\ readSeen \in Nat /\ readSeen <= readIndex /\ readIndex < IndexModulus
    BY Indices
  <2>2. readSeen < readIndex /\ readSeen + 1 < IndexModulus
    BY <2>1, Indices DEF Ring!ReadBecomesVisible
  <2> QED BY <2>1, <2>2, NoWrap DEF Ring!ReadBecomesVisible
<1>2. UNCHANGED << ringBuffer, writeIndex, cachedReadIndex, pushing, readIndex,
                   cachedWriteIndex, popping, writeSeen >>
  BY DEF Ring!ReadBecomesVisible, Ring!producer, Ring!consumer
<1>3. RingInv'
  <2>1. readSeen' \in Nat /\ cachedReadIndex <= readSeen' /\ readSeen' <= readIndex
    BY <1>1, Indices
  <2> QED BY <1>2, <2>1 DEF RingInv
<1> QED BY <1>2, <1>3 DEF Contents

LEMMA RingUnchanged ==
  ASSUME RingInv, Contents, UNCHANGED << ring, file, handled >>
  PROVE  RingInv' /\ Contents'
BY DEF RingInv, Contents, ring, ringProducer, ringConsumer

-----------------------------------------------------------------------------
(* The replay thread                                                       *)
LEMMA StoreStatusStep ==
  ASSUME NEW status \in Statuses, RingInv, StatusInv, StoreStatus(status), replay # "ended",
         Final(status) => replay' = "ended", status = "Complete" => writeIndex = Len(file),
         UNCHANGED << file, writeIndex, statusSeen >>
  PROVE  StatusInv'
<1> DEFINE entry == [status |-> status, writes |-> writeIndex]
           Entry == [status : Statuses, writes : Nat]
<1>1. writeIndex \in Nat /\ entry \in Entry
  BY DEF RingInv
<1>2. statusLog \in Seq(Entry) /\ statusSeen \in 1 .. Len(statusLog)
  BY DEF StatusInv
<1>3. statusLog' = Append(statusLog, entry)
  BY DEF StoreStatus
<1> HIDE DEF Entry, entry
<1>4. /\ statusLog' \in Seq(Entry) /\ Len(statusLog') = Len(statusLog) + 1
      /\ Len(statusLog) \in Nat
      /\ statusLog'[Len(statusLog')] = entry
      /\ \A k \in 1 .. Len(statusLog) : statusLog'[k] = statusLog[k]
  BY <1>1, <1>2, <1>3
<1>5. statusSeen' \in 1 .. Len(statusLog')
  BY <1>2, <1>4
<1>6. ASSUME NEW k \in DOMAIN statusLog'
      PROVE  /\ statusLog'[k].writes <= writeIndex'
             /\ Final(statusLog'[k].status) => k = Len(statusLog') /\ replay' = "ended"
             /\ statusLog'[k].status = "Complete" => statusLog'[k].writes = Len(file')
  <2>1. CASE k = Len(statusLog')
    BY <1>1, <1>4, <2>1 DEF entry
  <2>2. CASE k # Len(statusLog')
    <3>1. k \in DOMAIN statusLog /\ statusLog'[k] = statusLog[k]
      BY <1>2, <1>4, <2>2
    <3>2. ~Final(statusLog[k].status) /\ statusLog[k].writes <= writeIndex
      BY <3>1 DEF StatusInv
    <3>3. statusLog[k].status # "Complete"
      BY <3>2 DEF Final
    <3> QED BY <3>1, <3>2, <3>3
  <2> QED BY <2>1, <2>2
<1> QED BY <1>4, <1>5, <1>6 DEF StatusInv, Entry

LEMMA StatusKept ==
  ASSUME RingInv, StatusInv, UNCHANGED << file, statusLog >>, statusSeen' \in 1 .. Len(statusLog),
         writeIndex' \in Nat, writeIndex <= writeIndex', replay = "ended" => replay' = "ended"
  PROVE  StatusInv'
<1>1. writeIndex \in Nat
  BY DEF RingInv
<1>2. ASSUME NEW k \in DOMAIN statusLog
      PROVE  statusLog[k].writes <= writeIndex'
  <2>1. statusLog[k].writes \in Nat
    <3> DEFINE Entry == [status : Statuses, writes : Nat]
    <3>1. statusLog \in Seq(Entry)
      BY DEF StatusInv
    <3>2. \A e \in Entry : e.writes \in Nat
      OBVIOUS
    <3> HIDE DEF Entry
    <3>3. statusLog[k] \in Entry
      BY <3>1
    <3> QED BY <3>2, <3>3
  <2>2. statusLog[k].writes <= writeIndex
    BY DEF StatusInv
  <2> QED BY <1>1, <2>1, <2>2
<1> QED BY <1>2 DEF StatusInv

LEMMA EndReplayStep ==
  ASSUME NEW status \in Statuses, RingInv, Contents, Pushed, StatusInv, EndReplay(status),
         replay \in {"setup", "waiting", "pacing", "reading"},
         status = "Complete" => writeIndex = Len(file),
         UNCHANGED << file, ring, statusSeen, handled >>
  PROVE  RingInv' /\ Contents' /\ Pushed' /\ StatusInv'
<1>1. RingInv' /\ Contents'
  BY RingUnchanged
<1>2. replay' = "ended" /\ StoreStatus(status) /\ position' = position
  BY DEF EndReplay
<1>3. UNCHANGED << writeIndex, pushing >>
  BY DEF ring, ringProducer
<1>4. StatusInv'
  BY <1>2, <1>3, StoreStatusStep
<1>5. Pushed'
  BY <1>2, <1>3 DEF Pushed, HasTimestamp
<1> QED BY <1>1, <1>4, <1>5

LEMMA FinalStatuses ==
  /\ ~Final("Ready") /\ ~Final("Running")
  /\ {"Ready", "Running", "Stopped", "InvalidTimestamp", "QueueOverflow", "Complete", "ReadFailed",
      "AffinityFailed", "FileOpenFailed"} \subseteq Statuses
BY DEF Final, ReplayFailed, Statuses

LEMMA ReplayStepOwn ==
  ASSUME RingInv, Contents, Pushed, StatusInv, ReplayStep
  PROVE  RingInv' /\ Contents' /\ Pushed' /\ StatusInv' /\ replay # "ended"
<1>1. UNCHANGED << file, statusSeen, handled >> /\ statusSeen \in 1 .. Len(statusLog)
  BY DEF ReplayStep, StatusInv
<1>2. writeIndex \in Nat /\ Len(file) \in Nat
  BY Indices
<1>3. CASE PushMessage
  <2>1. replay = "pacing" /\ replay' = "pushing" /\ Ring!StartPush /\ UNCHANGED << position, statusLog >>
        /\ HasTimestamp(position)
    BY <1>3 DEF PushMessage, ValidTimestamp
  <2>2. RingInv' /\ Contents'
    BY <1>1, <2>1, StartPushStep
  <2>3. pushing' = TRUE /\ writeIndex' = writeIndex
    BY <2>1 DEF Ring!StartPush
  <2>4. Pushed'
    BY <1>1, <2>1, <2>3 DEF Pushed, HasTimestamp
  <2>5. StatusInv'
    BY <1>1, <1>2, <2>1, <2>3, StatusKept
  <2> QED BY <2>1, <2>2, <2>4, <2>5
<1>4. CASE Overflow
  <2>1. replay = "pacing" /\ Ring!RefusePush /\ EndReplay("QueueOverflow")
    BY <1>4 DEF Overflow
  <2>2. RingInv' /\ Contents'
    BY <1>1, <2>1, RefusePushStep
  <2>3. UNCHANGED << pushing, writeIndex >>
    BY <2>1 DEF Ring!RefusePush
  <2>4. replay' = "ended" /\ StoreStatus("QueueOverflow") /\ position' = position
    BY <2>1 DEF EndReplay
  <2>5. Pushed'
    BY <1>1, <2>1, <2>3, <2>4 DEF Pushed, HasTimestamp
  <2>6. StatusInv'
    BY <1>1, <2>1, <2>3, <2>4, StoreStatusStep, FinalStatuses
  <2> QED BY <2>1, <2>2, <2>5, <2>6
<1>5. CASE MessagePushed
  <2>1. replay = "pushing" /\ replay' = "reading" /\ Ring!FinishPush(position)
        /\ UNCHANGED << position, statusLog >>
    BY <1>5 DEF MessagePushed
  <2>2. position = writeIndex + 1 /\ position <= Len(file) /\ HasTimestamp(position)
    BY <2>1 DEF Pushed
  <2>3. Ring!FinishPush(writeIndex + 1) /\ writeIndex < Len(file)
    BY <1>2, <2>1, <2>2
  <2>4. RingInv' /\ Contents' /\ writeIndex' = writeIndex + 1
    BY <1>1, <2>3, FinishPushStep
  <2>5. pushing' = FALSE
    BY <2>3 DEF Ring!FinishPush
  <2>6. \A n \in 1 .. writeIndex' : HasTimestamp(n)'
    <3>1. \A n \in 1 .. writeIndex' : n \in 1 .. writeIndex \/ n = position
      BY <1>2, <2>2, <2>4
    <3> QED BY <1>1, <2>2, <3>1 DEF Pushed, HasTimestamp
  <2>7. Pushed'
    BY <1>1, <2>1, <2>2, <2>4, <2>5, <2>6 DEF Pushed
  <2>8. StatusInv'
    BY <1>1, <1>2, <2>1, <2>4, StatusKept
  <2> QED BY <2>1, <2>4, <2>7, <2>8
<1>6. ASSUME UNCHANGED ring,
             \/ FailSetup \/ ReadFirst \/ StopWaiting \/ StartRunning
             \/ RejectTimestamp \/ StopPacing \/ ReadNext \/ EndOfFile \/ FailRead
      PROVE  RingInv' /\ Contents' /\ Pushed' /\ StatusInv' /\ replay # "ended"
  <2>1. RingInv' /\ Contents' /\ UNCHANGED << writeIndex, pushing >>
    BY <1>1, <1>6, RingUnchanged DEF ring, ringProducer
  <2>2. CASE FailSetup
    BY <1>1, <1>6, <2>2, EndReplayStep, FinalStatuses DEF FailSetup
  <2>3. CASE ReadFirst
    <3>1. CASE HasTimestamp(1)
      <4>1. StoreStatus("Ready") /\ replay = "setup" /\ replay' = "waiting" /\ position' = position
        BY <2>3, <3>1 DEF ReadFirst
      <4>2. StatusInv'
        BY <1>1, <2>1, <4>1, StoreStatusStep, FinalStatuses
      <4>3. Pushed'
        BY <1>1, <2>1, <4>1 DEF Pushed, HasTimestamp
      <4> QED BY <2>1, <4>1, <4>2, <4>3
    <3>2. CASE ~HasTimestamp(1)
      BY <1>1, <1>6, <2>3, <3>2, EndReplayStep, FinalStatuses DEF ReadFirst
    <3> QED BY <3>1, <3>2
  <2>4. CASE StopWaiting
    BY <1>1, <1>6, <2>4, EndReplayStep, FinalStatuses DEF StopWaiting
  <2>5. CASE StartRunning
    <3>1. StoreStatus("Running") /\ replay = "waiting" /\ replay' = "pacing" /\ position' = position
      BY <2>5 DEF StartRunning
    <3>2. StatusInv'
      BY <1>1, <2>1, <3>1, StoreStatusStep, FinalStatuses
    <3>3. Pushed'
      BY <1>1, <2>1, <3>1 DEF Pushed, HasTimestamp
    <3> QED BY <2>1, <3>1, <3>2, <3>3
  <2>6. CASE RejectTimestamp
    BY <1>1, <1>6, <2>6, EndReplayStep, FinalStatuses DEF RejectTimestamp
  <2>7. CASE StopPacing
    BY <1>1, <1>6, <2>7, EndReplayStep, FinalStatuses DEF StopPacing
  <2>8. CASE ReadNext
    <3>1. replay = "reading" /\ replay' = "pacing" /\ position < Len(file)
          /\ position' = position + 1 /\ statusLog' = statusLog
      BY <2>8 DEF ReadNext
    <3>2. position = writeIndex /\ position' = writeIndex' + 1 /\ position' \in 1 .. Len(file')
      BY <1>1, <1>2, <2>1, <3>1 DEF Pushed
    <3>3. Pushed'
      BY <1>1, <2>1, <3>1, <3>2 DEF Pushed, HasTimestamp
    <3>4. StatusInv'
      BY <1>1, <1>2, <2>1, <3>1, StatusKept
    <3> QED BY <2>1, <3>1, <3>3, <3>4
  <2>9. CASE EndOfFile
    <3>1. replay = "reading" /\ writeIndex = Len(file) /\ EndReplay("Complete")
      BY <2>9 DEF EndOfFile, Pushed
    <3> QED BY <1>1, <1>6, <3>1, EndReplayStep, FinalStatuses
  <2>10. CASE FailRead
    BY <1>1, <1>6, <2>10, EndReplayStep, FinalStatuses DEF FailRead
  <2> QED BY <1>6, <2>2, <2>3, <2>4, <2>5, <2>6, <2>7, <2>8, <2>9, <2>10
<1> QED BY <1>3, <1>4, <1>5, <1>6 DEF ReplayStep

LEMMA GatewayUnchanged ==
  ASSUME GatewayInv, UNCHANGED << time, nowNs, gateway, network, decided >>
  PROVE  GatewayInv'
BY DEF GatewayInv, network, Expected, Ordered, CarriedTo, DecisionsExpected

(* What the host thread goes by does not change while the replay runs.     *)
LEMMA ReplayStepHost ==
  ASSUME HostInv, GatewayInv, ReplayStep, replay # "ended"
  PROVE  HostInv' /\ GatewayInv'
<1>1. UNCHANGED << file, time, hostThread, interruptRequested, gateway, network, decided >>
  BY DEF ReplayStep, signals
<1>2. UNCHANGED << readIndex, popping, writeSeen >>
  BY DEF ReplayStep, PushMessage, Overflow, MessagePushed, Ring!StartPush, Ring!RefusePush,
         Ring!FinishPush, Ring!consumer, ring, ringConsumer
<1>3. GatewayInv'
  BY <1>1, GatewayUnchanged DEF hostThread
<1>4. HostInv'
  BY <1>1, <1>2 DEF HostInv, Finished, hostThread
<1> QED BY <1>3, <1>4

-----------------------------------------------------------------------------
(* What is sent                                                            *)
LEMMA ConcatOfAppend ==
  ASSUME NEW S, NEW s \in Seq(S), NEW t \in Seq(S), NEW d \in S
  PROVE  s \o Append(t, d) = Append(s \o t, d)
<1>1. Append(t, d) = t \o << d >> /\ << d >> \in Seq(S) /\ s \o t \in Seq(S)
  BY AppendIsConcat, ConcatProperties
<1>2. Append(s \o t, d) = (s \o t) \o << d >>
  BY <1>1, AppendIsConcat
<1> QED BY <1>1, <1>2, ConcatAssociative

LEMMA DatagramElements ==
  ASSUME NEW d \in Datagram
  PROVE  /\ Len(d) \in Nat /\ DOMAIN d = 1 .. Len(d)
         /\ \A j \in DOMAIN d : d[j] \in Message /\ d[j].number \in Nat
<1>1. \A m \in Message : m.number \in Nat
  BY DEF Message
<1>2. Len(d) \in Nat /\ DOMAIN d = 1 .. Len(d) /\ \A j \in 1 .. Len(d) : d[j] \in Message
  BY LenProperties, ElementOfSeq DEF Datagram
<1> QED BY <1>1, <1>2

LEMMA DatagramNumbers ==
  ASSUME NEW d \in Datagram, WellFormed(d)
  PROVE  /\ Len(d) >= 1 /\ d[1].number \in Nat
         /\ NumberAfter(d) \in Nat /\ NumberAfter(d) = d[1].number + Len(d)
         /\ \A j \in DOMAIN d : d[j].number < NumberAfter(d)
<1>1. Len(d) \in Nat /\ DOMAIN d = 1 .. Len(d)
      /\ \A j \in DOMAIN d : d[j].number \in Nat
  BY DatagramElements
<1>2. Len(d) >= 1
  BY <1>1, EmptySeq DEF WellFormed, Datagram
<1>3. 1 \in DOMAIN d /\ Len(d) \in DOMAIN d
  BY <1>1, <1>2
<1>4. d[1].number \in Nat /\ \A j \in DOMAIN d : d[j].number = d[1].number + j - 1
  BY <1>1, <1>3 DEF WellFormed
<1>5. NumberAfter(d) = d[1].number + Len(d) - 1 + 1
  BY <1>3, <1>4 DEF NumberAfter
<1> QED BY <1>1, <1>2, <1>4, <1>5

LEMMA StreamElements ==
  ASSUME NEW s, Sequenced(s)
  PROVE  /\ s \in Seq(Datagram) /\ Len(s) \in Nat /\ DOMAIN s = 1 .. Len(s)
         /\ \A i \in DOMAIN s : s[i] \in Datagram /\ WellFormed(s[i])
BY LenProperties, ElementOfSeq DEF Sequenced

LEMMA StreamNumbers ==
  ASSUME NEW s, Sequenced(s)
  PROVE  /\ NextNumber(s) \in Nat /\ StartupCommands + 1 <= NextNumber(s)
         /\ \A i \in DOMAIN s : NumberAfter(s[i]) \in Nat /\ NumberAfter(s[i]) <= NextNumber(s)
         /\ \A n \in IntentsIn(s) : n \in Nat /\ n < NextNumber(s)
<1>1. s \in Seq(Datagram) /\ Len(s) \in Nat /\ DOMAIN s = 1 .. Len(s)
      /\ \A i \in DOMAIN s : s[i] \in Datagram /\ WellFormed(s[i])
  BY StreamElements
<1>2. ASSUME NEW i \in DOMAIN s
      PROVE  /\ NumberAfter(s[i]) \in Nat /\ s[i][1].number \in Nat
             /\ s[i][1].number < NumberAfter(s[i])
             /\ \A j \in DOMAIN s[i] : s[i][j].number \in Nat /\ s[i][j].number < NumberAfter(s[i])
  <2>1. s[i] \in Datagram /\ WellFormed(s[i])
    BY <1>1
  <2>2. Len(s[i]) \in Nat /\ \A j \in DOMAIN s[i] : s[i][j].number \in Nat
    BY <2>1, DatagramElements
  <2> QED BY <2>1, <2>2, DatagramNumbers
<1>3. StartupCommands \in Nat
  BY ConstantsAssumption
<1>4. ASSUME NEW i \in DOMAIN s
      PROVE  /\ StartupCommands + 1 <= NumberAfter(s[i]) /\ NumberAfter(s[i]) <= NextNumber(s)
             /\ NextNumber(s) \in Nat
  <2>1. s # << >> /\ NextNumber(s) = NumberAfter(s[Len(s)]) /\ 1 \in DOMAIN s /\ Len(s) \in DOMAIN s
    BY <1>1 DEF NextNumber
  <2>2. \A k, l \in DOMAIN s : k < l => NumberAfter(s[k]) <= s[l][1].number
    BY DEF Sequenced
  <2>3. s[1][1].number = StartupCommands + 1
    BY <2>1 DEF Sequenced
  <2>4. NumberAfter(s[i]) <= NextNumber(s)
    <3>1. CASE i = Len(s)
      BY <1>2, <2>1, <3>1
    <3>2. CASE i < Len(s)
      <4>1. NumberAfter(s[i]) <= s[Len(s)][1].number
        BY <2>1, <2>2, <3>2
      <4> QED BY <1>2, <2>1, <4>1
    <3> QED BY <1>1, <3>1, <3>2
  <2>5. StartupCommands + 1 <= NumberAfter(s[i])
    <3>1. CASE i = 1
      BY <1>2, <1>3, <2>3, <3>1
    <3>2. CASE 1 < i
      <4>1. NumberAfter(s[1]) <= s[i][1].number
        BY <2>1, <2>2, <3>2
      <4> QED BY <1>2, <1>3, <2>1, <2>3, <4>1
    <3> QED BY <1>1, <3>1, <3>2
  <2> QED BY <1>2, <2>1, <2>4, <2>5
<1>5. NextNumber(s) \in Nat /\ StartupCommands + 1 <= NextNumber(s)
  <2>1. CASE s = << >>
    BY <1>3, <2>1 DEF NextNumber
  <2>2. CASE s # << >>
    <3>1. Len(s) \in DOMAIN s
      BY <1>1, <2>2, EmptySeq
    <3>2. NumberAfter(s[Len(s)]) = NextNumber(s)
      BY <2>2 DEF NextNumber
    <3> QED BY <1>4, <3>1, <3>2
  <2> QED BY <2>1, <2>2
<1>6. ASSUME NEW n \in IntentsIn(s)
      PROVE  n \in Nat /\ n < NextNumber(s)
  <2>1. PICK i \in DOMAIN s : n \in {s[i][j].number : j \in IntentsOf(s[i])}
    BY DEF IntentsIn
  <2>2. PICK j \in DOMAIN s[i] : n = s[i][j].number
    BY <2>1 DEF IntentsOf
  <2> QED BY <1>2, <1>4, <2>2
<1> QED BY <1>2, <1>4, <1>5, <1>6

(* One more datagram.                                                      *)
LEMMA SequencedAppend ==
  ASSUME NEW s, Sequenced(s), NEW d \in Datagram, WellFormed(d), d[1].number = NextNumber(s)
  PROVE  /\ Sequenced(Append(s, d))
         /\ NextNumber(Append(s, d)) = NextNumber(s) + Len(d)
         /\ IntentsIn(Append(s, d)) = IntentsIn(s) \cup {d[j].number : j \in IntentsOf(d)}
<1> DEFINE t == Append(s, d)
<1>1. s \in Seq(Datagram) /\ Len(s) \in Nat /\ DOMAIN s = 1 .. Len(s)
  BY StreamElements
<1>2. /\ t \in Seq(Datagram) /\ t # << >> /\ Len(t) = Len(s) + 1 /\ DOMAIN t = 1 .. Len(t)
      /\ t[Len(t)] = d /\ \A i \in DOMAIN s : t[i] = s[i]
  BY <1>1, AppendProperties
<1> HIDE DEF t
<1>3. ASSUME NEW i \in DOMAIN t
      PROVE  /\ WellFormed(t[i])
             /\ t[i][1].number = IF i = 1 THEN StartupCommands + 1 ELSE NumberAfter(t[i - 1])
  <2>1. CASE i \in DOMAIN s
    <3>1. t[i] = s[i] /\ (i # 1 => i - 1 \in DOMAIN s /\ t[i - 1] = s[i - 1])
      BY <1>1, <1>2, <2>1
    <3> QED BY <2>1, <3>1 DEF Sequenced
  <2>2. CASE i = Len(t)
    <3>1. CASE i = 1
      <4>1. s = << >>
        BY <1>1, <1>2, <2>2, <3>1, EmptySeq
      <4> QED BY <1>2, <2>2, <3>1, <4>1 DEF NextNumber
    <3>2. CASE i # 1
      <4>1. i - 1 = Len(s) /\ Len(s) \in DOMAIN s /\ s # << >>
        BY <1>1, <1>2, <2>2, <3>2
      <4>2. NextNumber(s) = NumberAfter(t[i - 1])
        BY <1>2, <4>1 DEF NextNumber
      <4> QED BY <1>2, <2>2, <3>2, <4>2
    <3> QED BY <3>1, <3>2
  <2> QED BY <1>1, <1>2, <2>1, <2>2
<1>4. ASSUME NEW i \in DOMAIN t, NEW k \in DOMAIN t, i < k
      PROVE  NumberAfter(t[i]) <= t[k][1].number
  <2>1. i \in DOMAIN s /\ t[i] = s[i]
    BY <1>1, <1>2, <1>4
  <2>2. CASE k \in DOMAIN s
    <3>1. t[k] = s[k]
      BY <1>2, <2>2
    <3> QED BY <1>4, <2>1, <2>2, <3>1 DEF Sequenced
  <2>3. CASE k = Len(t)
    BY <1>2, <2>1, <2>3, StreamNumbers
  <2> QED BY <1>1, <1>2, <2>2, <2>3
<1>5. Sequenced(t)
  BY <1>2, <1>3, <1>4 DEF Sequenced
<1>6. NextNumber(t) = NextNumber(s) + Len(d)
  BY <1>2, DatagramNumbers DEF NextNumber
<1>7. IntentsIn(t) = IntentsIn(s) \cup {d[j].number : j \in IntentsOf(d)}
  <2>1. DOMAIN t = DOMAIN s \cup {Len(t)}
    BY <1>1, <1>2
  <2> DEFINE Has(x, n) == \E j \in IntentsOf(x) : n = x[j].number
  <2>2. /\ \A n : n \in IntentsIn(t) <=> \E i \in DOMAIN t : Has(t[i], n)
        /\ \A n : n \in IntentsIn(s) <=> \E i \in DOMAIN s : Has(s[i], n)
        /\ \A n : n \in {d[j].number : j \in IntentsOf(d)} <=> Has(d, n)
    BY DEF IntentsIn
  <2> HIDE DEF Has
  <2>3. \A n : (\E i \in DOMAIN t : Has(t[i], n)) <=> (\E i \in DOMAIN s : Has(s[i], n)) \/ Has(d, n)
    BY <1>2, <2>1
  <2> QED BY <2>2, <2>3
<1> QED BY <1>5, <1>6, <1>7 DEF t

-----------------------------------------------------------------------------
(* The handlers of the gateway: g has sent g.sent so far, after s.         *)
Sound(s, g) ==
  /\ s \in Seq(Datagram) /\ g \in GatewayRecord
  /\ Sequenced(s \o g.sent)

InHand(s, g) == g.status = "Ok" /\ Continues(s \o g.sent, g.batch)

NumberOfNext(s, g) == NextNumber(s \o g.sent) + Len(g.batch)

IntentNumbers(d) == {d[j].number : j \in IntentsOf(d)}

Kept(g, h) ==
  /\ h.pending = g.pending /\ h.nextSequenceNumber = g.nextSequenceNumber
  /\ h.failing = g.failing

(* What Flush makes of g.                                                  *)
Flushed(s, g, h) ==
  /\ Sound(s, h) /\ Kept(g, h)
  /\ h.status \in {"Ok", "DownstreamSendFailed"}
  /\ h.status = "Ok" =>
       /\ InHand(s, h) /\ h.batch = << >> /\ NumberOfNext(s, h) = NumberOfNext(s, g)
       /\ IntentsIn(s \o h.sent) = IntentsIn(s \o g.sent) \cup IntentNumbers(g.batch)

LEMMA NoMessage == IntentNumbers(<< >>) = {} /\ \A s : Continues(s, << >>)
BY DEF IntentNumbers, IntentsOf, Continues

LEMMA SentType ==
  ASSUME NEW g \in GatewayRecord
  PROVE  /\ g.sent \in Seq(Datagram) /\ g.batch \in Datagram /\ g.pending \in Seq(Nat)
         /\ g.nextSequenceNumber \in Nat /\ g.oldestMessageTime \in Nat /\ g.failing \in Nat
         /\ Len(g.batch) \in Nat
BY LenProperties DEF GatewayRecord, Datagram

LEMMA FlushStep ==
  ASSUME NEW s, NEW g, Sound(s, g), InHand(s, g), IntentsOf(g.batch) \subseteq {Len(g.batch)}
  PROVE  Flushed(s, g, Gateway!Flush(g))
<1> DEFINE h == Gateway!Flush(g)
           R == s \o g.sent
           batch == g.batch
<1>1. /\ g \in GatewayRecord /\ s \in Seq(Datagram) /\ g.sent \in Seq(Datagram)
      /\ batch \in Datagram /\ Sequenced(R) /\ g.status = "Ok" /\ Continues(R, batch)
      /\ NextNumber(R) \in Nat /\ Len(batch) \in Nat
  BY SentType, StreamNumbers DEF Sound, InHand
<1>2. CASE batch = << >>
  <2>1. h = g
    BY <1>2 DEF Gateway!Flush
  <2> HIDE DEF h
  <2> QED BY <1>1, <1>2, <2>1, NoMessage DEF h, Flushed, Sound, InHand, Kept, NumberOfNext
<1>3. CASE batch # << >> /\ Gateway!SendFails(g)
  <2>1. h = [g EXCEPT !.status = "DownstreamSendFailed"]
    BY <1>3 DEF Gateway!Flush, Gateway!Fails
  <2>2. /\ h \in GatewayRecord /\ h.sent = g.sent /\ h.status = "DownstreamSendFailed"
        /\ h.pending = g.pending /\ h.nextSequenceNumber = g.nextSequenceNumber
        /\ h.failing = g.failing
    BY <1>1, <2>1 DEF GatewayRecord, GatewayStatuses
  <2> HIDE DEF h
  <2> QED BY <1>1, <2>2 DEF h, Flushed, Sound, Kept
<1>4. CASE batch # << >> /\ ~Gateway!SendFails(g)
  <2>1. h = [g EXCEPT !.sent = Append(@, batch), !.batch = << >>, !.oldestMessageTime = 0]
    BY <1>4 DEF Gateway!Flush, Gateway!SendBatch
  <2>2. Append(g.sent, batch) \in Seq(Datagram) /\ << >> \in Datagram /\ Len(<< >>) = 0
    BY <1>1, AppendProperties, EmptySeq DEF Datagram
  <2>3. /\ h \in GatewayRecord /\ h.sent = Append(g.sent, batch) /\ h.batch = << >>
        /\ h.status = "Ok" /\ h.pending = g.pending
        /\ h.nextSequenceNumber = g.nextSequenceNumber /\ h.failing = g.failing
    <3>1. /\ h = [batch |-> << >>, oldestMessageTime |-> 0,
                   nextSequenceNumber |-> g.nextSequenceNumber, pending |-> g.pending,
                   status |-> "Ok", sent |-> Append(g.sent, batch), failing |-> g.failing]
      BY <1>1, <2>1 DEF GatewayRecord
    <3> HIDE DEF h
    <3> QED BY <1>1, <2>2, <3>1, SentType DEF GatewayRecord, GatewayStatuses
  <2> HIDE DEF h
  <2>4. s \o h.sent = Append(R, batch)
    <3>1. \A x, y \in Seq(Datagram) : \A d \in Datagram :
             x \o Append(y, d) = Append(x \o y, d)
      BY ConcatOfAppend
    <3> QED BY <1>1, <2>3, <3>1
  <2>5. 1 \in DOMAIN batch /\ batch[1].number = NextNumber(R) /\ WellFormed(batch)
    <3>1. 1 \in DOMAIN batch
      BY <1>1, <1>4, DatagramElements
    <3>2. \A j \in DOMAIN batch : batch[j].number = NextNumber(R) + j - 1
      BY <1>1 DEF Continues
    <3>3. batch[1].number = NextNumber(R)
      BY <1>1, <3>1, <3>2
    <3> QED BY <1>4, <3>1, <3>2, <3>3 DEF WellFormed
  <2>6. /\ Sequenced(s \o h.sent) /\ NextNumber(s \o h.sent) = NextNumber(R) + Len(batch)
        /\ IntentsIn(s \o h.sent) = IntentsIn(R) \cup IntentNumbers(batch)
    BY <1>1, <2>4, <2>5, SequencedAppend DEF IntentNumbers
  <2>7. NumberOfNext(s, h) = NumberOfNext(s, g)
    BY <1>1, <2>2, <2>3, <2>6 DEF NumberOfNext
  <2> QED BY <1>1, <2>3, <2>6, <2>7, NoMessage DEF h, Flushed, Sound, InHand, Kept
<1> QED BY <1>2, <1>3, <1>4

(* With no intent in the batch a flush changes no intent that is sent.     *)
Steady(s, g, h) ==
  /\ Sound(s, h) /\ Kept(g, h)
  /\ h.status \in {"Ok", "DownstreamSendFailed"}
  /\ h.status = "Ok" =>
       /\ InHand(s, h) /\ IntentsOf(h.batch) = {} /\ NumberOfNext(s, h) = NumberOfNext(s, g)
       /\ IntentsIn(s \o h.sent) = IntentsIn(s \o g.sent)
       /\ g.batch = << >> => h.batch = << >>

LEMMA SteadyFlush ==
  ASSUME NEW s, NEW g, Sound(s, g), InHand(s, g), IntentsOf(g.batch) = {}
  PROVE  Steady(s, g, g) /\ Steady(s, g, Gateway!Flush(g))
<1>1. Steady(s, g, g)
  BY DEF Steady, InHand, Kept
<1>2. Flushed(s, g, Gateway!Flush(g))
  BY FlushStep
<1>3. IntentNumbers(g.batch) = {} /\ IntentsOf(<< >>) = {}
  BY DEF IntentNumbers, IntentsOf
<1>4. Steady(s, g, Gateway!Flush(g))
  BY <1>2, <1>3 DEF Flushed, Steady
<1> QED BY <1>1, <1>4

LEMMA SteadyFlushExpired ==
  ASSUME NEW s, NEW g, Sound(s, g), InHand(s, g), IntentsOf(g.batch) = {}, NEW now
  PROVE  Steady(s, g, Gateway!FlushExpired(g, now))
<1>1. Gateway!FlushExpired(g, now) \in {g, Gateway!Flush(g)}
  BY DEF Gateway!FlushExpired
<1> QED BY <1>1, SteadyFlush

LEMMA SteadyTwice ==
  ASSUME NEW s, NEW g, NEW x, NEW h, Steady(s, g, x), x.status = "Ok", Steady(s, x, h)
  PROVE  Steady(s, g, h)
BY DEF Steady, Kept

LEMMA HeldStep ==
  ASSUME NEW s, NEW g, Sound(s, g), InHand(s, g), IntentsOf(g.batch) = {},
         NEW message \in Message, message.number = NumberOfNext(s, g), NEW now \in Nat
  PROVE  LET h == Gateway!Held(g, message, now)
         IN  /\ Sound(s, h) /\ InHand(s, h) /\ Kept(g, h) /\ h.sent = g.sent
             /\ NumberOfNext(s, h) = NumberOfNext(s, g) + 1
             /\ IntentsOf(h.batch) = IF message.kind = "intent" THEN {Len(h.batch)} ELSE {}
             /\ IntentNumbers(h.batch) =
                  IF message.kind = "intent" THEN {message.number} ELSE {}
<1> DEFINE h == Gateway!Held(g, message, now)
           R == s \o g.sent
<1>1. /\ g \in GatewayRecord /\ g.status = "Ok" /\ g.batch \in Datagram /\ Len(g.batch) \in Nat
      /\ DOMAIN g.batch = 1 .. Len(g.batch) /\ NextNumber(R) \in Nat
      /\ Continues(R, g.batch)
  BY SentType, StreamNumbers, DatagramElements DEF Sound, InHand
<1> DEFINE oldest == IF g.batch = << >> THEN now ELSE g.oldestMessageTime
           longer == Append(g.batch, message)
<1>2. h = [batch |-> longer, oldestMessageTime |-> oldest,
           nextSequenceNumber |-> g.nextSequenceNumber, pending |-> g.pending,
           status |-> "Ok", sent |-> g.sent, failing |-> g.failing]
  <2>1. h = [g EXCEPT !.batch = longer, !.oldestMessageTime = oldest]
    BY DEF Gateway!Held
  <2> HIDE DEF h, oldest, longer
  <2> QED BY <1>1, <2>1 DEF GatewayRecord
<1> HIDE DEF h
<1>3. /\ Append(g.batch, message) \in Datagram /\ Len(Append(g.batch, message)) = Len(g.batch) + 1
      /\ DOMAIN Append(g.batch, message) = 1 .. Len(g.batch) + 1
      /\ Append(g.batch, message)[Len(g.batch) + 1] = message
      /\ \A j \in 1 .. Len(g.batch) : Append(g.batch, message)[j] = g.batch[j]
  BY <1>1, AppendProperties, DatagramElements DEF Datagram
<1>4. h \in GatewayRecord
  BY <1>1, <1>2, <1>3, SentType DEF GatewayRecord, GatewayStatuses
<1>5. h.batch = Append(g.batch, message) /\ h.sent = g.sent /\ h.status = "Ok" /\ Kept(g, h)
  BY <1>2 DEF Kept
<1>6. Continues(R, h.batch)
  <2>1. message.number = NextNumber(R) + (Len(g.batch) + 1) - 1
    BY <1>1 DEF NumberOfNext
  <2>2. \A j \in 1 .. Len(g.batch) : g.batch[j].number = NextNumber(R) + j - 1
    BY <1>1 DEF Continues
  <2>3. ASSUME NEW j \in DOMAIN h.batch PROVE h.batch[j].number = NextNumber(R) + j - 1
    <3>1. j \in 1 .. Len(g.batch) \/ j = Len(g.batch) + 1
      BY <1>1, <1>3, <1>5
    <3> QED BY <1>3, <1>5, <2>1, <2>2, <3>1
  <2> QED BY <2>3 DEF Continues
<1>7. NumberOfNext(s, h) = NumberOfNext(s, g) + 1
  BY <1>1, <1>3, <1>5 DEF NumberOfNext
<1>8. IntentsOf(h.batch) = IF message.kind = "intent" THEN {Len(h.batch)} ELSE {}
  <2>1. \A j \in 1 .. Len(g.batch) : g.batch[j].kind # "intent"
    BY <1>1 DEF IntentsOf
  <2>2. \A j \in DOMAIN h.batch : h.batch[j].kind = "intent" <=>
            j = Len(h.batch) /\ message.kind = "intent"
    <3>1. \A j \in DOMAIN h.batch : j \in 1 .. Len(g.batch) \/ j = Len(g.batch) + 1
      BY <1>1, <1>3, <1>5
    <3>2. Len(g.batch) + 1 \notin 1 .. Len(g.batch)
      BY <1>1
    <3> QED BY <1>3, <1>5, <2>1, <3>1, <3>2
  <2>3. Len(h.batch) \in DOMAIN h.batch
    BY <1>1, <1>3, <1>5
  <2> QED BY <2>2, <2>3 DEF IntentsOf
<1>9. IntentNumbers(h.batch) = IF message.kind = "intent" THEN {message.number} ELSE {}
  BY <1>1, <1>3, <1>5, <1>8 DEF IntentNumbers
<1> QED BY <1>4, <1>5, <1>6, <1>7, <1>8, <1>9 DEF h, Sound, InHand

(* What AppendToBatch makes of g.                                          *)
Added(s, g, message, h) ==
  /\ Sound(s, h) /\ Kept(g, h)
  /\ h.status \in {"Ok", "DownstreamSendFailed"}
  /\ h.status = "Ok" =>
       /\ InHand(s, h) /\ IntentsOf(h.batch) = {}
       /\ NumberOfNext(s, h) = NumberOfNext(s, g) + 1
       /\ IntentsIn(s \o h.sent) = IntentsIn(s \o g.sent) \cup
                                   (IF message.kind = "intent" THEN {message.number} ELSE {})

LEMMA AppendToBatchStep ==
  ASSUME NEW s, NEW g, Sound(s, g), InHand(s, g), IntentsOf(g.batch) = {},
         NEW message \in Message, message.number = NumberOfNext(s, g), NEW now \in Nat
  PROVE  Added(s, g, message, Gateway!AppendToBatch(g, message, now))
<1> DEFINE fresh == Gateway!FlushExpired(g, now)
           room  == IF fresh.status = "Ok" /\ Len(fresh.batch) = MaxMessageCount
                      THEN Gateway!Flush(fresh) ELSE fresh
           held  == Gateway!Held(room, message, now)
           leave == Len(held.batch) = MaxMessageCount \/ Gateway!FlushImmediately(message.kind)
           h     == IF room.status # "Ok" THEN room
                    ELSE IF leave THEN Gateway!Flush(held) ELSE held
<1>1. Gateway!AppendToBatch(g, message, now) = h
  BY DEF Gateway!AppendToBatch
<1>2. Steady(s, g, fresh)
  BY SteadyFlushExpired
<1> HIDE DEF fresh
<1>3. Steady(s, g, room)
  <2>1. CASE fresh.status = "Ok"
    <3>1. Steady(s, fresh, Gateway!Flush(fresh))
      BY <1>2, <2>1, SteadyFlush DEF Steady
    <3> QED BY <1>2, <2>1, <3>1, SteadyTwice
  <2>2. CASE fresh.status # "Ok"
    BY <1>2, <2>2
  <2> QED BY <2>1, <2>2
<1> HIDE DEF room
<1>4. CASE room.status # "Ok"
  BY <1>1, <1>3, <1>4 DEF Steady, Added
<1>5. CASE room.status = "Ok"
  <2>1. Sound(s, room) /\ InHand(s, room) /\ IntentsOf(room.batch) = {} /\ Kept(g, room)
        /\ NumberOfNext(s, room) = NumberOfNext(s, g)
        /\ IntentsIn(s \o room.sent) = IntentsIn(s \o g.sent)
    BY <1>3, <1>5 DEF Steady
  <2>2. /\ Sound(s, held) /\ InHand(s, held) /\ Kept(room, held) /\ held.sent = room.sent
        /\ NumberOfNext(s, held) = NumberOfNext(s, room) + 1
        /\ IntentsOf(held.batch) = IF message.kind = "intent" THEN {Len(held.batch)} ELSE {}
        /\ IntentNumbers(held.batch) = IF message.kind = "intent" THEN {message.number} ELSE {}
    BY <2>1, HeldStep
  <2> HIDE DEF held
  <2>3. CASE leave
    <3>1. Flushed(s, held, Gateway!Flush(held))
      BY <2>2, FlushStep
    <3>2. IntentsOf(<< >>) = {}
      BY DEF IntentsOf
    <3>3. h = Gateway!Flush(held)
      BY <1>5, <2>3
    <3> HIDE DEF h
    <3> QED BY <1>1, <2>1, <2>2, <3>1, <3>2, <3>3 DEF Flushed, Added, Kept
  <2>4. CASE ~leave
    <3>1. h = held /\ message.kind # "intent"
      BY <1>5, <2>4 DEF Gateway!FlushImmediately
    <3> HIDE DEF h
    <3> QED BY <1>1, <2>1, <2>2, <3>1 DEF Added, Kept, InHand
  <2> QED BY <2>3, <2>4
<1> QED BY <1>4, <1>5

(* The gateway may send a message: no intent waits in the batch.           *)
Ready(s, g) ==
  /\ Sound(s, g) /\ InHand(s, g) /\ IntentsOf(g.batch) = {}
  /\ Upcoming(s \o g.sent, g)

LEMMA FailsStep ==
  ASSUME NEW s, NEW g, Sound(s, g), NEW status \in GatewayStatuses
  PROVE  LET h == Gateway!Fails(g, status)
         IN  Sound(s, h) /\ h.status = status /\ h.sent = g.sent /\ h.batch = g.batch
BY DEF Sound, GatewayRecord, Gateway!Fails

LEMMA NextOfCounter ==
  ASSUME NEW n \in Nat, n < SequenceModulus
  PROVE  (n + 1) % SequenceModulus = IF n + 1 = SequenceModulus THEN 0 ELSE n + 1
<1>1. SequenceModulus \in Nat \ {0} /\ n + 1 \in Nat
  BY ConstantsAssumption
<1>2. CASE n + 1 < SequenceModulus
  BY <1>1, <1>2, Remainder
<1>3. CASE n + 1 = SequenceModulus
  <2> DEFINE q == SequenceModulus \div SequenceModulus
             y == SequenceModulus % SequenceModulus
  <2>1. q \in Int /\ y \in 0 .. SequenceModulus - 1 /\ SequenceModulus = SequenceModulus * q + y
    BY <1>1, DivMod
  <2> HIDE DEF q, y
  <2>2. /\ q <= 0 => SequenceModulus * q <= 0
        /\ q >= 2 => SequenceModulus * q >= SequenceModulus + SequenceModulus
        /\ q = 1 => SequenceModulus * q = SequenceModulus
        /\ SequenceModulus * q \in Int
    BY <1>1, <2>1
  <2>3. y = 0
    BY <1>1, <2>1, <2>2
  <2> QED BY <1>3, <2>3 DEF y
<1> QED BY <1>1, <1>2, <1>3

(* What SendGeneratedMessage makes of g.                                   *)
Sent(s, g, kind, h) ==
  /\ Sound(s, h) /\ h.pending = g.pending
  /\ h.status \in {"Ok", "DownstreamSendFailed", "SequenceNumberExhausted"}
  /\ h.status = "Ok" =>
       /\ Ready(s, h) /\ g.nextSequenceNumber = NumberOfNext(s, g)
       /\ NumberOfNext(s, h) = NumberOfNext(s, g) + 1
       /\ IntentsIn(s \o h.sent) = IntentsIn(s \o g.sent) \cup
                                   (IF kind = "intent" THEN {g.nextSequenceNumber} ELSE {})

LEMMA SendStep ==
  ASSUME NEW s, NEW g, Ready(s, g), NEW kind \in Kinds, NEW now \in Nat
  PROVE  Sent(s, g, kind, Gateway!SendGeneratedMessage(g, kind, now))
<1> DEFINE h == Gateway!SendGeneratedMessage(g, kind, now)
           n == g.nextSequenceNumber
<1>1. /\ Sound(s, g) /\ g \in GatewayRecord /\ n \in Nat /\ InHand(s, g) /\ IntentsOf(g.batch) = {}
      /\ Upcoming(s \o g.sent, g) /\ NextNumber(s \o g.sent) \in Nat /\ Len(g.batch) \in Nat
  BY SentType, StreamNumbers DEF Ready, Sound
<1>2. NumberOfNext(s, g) \in Nat /\ NumberOfNext(s, g) <= SequenceModulus
      /\ n = IF NumberOfNext(s, g) = SequenceModulus THEN 0 ELSE NumberOfNext(s, g)
  BY <1>1 DEF Upcoming, NumberOfNext
<1>3. CASE n = 0
  <2>1. h = Gateway!Fails(g, "SequenceNumberExhausted")
    BY <1>3 DEF Gateway!SendGeneratedMessage
  <2>2. Sound(s, h) /\ h.status = "SequenceNumberExhausted"
    BY <1>1, <2>1, FailsStep DEF GatewayStatuses
  <2>3. h.pending = g.pending
    BY <1>1, <2>1 DEF Gateway!Fails, GatewayRecord
  <2> HIDE DEF h
  <2> QED BY <2>2, <2>3 DEF Sent, h
<1>4. CASE n # 0
  <2> DEFINE following == (n + 1) % SequenceModulus
             x == [g EXCEPT !.nextSequenceNumber = following]
             message == [kind |-> kind, number |-> n]
  <2>1. h = Gateway!AppendToBatch(x, message, now)
    BY <1>4 DEF Gateway!SendGeneratedMessage
  <2>2. NumberOfNext(s, g) = n /\ n < SequenceModulus /\ SequenceModulus \in Nat
    BY <1>2, <1>4, ConstantsAssumption
  <2>3. following = (IF n + 1 = SequenceModulus THEN 0 ELSE n + 1) /\ following \in Nat
    BY <1>1, <2>2, NextOfCounter
  <2> HIDE DEF following
  <2>4. /\ x \in GatewayRecord /\ x.sent = g.sent /\ x.batch = g.batch /\ x.status = g.status
        /\ x.pending = g.pending /\ x.nextSequenceNumber = following
    BY <1>1, <2>3 DEF GatewayRecord
  <2>5. message \in Message /\ message.number = n /\ message.kind = kind
    BY <1>1 DEF Message
  <2> HIDE DEF h, x, message
  <2>6. Sound(s, x) /\ InHand(s, x) /\ IntentsOf(x.batch) = {}
        /\ NumberOfNext(s, x) = n
    BY <1>1, <2>2, <2>4 DEF Sound, InHand, NumberOfNext
  <2>7. Added(s, x, message, h)
    BY <2>1, <2>5, <2>6, AppendToBatchStep
  <2>8. h.status = "Ok" => Upcoming(s \o h.sent, h)
    <3> SUFFICES ASSUME h.status = "Ok" PROVE Upcoming(s \o h.sent, h)
      OBVIOUS
    <3>1. NumberOfNext(s, h) = n + 1 /\ h.nextSequenceNumber = following
      BY <2>4, <2>6, <2>7 DEF Added, Kept
    <3> QED BY <1>1, <2>2, <2>3, <3>1 DEF Upcoming, NumberOfNext
  <2> QED BY <2>2, <2>4, <2>5, <2>6, <2>7, <2>8 DEF Added, Kept, Sent, Ready, h
<1> QED BY <1>3, <1>4

LEMMA SendIntentStep ==
  ASSUME NEW s, NEW g, Ready(s, g), NEW now \in Nat
  PROVE  LET h == Gateway!SendOrderIntent(g, now)
             n == NumberOfNext(s, g)
         IN  /\ Sound(s, h) /\ h.status \in GatewayStatuses \ {"UnexpectedOrderDecision"}
             /\ h.status = "Ok" =>
                  /\ Ready(s, h) /\ h.pending = Append(g.pending, n)
                  /\ IntentsIn(s \o h.sent) = IntentsIn(s \o g.sent) \cup {n}
<1> DEFINE h == Gateway!SendOrderIntent(g, now)
           x == Gateway!SendGeneratedMessage(g, "intent", now)
<1>1. Sent(s, g, "intent", x)
  BY SendStep DEF Kinds
<1>2. h = IF Len(g.pending) = PendingIntentCapacity THEN Gateway!Fails(g, "PendingIntentQueueFull")
          ELSE IF x.status # "Ok" THEN x
          ELSE [x EXCEPT !.pending = Append(@, g.nextSequenceNumber)]
  BY DEF Gateway!SendOrderIntent
<1> HIDE DEF h, x
<1>3. CASE Len(g.pending) = PendingIntentCapacity
  <2>1. h = Gateway!Fails(g, "PendingIntentQueueFull") /\ "PendingIntentQueueFull" \in GatewayStatuses
    BY <1>2, <1>3 DEF GatewayStatuses
  <2>2. Sound(s, h) /\ h.status = "PendingIntentQueueFull"
    BY <2>1, FailsStep DEF Ready
  <2> QED BY <2>1, <2>2 DEF h
<1>4. CASE Len(g.pending) # PendingIntentCapacity /\ x.status # "Ok"
  BY <1>1, <1>2, <1>4 DEF h, Sent, GatewayStatuses
<1>5. CASE Len(g.pending) # PendingIntentCapacity /\ x.status = "Ok"
  <2> DEFINE n == g.nextSequenceNumber
             longer == Append(g.pending, n)
  <2>1. h = [x EXCEPT !.pending = Append(@, n)]
    BY <1>2, <1>5
  <2>2. x \in GatewayRecord /\ x.pending = g.pending /\ longer \in Seq(Nat)
    BY <1>1, SentType, AppendProperties DEF Sent, Sound, Ready
  <2>3. h = [x EXCEPT !.pending = longer]
    BY <2>1, <2>2 DEF GatewayRecord
  <2> HIDE DEF longer
  <2>4. /\ h \in GatewayRecord /\ h.sent = x.sent /\ h.batch = x.batch /\ h.status = "Ok"
        /\ h.nextSequenceNumber = x.nextSequenceNumber /\ h.pending = longer
    BY <1>5, <2>2, <2>3 DEF GatewayRecord
  <2>5. Ready(s, h)
    BY <1>1, <1>5, <2>4 DEF Sent, Ready, Sound, InHand, Upcoming
  <2>6. IntentsIn(s \o h.sent) = IntentsIn(s \o g.sent) \cup {n} /\ n = NumberOfNext(s, g)
    BY <1>1, <1>5, <2>4 DEF Sent
  <2> QED BY <2>4, <2>5, <2>6 DEF h, longer, Ready, GatewayStatuses
<1> QED BY <1>3, <1>4, <1>5

(* What processing a message makes of g.                                   *)
Processed(s, g, h) ==
  /\ Sound(s, h) /\ h.status \in GatewayStatuses \ {"UnexpectedOrderDecision"}
  /\ h.status = "Ok" =>
       /\ Ready(s, h)
       /\ \/ h.pending = g.pending /\ IntentsIn(s \o h.sent) = IntentsIn(s \o g.sent)
          \/ \E n \in Nat :
               /\ NextNumber(s \o g.sent) <= n
               /\ h.pending = Append(g.pending, n)
               /\ IntentsIn(s \o h.sent) = IntentsIn(s \o g.sent) \cup {n}

LEMMA ProcessRawMessageStep ==
  ASSUME NEW s, NEW g, Ready(s, g), NEW kind \in Kinds \ {"short"}, NEW now \in Nat
  PROVE  Processed(s, g, Gateway!ProcessRawMessage(g, kind, now))
<1> DEFINE h == Gateway!ProcessRawMessage(g, kind, now)
<1>1. CASE kind = "quiet"
  <2>1. h = g
    BY <1>1 DEF Gateway!ProcessRawMessage
  <2> HIDE DEF h
  <2> QED BY <2>1 DEF h, Processed, Ready, InHand, GatewayStatuses
<1>2. CASE kind = "bad"
  <2>1. h = Gateway!Fails(g, "ProcessingFailed") /\ "ProcessingFailed" \in GatewayStatuses
    BY <1>2 DEF Gateway!ProcessRawMessage, GatewayStatuses
  <2>2. Sound(s, h) /\ h.status = "ProcessingFailed"
    BY <2>1, FailsStep DEF Ready
  <2> HIDE DEF h
  <2> QED BY <2>1, <2>2 DEF h, Processed
<1>3. CASE kind \in {"status", "tob"}
  <2>1. h = Gateway!SendGeneratedMessage(g, kind, now)
    BY <1>3 DEF Gateway!ProcessRawMessage
  <2>2. Sent(s, g, kind, h)
    BY <2>1, SendStep
  <2> HIDE DEF h
  <2> QED BY <1>3, <2>2 DEF h, Sent, Processed, GatewayStatuses
<1>4. CASE kind = "intent"
  <2> DEFINE x == Gateway!SendGeneratedMessage(g, "tob", now)
  <2>1. h = IF x.status = "Ok" THEN Gateway!SendOrderIntent(x, now) ELSE x
    BY <1>4 DEF Gateway!ProcessRawMessage
  <2>2. Sent(s, g, "tob", x)
    BY SendStep DEF Kinds
  <2> HIDE DEF h, x
  <2>3. CASE x.status # "Ok"
    BY <2>1, <2>2, <2>3 DEF h, Sent, Processed, GatewayStatuses
  <2>4. CASE x.status = "Ok"
    <3> DEFINE n == NumberOfNext(s, x)
    <3>1. Ready(s, x) /\ n = NumberOfNext(s, g) + 1 /\ x.pending = g.pending
          /\ IntentsIn(s \o x.sent) = IntentsIn(s \o g.sent)
      BY <2>2, <2>4 DEF Sent
    <3>2. NextNumber(s \o g.sent) \in Nat /\ Len(g.batch) \in Nat
      BY SentType, StreamNumbers DEF Ready, Sound
    <3>3. n \in Nat /\ NextNumber(s \o g.sent) <= n
      BY <3>1, <3>2 DEF NumberOfNext
    <3>4. /\ Sound(s, h) /\ h.status \in GatewayStatuses \ {"UnexpectedOrderDecision"}
          /\ h.status = "Ok" =>
                  /\ Ready(s, h) /\ h.pending = Append(x.pending, n)
                  /\ IntentsIn(s \o h.sent) = IntentsIn(s \o x.sent) \cup {n}
      BY <2>1, <2>4, <3>1, SendIntentStep
    <3> HIDE DEF n
    <3> QED BY <3>1, <3>3, <3>4 DEF h, Processed
  <2> QED BY <2>3, <2>4
<1> QED BY <1>1, <1>2, <1>3, <1>4 DEF Kinds

-----------------------------------------------------------------------------
(* The steps of the host thread that work on the gateway                   *)
LEMMA SteadyReady ==
  ASSUME NEW s, NEW g, Ready(s, g), NEW h, Steady(s, g, h), h.status = "Ok"
  PROVE  Ready(s, h)
BY DEF Steady, Ready, Kept, Upcoming, NumberOfNext

LEMMA HandlerStarts ==
  ASSUME GatewayInv, gateway.status = "Ok", NEW failing \in Nat,
         NEW g \in {gateway, [gateway EXCEPT !.failing = failing]}
  PROVE  /\ Ready(stream, g) /\ g.pending = gateway.pending /\ g.batch = gateway.batch
         /\ stream \o g.sent = stream
<1>1. gateway \in GatewayRecord /\ gateway.sent = << >> /\ stream \in Seq(Datagram)
      /\ Batched(stream, gateway) /\ Sequenced(stream)
  BY StreamElements DEF GatewayInv
<1>2. /\ g \in GatewayRecord /\ g.sent = << >> /\ g.batch = gateway.batch /\ g.status = "Ok"
      /\ g.pending = gateway.pending /\ g.nextSequenceNumber = gateway.nextSequenceNumber
  BY <1>1 DEF GatewayRecord
<1>3. stream \o g.sent = stream
  BY <1>1, <1>2, ConcatEmptySeq
<1> QED BY <1>1, <1>2, <1>3 DEF Ready, Sound, InHand, Batched, Upcoming

LEMMA SettleStep ==
  ASSUME GatewayInv, NEW g, Sound(stream, g), g.status = "Ok" => Ready(stream, g),
         gateway' = Gateway!Settled(g), stream' = stream \o g.sent, carried' = carried
  PROVE  /\ gateway' \in GatewayRecord /\ gateway'.sent = << >> /\ gateway'.status = g.status
         /\ gateway'.batch = g.batch /\ gateway'.pending = g.pending
         /\ Sequenced(stream') /\ carried' \in 0 .. Len(stream') /\ CarriedTo' = CarriedTo
         /\ g.status = "Ok" => Batched(stream', gateway')
<1>1. g \in GatewayRecord /\ stream \in Seq(Datagram) /\ g.sent \in Seq(Datagram)
      /\ Sequenced(stream') /\ carried \in 0 .. Len(stream)
  BY SentType DEF Sound, GatewayInv
<1>2. /\ gateway' \in GatewayRecord /\ gateway'.sent = << >> /\ gateway'.status = g.status
      /\ gateway'.batch = g.batch /\ gateway'.pending = g.pending
      /\ gateway'.nextSequenceNumber = g.nextSequenceNumber
  <2>1. << >> \in Seq(Datagram)
    BY EmptySeq
  <2>2. gateway' = [g EXCEPT !.sent = << >>, !.failing = 0]
    BY DEF Gateway!Settled
  <2>3. gateway' = [batch |-> g.batch, oldestMessageTime |-> g.oldestMessageTime,
                    nextSequenceNumber |-> g.nextSequenceNumber, pending |-> g.pending,
                    status |-> g.status, sent |-> << >>, failing |-> 0]
    BY <1>1, <2>2 DEF GatewayRecord
  <2>4. g.status \in GatewayStatuses
    BY <1>1 DEF GatewayRecord
  <2> QED BY <1>1, <2>1, <2>3, <2>4, SentType DEF GatewayRecord
<1>3. /\ Len(stream) \in Nat /\ Len(g.sent) \in Nat /\ Len(stream') = Len(stream) + Len(g.sent)
      /\ \A i \in 1 .. Len(stream) : stream'[i] = stream[i]
  BY <1>1, ConcatProperties, LenProperties
<1>4. carried' \in 0 .. Len(stream') /\ CarriedTo' = CarriedTo
  BY <1>1, <1>3 DEF CarriedTo
<1>5. g.status = "Ok" => Batched(stream', gateway')
  BY <1>2 DEF Ready, Batched, InHand, Upcoming
<1> QED BY <1>1, <1>2, <1>4, <1>5

LEMMA NatSequence ==
  ASSUME NEW q \in Seq(Nat)
  PROVE  Len(q) \in Nat /\ DOMAIN q = 1 .. Len(q) /\ \A k \in DOMAIN q : q[k] \in Nat
BY LenProperties, ElementOfSeq

(* One intent more, with a number higher than all before.                  *)
LEMMA AnswerableAppend ==
  ASSUME NEW s, NEW t, NEW q \in Seq(Nat), NEW n \in Nat, Answerable(q, s),
         IntentsIn(t) = IntentsIn(s) \cup {n}, \A m \in IntentsIn(s) : m < n
  PROVE  Answerable(Append(q, n), t)
<1> DEFINE r == Append(q, n)
<1>1. Len(q) \in Nat /\ DOMAIN q = 1 .. Len(q)
  BY NatSequence
<1>2. /\ DOMAIN r = 1 .. Len(q) + 1 /\ r[Len(q) + 1] = n
      /\ \A k \in 1 .. Len(q) : r[k] = q[k]
  BY <1>1, AppendProperties, LenProperties
<1> HIDE DEF r
<1>3. \A k \in DOMAIN q : q[k] < n
  BY DEF Answerable, Elements
<1>4. Increasing(r)
  <2> SUFFICES ASSUME NEW i \in DOMAIN r, NEW j \in DOMAIN r, i < j PROVE r[i] < r[j]
    BY DEF Increasing
  <2>1. i \in DOMAIN q /\ r[i] = q[i] /\ (j \in DOMAIN q \/ j = Len(q) + 1)
    BY <1>1, <1>2
  <2> QED BY <1>1, <1>2, <1>3, <2>1 DEF Answerable, Increasing
<1>5. Elements(r) = Elements(q) \cup {n}
  <2>1. DOMAIN r = DOMAIN q \cup {Len(q) + 1}
    BY <1>1, <1>2
  <2> QED BY <1>1, <1>2, <2>1 DEF Elements
<1> QED BY <1>4, <1>5 DEF Answerable, r

LEMMA CarriedBelow ==
  ASSUME GatewayInv
  PROVE  CarriedTo \in Nat /\ CarriedTo <= NextNumber(stream)
<1>1. Sequenced(stream) /\ carried \in 0 .. Len(stream) /\ Len(stream) \in Nat
      /\ DOMAIN stream = 1 .. Len(stream) /\ StartupCommands \in Nat
  BY StreamElements, ConstantsAssumption DEF GatewayInv
<1>2. CASE carried = 0
  BY <1>1, <1>2, StreamNumbers DEF CarriedTo
<1>3. CASE carried # 0
  <2>1. carried \in DOMAIN stream /\ CarriedTo = NumberAfter(stream[carried])
    BY <1>1, <1>3 DEF CarriedTo
  <2> QED BY <1>1, <2>1, StreamNumbers
<1> QED BY <1>2, <1>3

LEMMA OrderedFacts ==
  ASSUME GatewayInv
  PROVE  /\ decided \in Seq(Nat) /\ gateway.pending \in Seq(Nat) /\ Ordered \in Seq(Nat)
         /\ Len(decided) \in Nat /\ Len(gateway.pending) \in Nat
         /\ inbound \in Seq(Nat) /\ Len(inbound) \in Nat /\ DOMAIN inbound = 1 .. Len(inbound)
         /\ Len(Ordered) = Len(decided) + Len(gateway.pending)
         /\ DOMAIN Ordered = 1 .. Len(Ordered)
         /\ \A k \in DOMAIN Ordered : Ordered[k] \in Nat
         /\ \A k \in 1 .. Len(gateway.pending) : Ordered[Len(decided) + k] = gateway.pending[k]
<1>1. decided \in Seq(Nat) /\ gateway.pending \in Seq(Nat) /\ inbound \in Seq(Nat)
  BY SentType DEF GatewayInv
<1>2. Ordered \in Seq(Nat) /\ Len(Ordered) = Len(decided) + Len(gateway.pending)
  BY <1>1, ConcatProperties DEF Ordered
<1>3. Len(decided) \in Nat /\ Len(gateway.pending) \in Nat /\ Len(inbound) \in Nat
      /\ DOMAIN inbound = 1 .. Len(inbound)
  BY <1>1, NatSequence
<1>4. ASSUME NEW k \in 1 .. Len(gateway.pending)
      PROVE  Ordered[Len(decided) + k] = gateway.pending[k]
  <2>1. Len(decided) + k \in 1 .. Len(decided) + Len(gateway.pending)
        /\ ~(Len(decided) + k <= Len(decided)) /\ Len(decided) + k - Len(decided) = k
    BY <1>3
  <2>2. (decided \o gateway.pending)[Len(decided) + k] = gateway.pending[Len(decided) + k - Len(decided)]
    BY <1>1, <2>1, ConcatProperties
  <2> QED BY <2>1, <2>2 DEF Ordered
<1> QED BY <1>1, <1>2, <1>3, <1>4, NatSequence

(* A handler that takes no decision.                                       *)
LEMMA GatewayHandled ==
  ASSUME GatewayInv, gateway.status = "Ok", NEW g, Sound(stream, g),
         g.status \in GatewayStatuses \ {"UnexpectedOrderDecision"},
         g.status = "Ok" =>
           /\ Ready(stream, g)
           /\ \/ g.pending = gateway.pending /\ IntentsIn(stream \o g.sent) = IntentsIn(stream)
              \/ \E n \in Nat :
                   /\ NextNumber(stream) <= n
                   /\ g.pending = Append(gateway.pending, n)
                   /\ IntentsIn(stream \o g.sent) = IntentsIn(stream) \cup {n},
         gateway' = Gateway!Settled(g), stream' = stream \o g.sent,
         UNCHANGED << time, decided, carried, inbound, lossFree >>, nowNs' \in Nat
  PROVE  GatewayInv'
<1>1. /\ gateway' \in GatewayRecord /\ gateway'.sent = << >> /\ gateway'.status = g.status
      /\ gateway'.batch = g.batch /\ gateway'.pending = g.pending
      /\ Sequenced(stream') /\ carried' \in 0 .. Len(stream') /\ CarriedTo' = CarriedTo
      /\ g.status = "Ok" => Batched(stream', gateway')
  BY SettleStep
<1>2. time' \in Nat /\ inbound' \in Seq(Nat) /\ decided' \in Seq(Nat)
  BY DEF GatewayInv
<1>3. DecisionsExpected'
  BY <1>1 DEF DecisionsExpected
<1>4. ASSUME g.status = "Ok"
      PROVE  Answerable(Ordered', stream') /\ (lossFree' => Expected')
  <2>1. Answerable(Ordered, stream) /\ (lossFree => Expected)
    BY DEF GatewayInv
  <2>2. CASE g.pending = gateway.pending /\ IntentsIn(stream') = IntentsIn(stream)
    <3>1. Ordered' = Ordered
      BY <1>1, <2>2 DEF Ordered
    <3>2. Answerable(Ordered', stream')
      BY <2>1, <2>2, <3>1 DEF Answerable
    <3>3. Expected => Expected'
      BY <1>1, <3>1 DEF Expected
    <3> QED BY <2>1, <3>2, <3>3
  <2>3. ASSUME NEW n \in Nat, NextNumber(stream) <= n, g.pending = Append(gateway.pending, n),
               IntentsIn(stream') = IntentsIn(stream) \cup {n}
        PROVE  Answerable(Ordered', stream') /\ (Expected => Expected')
    <3>1. Ordered' = Append(Ordered, n)
      <4>1. Ordered' = decided \o Append(gateway.pending, n)
        BY <1>1, <2>3 DEF Ordered
      <4>2. decided \in Seq(Nat) /\ gateway.pending \in Seq(Nat)
        BY OrderedFacts
      <4>3. decided \o Append(gateway.pending, n) = Append(decided \o gateway.pending, n)
        <5>1. \A x, y \in Seq(Nat) : \A d \in Nat :
                 x \o Append(y, d) = Append(x \o y, d)
          BY ConcatOfAppend
        <5> QED BY <2>3, <4>2, <5>1
      <4> QED BY <4>1, <4>3 DEF Ordered
    <3>2. Ordered \in Seq(Nat) /\ Len(Ordered) \in Nat /\ DOMAIN Ordered = 1 .. Len(Ordered)
      BY OrderedFacts, NatSequence
    <3>3. \A m \in IntentsIn(stream) : m < n
      <4>1. \A m \in IntentsIn(stream) : m \in Nat /\ m < NextNumber(stream)
        BY StreamNumbers DEF GatewayInv
      <4> QED BY <2>3, <4>1, StreamNumbers DEF GatewayInv
    <3>4. Answerable(Ordered', stream')
      BY <2>1, <2>3, <3>1, <3>2, <3>3, AnswerableAppend
    <3>5. ASSUME Expected PROVE Expected'
      <4>1. /\ Len(Ordered') = Len(Ordered) + 1 /\ DOMAIN Ordered' = 1 .. Len(Ordered) + 1
            /\ Ordered'[Len(Ordered) + 1] = n /\ \A k \in 1 .. Len(Ordered) : Ordered'[k] = Ordered[k]
        BY <2>3, <3>1, <3>2, AppendProperties, LenProperties
      <4>2. ~(n < CarriedTo)
        BY <2>3, CarriedBelow, StreamNumbers DEF GatewayInv
      <4>3. Len(decided) \in Nat /\ Len(inbound) \in Nat /\ DOMAIN inbound = 1 .. Len(inbound)
        BY OrderedFacts
      <4>4. Len(decided) + Len(inbound) <= Len(Ordered)
        BY <3>5 DEF Expected
      <4>5. \A i \in DOMAIN inbound : inbound[i] = Ordered'[Len(decided) + i]
        <5> TAKE i \in DOMAIN inbound
        <5>1. Len(decided) + i \in 1 .. Len(Ordered)
          BY <3>2, <4>3, <4>4
        <5> QED BY <3>5, <4>1, <5>1 DEF Expected
      <4>6. \A k \in DOMAIN Ordered' :
               k <= Len(decided) + Len(inbound) <=> Ordered'[k] < CarriedTo
        <5> TAKE k \in DOMAIN Ordered'
        <5>1. CASE k \in 1 .. Len(Ordered)
          BY <3>2, <3>5, <4>1, <5>1 DEF Expected
        <5>2. CASE k = Len(Ordered) + 1
          BY <3>2, <4>1, <4>2, <4>3, <4>4, <5>2
        <5> QED BY <3>2, <4>1, <5>1, <5>2
      <4> QED BY <1>1, <3>2, <3>5, <4>1, <4>3, <4>4, <4>5, <4>6 DEF Expected
    <3> QED BY <3>4, <3>5
  <2> QED BY <1>4, <2>1, <2>2, <2>3
<1> QED BY <1>1, <1>2, <1>3, <1>4 DEF GatewayInv

LEMMA TakeFirst ==
  ASSUME NEW S, NEW q \in Seq(S), NEW p \in Seq(S), p # << >>
  PROVE  (q \o << Head(p) >>) \o Tail(p) = q \o p
<1>1. Head(p) \in S /\ Tail(p) \in Seq(S) /\ << Head(p) >> \in Seq(S)
  BY HeadTailProperties
<1>2. << Head(p) >> \o Tail(p) = p
  <2>1. Len(p) \in Nat /\ Len(p) >= 1 /\ Len(Tail(p)) = Len(p) - 1 /\ p[1] = Head(p)
        /\ \A i \in 1 .. Len(Tail(p)) : Tail(p)[i] = p[i + 1]
    BY HeadTailProperties, EmptySeq, LenProperties
  <2> DEFINE c == << Head(p) >> \o Tail(p)
  <2>2. c \in Seq(S) /\ Len(c) = 1 + Len(Tail(p))
        /\ \A i \in 1 .. 1 + Len(Tail(p)) : c[i] = IF i <= 1 THEN << Head(p) >>[i] ELSE Tail(p)[i - 1]
    BY <1>1, ConcatProperties
  <2> HIDE DEF c
  <2>3. \A i \in 1 .. Len(c) : c[i] = p[i]
    <3> TAKE i \in 1 .. Len(c)
    <3>1. CASE i = 1
      BY <2>1, <2>2, <3>1
    <3>2. CASE i # 1
      <4>1. i - 1 \in 1 .. Len(Tail(p)) /\ ~(i <= 1) /\ (i - 1) + 1 = i
        BY <2>1, <2>2, <3>2
      <4> QED BY <2>1, <2>2, <4>1
    <3> QED BY <3>1, <3>2
  <2>4. Len(c) = Len(p)
    BY <2>1, <2>2
  <2>5. c = p
    BY <2>2, <2>3, <2>4, SeqEqual
  <2> QED BY <2>5 DEF c
<1>3. (q \o << Head(p) >>) \o Tail(p) = q \o (<< Head(p) >> \o Tail(p))
  BY <1>1, ConcatAssociative
<1> QED BY <1>2, <1>3

(* The decision at the head of the socket is taken.                        *)
LEMMA DecisionTaken ==
  ASSUME GatewayInv, gateway.status = "Ok", NEW g, Sound(stream, g), Ready(stream, g) \/ g.status # "Ok",
         g.status \in GatewayStatuses \ {"UnexpectedOrderDecision"},
         gateway.pending # << >>, inbound # << >>, Head(inbound) = Head(gateway.pending),
         g.status = "Ok" =>
           g.pending = Tail(gateway.pending) /\ IntentsIn(stream \o g.sent) = IntentsIn(stream),
         gateway' = Gateway!Settled(g), stream' = stream \o g.sent,
         inbound' = Tail(inbound), decided' = decided \o << Head(inbound) >>,
         UNCHANGED << time, carried, lossFree >>, nowNs' \in Nat
  PROVE  GatewayInv'
<1>1. /\ gateway' \in GatewayRecord /\ gateway'.sent = << >> /\ gateway'.status = g.status
      /\ gateway'.batch = g.batch /\ gateway'.pending = g.pending
      /\ Sequenced(stream') /\ carried' \in 0 .. Len(stream') /\ CarriedTo' = CarriedTo
      /\ g.status = "Ok" => Batched(stream', gateway')
  BY SettleStep
<1>2. /\ Len(inbound) \in Nat /\ Len(inbound) >= 1 /\ Head(inbound) \in Nat
      /\ Tail(inbound) \in Seq(Nat) /\ Len(Tail(inbound)) = Len(inbound) - 1
      /\ \A i \in 1 .. Len(Tail(inbound)) : Tail(inbound)[i] = inbound[i + 1]
  BY HeadTailProperties, EmptySeq, LenProperties DEF GatewayInv
<1>3. decided' \in Seq(Nat) /\ Len(decided') = Len(decided) + 1 /\ Len(decided) \in Nat
  <2>1. decided' = Append(decided, Head(inbound)) /\ decided \in Seq(Nat)
    BY <1>2, AppendIsConcat DEF GatewayInv
  <2> QED BY <1>2, <2>1, AppendProperties, LenProperties
<1>4. DecisionsExpected'
  BY <1>1 DEF DecisionsExpected
<1>5. ASSUME g.status = "Ok"
      PROVE  Answerable(Ordered', stream') /\ (lossFree' => Expected')
  <2>1. Answerable(Ordered, stream) /\ (lossFree => Expected)
    BY DEF GatewayInv
  <2>2. Ordered' = Ordered
    <3>1. decided \in Seq(Nat) /\ gateway.pending \in Seq(Nat)
      BY OrderedFacts
    <3>2. Ordered' = (decided \o << Head(gateway.pending) >>) \o Tail(gateway.pending)
      BY <1>1, <1>5 DEF Ordered
    <3> QED BY <3>1, <3>2, TakeFirst DEF Ordered
  <2>3. Answerable(Ordered', stream')
    BY <1>5, <2>1, <2>2 DEF Answerable
  <2>4. ASSUME Expected PROVE Expected'
    <3>1. Len(decided') + Len(inbound') = Len(decided) + Len(inbound)
      BY <1>2, <1>3
    <3>2. \A i \in DOMAIN inbound' : inbound'[i] = Ordered[Len(decided') + i]
      <4> TAKE i \in DOMAIN inbound'
      <4>1. i \in 1 .. Len(Tail(inbound))
        BY <1>2, LenProperties
      <4>a. DOMAIN inbound = 1 .. Len(inbound)
        BY OrderedFacts
      <4>2. i + 1 \in DOMAIN inbound /\ Len(decided) + (i + 1) = Len(decided') + i
        <5>1. Len(inbound) \in Nat /\ i \in Nat /\ 1 <= i /\ i <= Len(inbound) - 1
          BY <1>2, <4>1
        <5>2. i + 1 \in DOMAIN inbound
          BY <4>a, <5>1
        <5>3. Len(decided') = Len(decided) + 1 /\ Len(decided) \in Nat
          BY <1>3
        <5> QED BY <5>1, <5>2, <5>3
      <4>3. inbound[i + 1] = Ordered[Len(decided) + (i + 1)]
        BY <2>4, <4>2 DEF Expected
      <4> QED BY <1>2, <4>1, <4>2, <4>3
    <3> QED BY <1>1, <2>2, <2>4, <3>1, <3>2 DEF Expected
  <2> QED BY <2>1, <2>3, <2>4
<1> QED BY <1>1, <1>2, <1>3, <1>4, <1>5 DEF GatewayInv

LEMMA ServiceStep ==
  ASSUME GatewayInv, gateway.status = "Ok", ServiceGateway,
         UNCHANGED << time, carried, lossFree >>
  PROVE  /\ GatewayInv'
         /\ gateway'.status = "Ok" => main' = "pop"
         /\ gateway'.status # "Ok" => main' = "stopping"
         /\ gateway.batch = << >> /\ gateway'.status = "Ok" => gateway'.batch = << >>
<1> DEFINE packets == IF inbound = << >> THEN << >> ELSE << Head(inbound) >>
           started(failing) == [gateway EXCEPT !.failing = failing]
<1>1. PICK failing \in 0 .. 1 :
        LET g == Gateway!Service(started(failing), packets, time)
        IN  /\ Settle(g, "pop")
            /\ inbound' = SubSeq(inbound, 2, Len(inbound))
            /\ decided' = IF g.status = "UnexpectedOrderDecision" THEN decided
                                                                  ELSE decided \o packets
  BY DEF ServiceGateway
<1> DEFINE g0 == started(failing)
           answered == IF packets = << >> THEN g0
                                          ELSE Gateway!ProcessOrderDecision(g0, Head(packets))
           g == Gateway!Service(g0, packets, time)
<1>2. g = IF answered.status = "Ok" THEN Gateway!FlushExpired(answered, time) ELSE answered
  BY DEF Gateway!Service
<1>3. /\ gateway' = Gateway!Settled(g) /\ stream' = stream \o g.sent
      /\ main' = IF g.status = "Ok" THEN "pop" ELSE "stopping"
      /\ inbound' = SubSeq(inbound, 2, Len(inbound))
      /\ decided' = IF g.status = "UnexpectedOrderDecision" THEN decided ELSE decided \o packets
  BY <1>1 DEF Settle
<1>4. /\ Ready(stream, g0) /\ g0.pending = gateway.pending /\ g0.batch = gateway.batch
      /\ stream \o g0.sent = stream /\ g0.status = "Ok" /\ g0 \in GatewayRecord
  <2>1. failing \in Nat
    OBVIOUS
  <2>2. g0 \in {gateway, [gateway EXCEPT !.failing = failing]}
    OBVIOUS
  <2> QED BY <2>1, <2>2, HandlerStarts DEF Ready, InHand, Sound
<1>5. nowNs' \in Nat /\ inbound \in Seq(Nat) /\ decided \in Seq(Nat)
  BY DEF ServiceGateway, GatewayInv
<1> HIDE DEF g, g0, started, answered
<1>6. CASE inbound = << >>
  <2>1. answered = g0 /\ packets = << >>
    BY <1>6 DEF answered
  <2>2. Steady(stream, g0, g)
    BY <1>2, <1>4, <2>1, SteadyFlushExpired DEF Ready
  <2>3. g.status \in {"Ok", "DownstreamSendFailed"} /\ Sound(stream, g)
        /\ g.pending = gateway.pending
        /\ (g.status = "Ok" => Ready(stream, g) /\ IntentsIn(stream \o g.sent) = IntentsIn(stream))
    BY <1>4, <2>2, SteadyReady DEF Steady, Kept
  <2>4. decided' = decided /\ inbound' = inbound
    <3>1. decided \o << >> = decided
      BY <1>5, ConcatEmptySeq
    <3>2. inbound' = << >>
      BY <1>3, <1>6
    <3> QED BY <1>3, <1>6, <2>1, <2>3, <3>1, <3>2
  <2>5. GatewayInv'
    BY <1>3, <1>5, <2>3, <2>4, GatewayHandled DEF GatewayStatuses
  <2>6. gateway'.status = g.status /\ gateway'.batch = g.batch
    BY <1>3, <2>3, SettleStep
  <2> QED BY <1>3, <1>4, <2>2, <2>5, <2>6 DEF Steady
<1>7. CASE inbound # << >>
  <2>1. packets = << Head(inbound) >> /\ packets # << >> /\ Head(packets) = Head(inbound)
    BY <1>7
  <2>2. answered = IF g0.pending = << >> \/ Head(g0.pending) # Head(inbound)
                     THEN Gateway!Fails(g0, "UnexpectedOrderDecision")
                     ELSE [g0 EXCEPT !.pending = Tail(@)]
    BY <2>1 DEF answered, Gateway!ProcessOrderDecision
  <2> HIDE DEF packets
  <2>3. inbound' = Tail(inbound) /\ Tail(inbound) \in Seq(Nat)
    BY <1>3, <1>5, <1>7, TailIsSubSeq, HeadTailProperties
  <2>4. CASE gateway.pending = << >> \/ Head(gateway.pending) # Head(inbound)
    <3>1. answered = Gateway!Fails(g0, "UnexpectedOrderDecision")
          /\ "UnexpectedOrderDecision" \in GatewayStatuses
      BY <1>4, <2>2, <2>4 DEF GatewayStatuses
    <3>2. Sound(stream, answered) /\ answered.status = "UnexpectedOrderDecision"
      BY <1>4, <3>1, FailsStep DEF Ready
    <3>3. g = answered
      BY <1>2, <3>2
    <3>4. /\ gateway' \in GatewayRecord /\ gateway'.sent = << >> /\ gateway'.status = g.status
          /\ Sequenced(stream') /\ carried' \in 0 .. Len(stream')
      BY <1>3, <3>2, <3>3, SettleStep
    <3>5. ~lossFree
      <4> SUFFICES ASSUME lossFree PROVE FALSE
        OBVIOUS
      <4>1. Expected
        BY DEF GatewayInv
      <4>a. Len(inbound) >= 1
        BY <1>5, <1>7, EmptySeq
      <4>b. /\ Len(inbound) \in Nat /\ DOMAIN inbound = 1 .. Len(inbound) /\ Len(decided) \in Nat
            /\ Len(gateway.pending) \in Nat /\ Len(Ordered) = Len(decided) + Len(gateway.pending)
        BY OrderedFacts
      <4>2. Len(inbound) \in Nat /\ Len(inbound) >= 1 /\ 1 \in DOMAIN inbound /\ Len(decided) \in Nat
            /\ Len(gateway.pending) \in Nat /\ Len(Ordered) = Len(decided) + Len(gateway.pending)
        BY <4>a, <4>b
      <4>3. inbound[1] = Ordered[Len(decided) + 1] /\ Len(gateway.pending) >= 1
        BY <4>1, <4>2 DEF Expected
      <4>4. 1 \in 1 .. Len(gateway.pending)
        BY <4>2, <4>3
      <4>5. inbound[1] = gateway.pending[1]
        BY <4>3, <4>4, OrderedFacts
      <4>6. gateway.pending # << >> /\ Head(gateway.pending) = gateway.pending[1]
            /\ Head(inbound) = inbound[1]
        BY <4>2, <4>3
      <4> QED BY <2>4, <4>5, <4>6
    <3>6. GatewayInv'
      BY <1>3, <1>5, <2>3, <3>2, <3>3, <3>4, <3>5 DEF GatewayInv, DecisionsExpected
    <3> QED BY <1>3, <3>2, <3>3, <3>4, <3>6
  <2>5. CASE gateway.pending # << >> /\ Head(gateway.pending) = Head(inbound)
    <3>1. answered = [g0 EXCEPT !.pending = Tail(@)]
      BY <1>4, <2>2, <2>5
    <3>2. Tail(gateway.pending) \in Seq(Nat)
      BY <2>5, OrderedFacts, HeadTailProperties
    <3>3. /\ answered \in GatewayRecord /\ answered.sent = g0.sent /\ answered.batch = g0.batch
          /\ answered.status = "Ok" /\ answered.nextSequenceNumber = g0.nextSequenceNumber
          /\ answered.pending = Tail(gateway.pending)
      <4> DEFINE rest == Tail(gateway.pending)
      <4>1. answered = [g0 EXCEPT !.pending = rest]
        BY <1>4, <3>1 DEF GatewayRecord
      <4> HIDE DEF rest
      <4>2. answered = [batch |-> g0.batch, oldestMessageTime |-> g0.oldestMessageTime,
                        nextSequenceNumber |-> g0.nextSequenceNumber, pending |-> rest,
                        status |-> "Ok", sent |-> g0.sent, failing |-> g0.failing]
        BY <1>4, <4>1 DEF GatewayRecord
      <4> QED BY <1>4, <3>2, <4>2, SentType DEF rest, GatewayRecord, GatewayStatuses
    <3>4. Ready(stream, answered)
      BY <1>4, <3>3 DEF Ready, Sound, InHand, Upcoming
    <3>5. Steady(stream, answered, g)
      BY <1>2, <3>3, <3>4, SteadyFlushExpired DEF Ready
    <3>6. /\ g.status \in {"Ok", "DownstreamSendFailed"} /\ Sound(stream, g)
          /\ g.pending = Tail(gateway.pending)
          /\ g.status = "Ok" => Ready(stream, g) /\ IntentsIn(stream \o g.sent) = IntentsIn(stream)
      BY <1>4, <3>3, <3>4, <3>5, SteadyReady DEF Steady, Kept
    <3>7. decided' = decided \o << Head(inbound) >>
      BY <1>3, <2>1, <3>6
    <3>8. GatewayInv'
      BY <1>3, <1>5, <1>7, <2>3, <2>5, <3>6, <3>7, DecisionTaken DEF GatewayStatuses
    <3>9. gateway'.status = g.status /\ gateway'.batch = g.batch
      BY <1>3, <3>6, SettleStep
    <3> QED BY <1>3, <1>4, <3>3, <3>5, <3>8, <3>9 DEF Steady
  <2> QED BY <2>4, <2>5
<1> QED BY <1>6, <1>7

-----------------------------------------------------------------------------
(* The answers of the FPGA                                                 *)
LEMMA DecisionsOfDatagram ==
  ASSUME NEW d \in Datagram, WellFormed(d)
  PROVE  \/ IntentsOf(d) = {} /\ DecisionsFor(d) = << >>
         \/ IntentsOf(d) = {Len(d)} /\ DecisionsFor(d) = << d[Len(d)].number >>
<1> DEFINE intents == IntentsOf(d)
           Before(j) == {k \in intents : k < j}
           Nth(n)    == CHOOSE j \in intents : Cardinality(Before(j)) = n - 1
<1>1. DecisionsFor(d) = [n \in 1 .. Cardinality(intents) |-> d[Nth(n)].number]
  BY DEF DecisionsFor
<1>2. Len(d) \in Nat /\ (intents = {} \/ intents = {Len(d)})
  BY DatagramElements DEF WellFormed
<1>3. CASE intents = {}
  <2>1. Cardinality(intents) = 0
    BY <1>3, FS_EmptySet
  <2>2. DecisionsFor(d) = << >>
    BY <1>1, <2>1
  <2> QED BY <1>3, <2>2
<1>4. CASE intents = {Len(d)}
  <2>1. Cardinality(intents) = 1
    BY <1>4, FS_Singleton
  <2>2. Nth(1) = Len(d)
    <3>1. Before(Len(d)) = {}
      BY <1>2, <1>4
    <3>2. Cardinality(Before(Len(d))) = 1 - 1
      BY <3>1, FS_EmptySet
    <3> HIDE DEF Before, intents
    <3> QED BY <1>4, <3>2
  <2> HIDE DEF Nth
  <2>3. DecisionsFor(d) = [n \in 1 .. 1 |-> d[Nth(n)].number]
    BY <1>1, <2>1
  <2> HIDE DEF intents
  <2>4. DecisionsFor(d) = << d[Len(d)].number >>
    BY <2>2, <2>3
  <2> QED BY <1>4, <2>4 DEF intents
<1> QED BY <1>2, <1>3, <1>4

LEMMA NextDatagram ==
  ASSUME GatewayInv, carried < Len(stream)
  PROVE  LET d == stream[carried + 1]
         IN  /\ carried + 1 \in DOMAIN stream /\ carried \in Nat /\ d \in Datagram /\ WellFormed(d)
             /\ d[1].number = CarriedTo /\ CarriedTo \in Nat
             /\ NumberAfter(d) \in Nat /\ NumberAfter(d) = CarriedTo + Len(d) /\ Len(d) \in Nat
<1> DEFINE d == stream[carried + 1]
<1>1. Sequenced(stream) /\ carried \in Nat /\ carried + 1 \in DOMAIN stream
      /\ d \in Datagram /\ WellFormed(d)
  BY StreamElements DEF GatewayInv
<1>2. d[1].number = CarriedTo
  <2>1. d[1].number = IF carried + 1 = 1 THEN StartupCommands + 1 ELSE NumberAfter(stream[carried + 1 - 1])
    BY <1>1 DEF Sequenced
  <2>2. carried + 1 - 1 = carried /\ (carried + 1 = 1 <=> carried = 0)
    BY <1>1
  <2> QED BY <2>1, <2>2 DEF CarriedTo
<1>3. NumberAfter(d) \in Nat /\ NumberAfter(d) = d[1].number + Len(d)
  BY <1>1, DatagramNumbers
<1>4. Len(d) \in Nat
  BY <1>1, DatagramElements
<1> QED BY <1>1, <1>2, <1>3, <1>4, CarriedBelow

(* The intents with the numbers of a datagram are in that datagram.        *)
LEMMA IntentsBetween ==
  ASSUME GatewayInv, carried < Len(stream), NEW n \in IntentsIn(stream),
         CarriedTo <= n, n < NumberAfter(stream[carried + 1])
  PROVE  n \in IntentNumbers(stream[carried + 1])
<1> DEFINE d == stream[carried + 1]
<1>1. /\ Sequenced(stream) /\ Len(stream) \in Nat /\ DOMAIN stream = 1 .. Len(stream)
      /\ carried \in 0 .. Len(stream)
  BY StreamElements DEF GatewayInv
<1>2. PICK i \in DOMAIN stream : n \in {stream[i][j].number : j \in IntentsOf(stream[i])}
  BY DEF IntentsIn
<1>3. PICK j \in IntentsOf(stream[i]) : n = stream[i][j].number
  BY <1>2
<1>4. stream[i] \in Datagram /\ WellFormed(stream[i])
  BY <1>1, StreamElements
<1>5. j \in DOMAIN stream[i] /\ n \in Nat /\ n < NumberAfter(stream[i]) /\ NumberAfter(stream[i]) \in Nat
      /\ stream[i][1].number \in Nat /\ stream[i][1].number <= n
  <2>1. j \in DOMAIN stream[i]
    BY <1>3 DEF IntentsOf
  <2>2. n = stream[i][1].number + j - 1 /\ j \in Nat /\ j >= 1
    BY <1>3, <1>4, <2>1, DatagramElements DEF WellFormed
  <2>3. stream[i][1].number \in Nat /\ NumberAfter(stream[i]) \in Nat /\ n < NumberAfter(stream[i])
    BY <1>3, <1>4, <2>1, DatagramNumbers
  <2> QED BY <2>1, <2>2, <2>3
<1>6. \A k, l \in DOMAIN stream : k < l => NumberAfter(stream[k]) <= stream[l][1].number
  BY <1>1 DEF Sequenced
<1>7. CASE i = carried + 1
  BY <1>3, <1>7 DEF IntentNumbers
<1>8. CASE i <= carried
  <2>1. carried \in DOMAIN stream /\ carried # 0 /\ CarriedTo = NumberAfter(stream[carried])
    BY <1>1, <1>8 DEF CarriedTo
  <2>2. NumberAfter(stream[i]) <= CarriedTo
    <3>1. CASE i = carried
      BY <1>5, <2>1, <3>1
    <3>2. CASE i < carried
      <4>1. NumberAfter(stream[i]) <= stream[carried][1].number
        BY <1>6, <2>1, <3>2
      <4>2. stream[carried][1].number \in Nat /\ NumberAfter(stream[carried]) \in Nat
            /\ stream[carried][1].number <= NumberAfter(stream[carried])
        <5>1. stream[carried] \in Datagram /\ WellFormed(stream[carried])
          BY <1>1, <2>1, StreamElements
        <5>2. Len(stream[carried]) \in Nat
          BY <5>1, DatagramElements
        <5> QED BY <5>1, <5>2, DatagramNumbers
      <4> QED BY <1>5, <2>1, <4>1, <4>2
    <3> QED BY <1>1, <1>8, <3>1, <3>2
  <2> QED BY <1>5, <2>2, CarriedBelow
<1>9. CASE carried + 1 < i
  <2>1. NumberAfter(d) <= stream[i][1].number /\ NumberAfter(d) \in Nat
    BY <1>6, <1>9, NextDatagram
  <2> QED BY <1>5, <2>1
<1> QED BY <1>1, <1>7, <1>8, <1>9

LEMMA AnswerStep ==
  ASSUME GatewayInv, Answer
  PROVE  GatewayInv'
<1> DEFINE d == stream[carried + 1]
           L == Len(decided) + Len(inbound)
<1>1. /\ carried < Len(stream) /\ carried' = carried + 1
      /\ inbound' = inbound \o DecisionsFor(d)
      /\ UNCHANGED << time, nowNs, gateway, stream, decided, lossFree >>
  BY DEF Answer, hostAndReplay, hostThread
<1>2. /\ carried + 1 \in DOMAIN stream /\ carried \in Nat /\ d \in Datagram /\ WellFormed(d)
      /\ d[1].number = CarriedTo /\ CarriedTo \in Nat
      /\ NumberAfter(d) \in Nat /\ NumberAfter(d) = CarriedTo + Len(d) /\ Len(d) \in Nat
  BY <1>1, NextDatagram
<1>3. carried' \in 0 .. Len(stream') /\ CarriedTo' = NumberAfter(d)
  <2>1. Len(stream) \in Nat
    BY StreamElements DEF GatewayInv
  <2> QED BY <1>1, <1>2, <2>1 DEF CarriedTo
<1>4. \/ IntentsOf(d) = {} /\ DecisionsFor(d) = << >>
      \/ IntentsOf(d) = {Len(d)} /\ DecisionsFor(d) = << d[Len(d)].number >>
  BY <1>2, DecisionsOfDatagram
<1> HIDE DEF d
<1>5. inbound' \in Seq(Nat)
  <2>1. inbound \in Seq(Nat)
    BY DEF GatewayInv
  <2>2. DecisionsFor(d) \in Seq(Nat)
    <3>1. \A j \in IntentsOf(d) : d[j].number \in Nat
      BY <1>2, DatagramElements DEF IntentsOf
    <3>2. << >> \in Seq(Nat) /\ \A n \in Nat : << n >> \in Seq(Nat)
      OBVIOUS
    <3> QED BY <1>4, <3>1, <3>2
  <2> QED BY <1>1, <2>1, <2>2, ConcatProperties
<1>6. ASSUME gateway.status = "Ok", Expected
      PROVE  Expected'
  <2>1. Answerable(Ordered, stream) /\ Ordered' = Ordered
    BY <1>1, <1>6 DEF GatewayInv, Ordered
  <2>2. /\ Ordered \in Seq(Nat) /\ Len(Ordered) \in Nat /\ DOMAIN Ordered = 1 .. Len(Ordered)
        /\ \A k \in DOMAIN Ordered : Ordered[k] \in Nat /\ Ordered[k] \in IntentsIn(stream)
        /\ \A k, l \in DOMAIN Ordered : k < l => Ordered[k] < Ordered[l]
        /\ \A n \in IntentsIn(stream) : \E k \in DOMAIN Ordered : n = Ordered[k]
    <3>1. /\ Ordered \in Seq(Nat) /\ DOMAIN Ordered = 1 .. Len(Ordered)
          /\ \A k \in DOMAIN Ordered : Ordered[k] \in Nat
      BY OrderedFacts
    <3>2. Len(Ordered) \in Nat
      BY <3>1, NatSequence
    <3>3. \A k \in DOMAIN Ordered : Ordered[k] \in IntentsIn(stream)
      BY <2>1 DEF Answerable, Elements
    <3>4. \A n \in IntentsIn(stream) : \E k \in DOMAIN Ordered : n = Ordered[k]
      BY <2>1 DEF Answerable, Elements
    <3>5. \A k, l \in DOMAIN Ordered : k < l => Ordered[k] < Ordered[l]
      BY <2>1 DEF Answerable, Increasing
    <3> QED BY <3>1, <3>2, <3>3, <3>4, <3>5
  <2>3. Len(decided) \in Nat /\ Len(inbound) \in Nat /\ DOMAIN inbound = 1 .. Len(inbound)
        /\ inbound \in Seq(Nat)
    BY OrderedFacts
  <2>4. /\ L <= Len(Ordered)
        /\ \A i \in DOMAIN inbound : inbound[i] = Ordered[Len(decided) + i]
        /\ \A k \in DOMAIN Ordered : k <= L <=> Ordered[k] < CarriedTo
    BY <1>6 DEF Expected
  <2>5. \A n \in IntentsIn(stream) : CarriedTo <= n /\ n < NumberAfter(d) => n \in IntentNumbers(d)
    BY <1>1, IntentsBetween DEF d
  <2>6. CASE IntentsOf(d) = {}
    <3>1. inbound' = inbound
      BY <1>1, <1>4, <2>3, <2>4, <2>6, ConcatEmptySeq
    <3>2. IntentNumbers(d) = {}
      BY <2>6 DEF IntentNumbers
    <3>3. \A k \in DOMAIN Ordered : Ordered[k] < CarriedTo <=> Ordered[k] < NumberAfter(d)
      BY <1>2, <2>2, <2>5, <3>2
    <3> QED BY <1>1, <1>3, <2>1, <2>4, <3>1, <3>3 DEF Expected
  <2>7. CASE IntentsOf(d) = {Len(d)}
    <3> DEFINE n == d[Len(d)].number
    <3>1. inbound' = inbound \o << n >> /\ Len(d) \in DOMAIN d
      BY <1>1, <1>2, <1>4, <2>4, <2>7 DEF IntentsOf
    <3>2. IntentNumbers(d) = {n}
      BY <2>7 DEF IntentNumbers
    <3>3. n = NumberAfter(d) - 1 /\ n \in Nat /\ CarriedTo <= n /\ n < NumberAfter(d)
      <4>1. n \in Nat /\ n < NumberAfter(d) /\ n = d[1].number + Len(d) - 1 /\ Len(d) >= 1
        BY <1>2, <3>1, DatagramElements, DatagramNumbers DEF WellFormed
      <4> QED BY <1>2, <4>1
    <3>4. n \in IntentsIn(stream)
      BY <1>2, <2>7 DEF IntentsIn, d
    <3> HIDE DEF n
    <3>5. PICK m \in DOMAIN Ordered : n = Ordered[m]
      BY <2>2, <3>4
    <3>6. m = L + 1
      <4>1. ~(m <= L) /\ m \in Nat /\ L \in Nat
        <5>1. ~(Ordered[m] < CarriedTo)
          BY <1>2, <3>3, <3>5
        <5>2. ~(m <= L)
          BY <2>4, <5>1
        <5>3. m \in Nat /\ L \in Nat
          BY <2>2, <2>3
        <5> QED BY <5>2, <5>3
      <4>2. CASE L + 1 < m
        <5>1. L + 1 \in DOMAIN Ordered /\ ~(L + 1 <= L)
          BY <2>2, <2>3, <4>1, <4>2
        <5>2. Ordered[L + 1] < n /\ ~(Ordered[L + 1] < CarriedTo) /\ Ordered[L + 1] \in Nat
              /\ Ordered[L + 1] \in IntentsIn(stream)
          BY <2>2, <2>4, <3>5, <4>2, <5>1
        <5>3. Ordered[L + 1] \in IntentNumbers(d)
          BY <1>2, <2>5, <3>3, <5>2
        <5> QED BY <3>2, <3>3, <5>2, <5>3
      <4> QED BY <4>1, <4>2
    <3>7. /\ Len(inbound') = Len(inbound) + 1 /\ DOMAIN inbound' = 1 .. Len(inbound) + 1
          /\ inbound'[Len(inbound) + 1] = n
          /\ \A i \in DOMAIN inbound : inbound'[i] = inbound[i]
      <4>1. inbound' = Append(inbound, n)
        BY <2>3, <3>1, <3>3, AppendIsConcat
      <4> QED BY <2>3, <3>3, <4>1, AppendProperties, LenProperties
    <3>8. \A i \in DOMAIN inbound' : inbound'[i] = Ordered[Len(decided) + i]
      <4> TAKE i \in DOMAIN inbound'
      <4>1. CASE i \in DOMAIN inbound
        BY <2>4, <3>7, <4>1
      <4>2. CASE i = Len(inbound) + 1
        <5>1. Len(decided) + i = m
          BY <2>3, <3>6, <4>2
        <5> QED BY <3>5, <3>7, <4>2, <5>1
      <4> QED BY <2>3, <3>7, <4>1, <4>2
    <3>9. \A k \in DOMAIN Ordered : k <= L + 1 <=> Ordered[k] < NumberAfter(d)
      <4> TAKE k \in DOMAIN Ordered
      <4>1. Ordered[k] \in Nat /\ (k < m => Ordered[k] < n) /\ (m < k => n < Ordered[k])
            /\ (k = m => Ordered[k] = n) /\ k \in Nat /\ m \in Nat
        BY <2>2, <3>5
      <4> QED BY <1>2, <3>3, <3>6, <4>1
    <3>10. Len(decided) + Len(inbound') = L + 1 /\ L + 1 <= Len(Ordered)
      BY <2>2, <2>3, <3>6, <3>7
    <3> HIDE DEF L
    <3> QED BY <1>1, <1>3, <2>1, <2>4, <3>8, <3>9, <3>10 DEF Expected
  <2> QED BY <1>4, <2>6, <2>7
<1>7. Ordered' = Ordered /\ DecisionsExpected'
  BY <1>1 DEF Ordered, GatewayInv, DecisionsExpected
<1> QED BY <1>1, <1>3, <1>5, <1>6, <1>7 DEF GatewayInv

-----------------------------------------------------------------------------
(* The host thread                                                         *)
MainUnchanged == << file, time, replayThread, statusSeen, interruptRequested,
                    carried, lossFree >>

LEMMA PushedKept ==
  ASSUME Pushed, UNCHANGED << file, replay, position, writeIndex, pushing >>
  PROVE  Pushed'
BY DEF Pushed, HasTimestamp

(* The positions stored before the status that is seen are visible.        *)
LEMMA LoadedStep ==
  ASSUME RingInv, Contents, StatusInv, LoadReplayStatus, UNCHANGED << file, handled >>
  PROVE  /\ RingInv' /\ Contents'
         /\ UNCHANGED << readIndex, popping, writeIndex, pushing >>
         /\ writeSeen <= writeSeen' /\ writeSeen' <= Len(file)
         /\ SeenStatus = "Complete" => writeSeen' = Len(file)
<1> DEFINE Entry == [status : Statuses, writes : Nat]
           w     == statusLog[statusSeen].writes
<1>1. w \in Nat /\ w <= writeIndex
  <2>1. statusLog \in Seq(Entry) /\ statusSeen \in DOMAIN statusLog
    BY LenProperties DEF StatusInv
  <2>2. \A e \in Entry : e.writes \in Nat
    OBVIOUS
  <2> HIDE DEF Entry
  <2>3. statusLog[statusSeen] \in Entry
    BY <2>1
  <2> QED BY <2>1, <2>2, <2>3 DEF StatusInv
<1>2. SeenStatus = "Complete" => w = Len(file)
  <2>1. statusSeen \in DOMAIN statusLog
    BY LenProperties DEF StatusInv
  <2> QED BY <2>1 DEF StatusInv, SeenStatus
<1>3. writeSeen' = IF w > writeSeen THEN w ELSE writeSeen
  BY DEF LoadReplayStatus, PublishedWrites
<1> HIDE DEF w
<1>4. writeSeen' \in Nat /\ writeSeen <= writeSeen' /\ writeSeen' <= writeIndex
  BY <1>1, <1>3, Indices
<1>5. UNCHANGED << ringBuffer, writeIndex, cachedReadIndex, pushing, readSeen, readIndex,
                   cachedWriteIndex, popping >>
  BY DEF LoadReplayStatus, ringProducer, ringConsumer
<1>6. RingInv' /\ Contents'
  BY <1>4, <1>5, Indices DEF RingInv, Contents
<1>7. SeenStatus = "Complete" => writeSeen' = Len(file)
  BY <1>1, <1>2, <1>3, Indices
<1>8. writeSeen' <= Len(file)
  BY <1>4, Indices
<1> QED BY <1>4, <1>5, <1>6, <1>7, <1>8

LEMMA FailureSeen ==
  ASSUME StatusInv, ReplayFailed(SeenStatus)
  PROVE  ReplayFailed(LastStatus) /\ replay = "ended"
<1>1. statusSeen \in DOMAIN statusLog
  BY LenProperties DEF StatusInv
<1>2. Final(statusLog[statusSeen].status)
  BY DEF Final, SeenStatus
<1>3. statusSeen = Len(statusLog) /\ replay = "ended"
  BY <1>1, <1>2 DEF StatusInv
<1> QED BY <1>3 DEF SeenStatus, LastStatus

LEMMA LoadingStep ==
  ASSUME IInv, InterruptSetup \/ SetupDone \/ CheckReady \/ CheckStatus, LoadReplayStatus, Quiet,
         UNCHANGED MainUnchanged
  PROVE  IInv'
<1>1. /\ RingInv /\ Contents /\ Pushed /\ StatusInv /\ HostInv /\ GatewayInv
      /\ UNCHANGED << file, handled, replay, position, statusLog, statusSeen, interruptRequested, gateway >>
  BY DEF IInv, MainUnchanged, replayThread, Quiet
<1>2. UNCHANGED << nowNs, downstreamFlushed, exitCode >>
  BY DEF InterruptSetup, SetupDone, CheckReady, CheckStatus, Goto
<1>3. /\ RingInv' /\ Contents' /\ UNCHANGED << readIndex, popping, writeIndex, pushing >>
      /\ SeenStatus = "Complete" => writeSeen' = Len(file)
  BY <1>1, LoadedStep
<1>4. Pushed'
  BY <1>1, <1>3, PushedKept
<1>5. StatusInv'
  BY <1>1, <1>3 DEF StatusInv
<1>6. GatewayInv'
  BY <1>1, <1>2, GatewayUnchanged DEF Quiet, MainUnchanged, network
<1>7. /\ main \in {"setup", "check", "status"}
      /\ main' \in {"setup", "check", "setupFailed", "service", "drained", "stopping"}
      /\ main' = "drained" => SeenStatus = "Complete"
      /\ main' = "stopping" => ReplayFailed(SeenStatus)
  <2>1. CASE InterruptSetup \/ SetupDone \/ CheckReady
    BY <2>1 DEF InterruptSetup, SetupDone, CheckReady, Goto
  <2>2. CASE CheckStatus
    <3>1. CASE ReplayFailed(SeenStatus)
      BY <2>2, <3>1 DEF CheckStatus, Goto, ReplayFailed
    <3>2. CASE ~ReplayFailed(SeenStatus)
      BY <2>2, <3>2 DEF CheckStatus, Goto
    <3> QED BY <3>1, <3>2
  <2> QED BY <2>1, <2>2
<1>8. main' = "stopping" => ReplayFailed(LastStatus) /\ replay = "ended"
  BY <1>1, <1>7, FailureSeen
<1>9. HostInv'
  BY <1>1, <1>2, <1>3, <1>7, <1>8 DEF HostInv, Finished, LastStatus
<1> QED BY <1>3, <1>4, <1>5, <1>6, <1>9 DEF IInv

LEMMA QuietStep ==
  ASSUME IInv, Interrupted \/ NotDrained \/ RequestStop \/ Join, UNCHANGED ring, Quiet,
         UNCHANGED MainUnchanged
  PROVE  IInv'
<1>1. /\ RingInv /\ Contents /\ Pushed /\ StatusInv /\ HostInv /\ GatewayInv
      /\ UNCHANGED << file, handled, replay, position, statusLog, statusSeen, interruptRequested, gateway >>
  BY DEF IInv, MainUnchanged, replayThread, Quiet
<1>2. UNCHANGED << nowNs, downstreamFlushed >>
  BY DEF Interrupted, NotDrained, RequestStop, Join, Goto
<1>3. /\ RingInv' /\ Contents'
      /\ UNCHANGED << readIndex, popping, writeIndex, pushing, writeSeen >>
  BY <1>1, RingUnchanged DEF ring, ringProducer, ringConsumer
<1>4. Pushed'
  BY <1>1, <1>3, PushedKept
<1>5. StatusInv'
  BY <1>1, <1>3 DEF StatusInv
<1>6. GatewayInv'
  BY <1>1, <1>2, GatewayUnchanged DEF Quiet, MainUnchanged, network
<1>7. HostInv'
  <2>1. CASE Interrupted
    BY <1>1, <1>2, <1>3, <2>1 DEF Interrupted, InterruptPolled, Goto, HostInv, Finished, LastStatus
  <2>2. CASE NotDrained
    BY <1>1, <1>2, <1>3, <2>2 DEF NotDrained, Goto, HostInv, Finished, LastStatus
  <2>3. CASE RequestStop
    BY <1>1, <1>2, <1>3, <2>3 DEF RequestStop, Goto, HostInv, Finished, LastStatus
  <2>4. CASE Join
    <3>1. main \in {"join", "setupFailed"} /\ main' = "exited" /\ exitCode' = ExitCode
      BY <2>4 DEF Join
    <3>2. exitCode' \in {0, 1, 130}
      BY <3>1 DEF ExitCode
    <3>3. exitCode' = 0 => main = "join" /\ ~interruptRequested /\ gateway.status = "Ok"
                           /\ ~ReplayFailed(LastStatus)
      BY <3>1 DEF ExitCode, LastStatus
    <3>4. exitCode' = 0 => Finished
      BY <1>1, <3>3 DEF HostInv
    <3> QED BY <1>1, <1>2, <1>3, <3>1, <3>2, <3>4 DEF HostInv, Finished
  <2> QED BY <2>1, <2>2, <2>3, <2>4
<1> QED BY <1>3, <1>4, <1>5, <1>6, <1>7 DEF IInv

LEMMA PopStep ==
  ASSUME IInv, PopMessage, Quiet, UNCHANGED MainUnchanged
  PROVE  IInv'
<1>1. /\ RingInv /\ Contents /\ Pushed /\ StatusInv /\ HostInv /\ GatewayInv
      /\ UNCHANGED << file, handled, replay, position, statusLog, statusSeen, interruptRequested, gateway >>
  BY DEF IInv, MainUnchanged, replayThread, Quiet
<1>2. UNCHANGED << nowNs, downstreamFlushed, exitCode >> /\ main = "pop"
  BY DEF PopMessage, Goto
<1>3. /\ RingInv' /\ Contents' /\ UNCHANGED << readIndex, writeIndex, pushing >>
      /\ \/ popping' = TRUE /\ main' = "taking"
         \/ popping' = FALSE /\ main' = "status"
  <2>1. CASE Ring!StartPop /\ Goto("taking")
    BY <1>1, <2>1, StartPopStep DEF Ring!StartPop, Ring!producer, Goto
  <2>2. CASE Ring!RefusePop /\ Goto("status")
    BY <1>1, <2>2, RefusePopStep DEF Ring!RefusePop, Ring!producer, Goto, RingInv
  <2> QED BY <2>1, <2>2 DEF PopMessage
<1>4. Pushed'
  BY <1>1, <1>3, PushedKept
<1>5. StatusInv'
  BY <1>1, <1>3 DEF StatusInv
<1>6. GatewayInv'
  BY <1>1, <1>2, GatewayUnchanged DEF Quiet, MainUnchanged, network
<1>7. HostInv'
  BY <1>1, <1>2, <1>3 DEF HostInv, Finished, LastStatus
<1> QED BY <1>3, <1>4, <1>5, <1>6, <1>7 DEF IInv

(* The gateway works: it has not failed before.                            *)
LEMMA GatewayStep ==
  ASSUME IInv, ServiceGateway \/ ReceiveFails \/ ProcessMessage \/ Drained, UNCHANGED MainUnchanged
  PROVE  IInv'
<1>1. /\ RingInv /\ Contents /\ Pushed /\ StatusInv /\ HostInv /\ GatewayInv
      /\ UNCHANGED << file, time, replay, position, statusLog, statusSeen, interruptRequested >>
      /\ UNCHANGED << carried, lossFree >>
  BY DEF IInv, MainUnchanged, replayThread
<1>2. main \in {"service", "taking", "drained"} /\ exitCode' = exitCode /\ exitCode # 0
      /\ gateway.status = "Ok"
  <2>1. main \in {"service", "taking", "drained"} /\ exitCode' = exitCode
    BY DEF ServiceGateway, ReceiveFails, ProcessMessage, Drained, Settle
  <2> QED BY <1>1, <2>1 DEF HostInv
<1>3. ASSUME UNCHANGED << ring, handled >>
      PROVE  /\ RingInv' /\ Contents' /\ Pushed' /\ StatusInv'
             /\ UNCHANGED << readIndex, writeSeen, popping >>
  <2>1. RingInv' /\ Contents' /\ UNCHANGED << readIndex, popping, writeIndex, pushing, writeSeen >>
    BY <1>1, <1>3, RingUnchanged DEF ring, ringProducer, ringConsumer
  <2>2. Pushed'
    BY <1>1, <2>1, PushedKept
  <2>3. StatusInv'
    BY <1>1, <2>1 DEF StatusInv
  <2> QED BY <2>1, <2>2, <2>3
<1>4. CASE ServiceGateway
  <2>1. UNCHANGED << ring, handled, downstreamFlushed >> /\ main = "service"
    BY <1>4 DEF ServiceGateway
  <2>2. /\ GatewayInv'
        /\ gateway'.status = "Ok" => main' = "pop"
        /\ gateway'.status # "Ok" => main' = "stopping"
        /\ gateway.batch = << >> /\ gateway'.status = "Ok" => gateway'.batch = << >>
    BY <1>1, <1>2, <1>4, ServiceStep
  <2>3. HostInv'
    BY <1>1, <1>2, <1>3, <2>1, <2>2 DEF HostInv, Finished, LastStatus
  <2> QED BY <1>3, <2>1, <2>2, <2>3 DEF IInv
<1>5. CASE ReceiveFails
  <2> DEFINE g == Gateway!Fails(gateway, "UpstreamReceiveFailed")
  <2>1. /\ UNCHANGED << ring, handled, downstreamFlushed, inbound, decided >> /\ main = "service"
        /\ gateway' = Gateway!Settled(g) /\ stream' = stream \o g.sent /\ nowNs' = time
        /\ main' = IF g.status = "Ok" THEN "pop" ELSE "stopping"
    BY <1>5 DEF ReceiveFails, Settle
  <2>2. Sound(stream, g) /\ g.status = "UpstreamReceiveFailed"
    <3>1. Sound(stream, gateway)
      BY <1>1, <1>2, HandlerStarts DEF Ready
    <3> QED BY <3>1, FailsStep DEF GatewayStatuses
  <2> HIDE DEF g
  <2>3. nowNs' \in Nat
    BY <1>1, <2>1 DEF GatewayInv
  <2>4. GatewayInv' /\ gateway'.status = "UpstreamReceiveFailed"
    BY <1>1, <1>2, <2>1, <2>2, <2>3, GatewayHandled, SettleStep DEF GatewayStatuses
  <2>5. HostInv'
    BY <1>1, <1>2, <1>3, <2>1, <2>2, <2>4 DEF HostInv, Finished, LastStatus
  <2> QED BY <1>3, <2>1, <2>4, <2>5 DEF IInv
<1>6. CASE ProcessMessage
  <2>1. PICK failing \in 0 .. 2 :
          Settle(Gateway!ProcessRawMessage([gateway EXCEPT !.failing = failing], file[item'].kind, nowNs),
                 "status")
    BY <1>6 DEF ProcessMessage
  <2> DEFINE g0 == [gateway EXCEPT !.failing = failing]
             kind == file[item'].kind
             g == Gateway!ProcessRawMessage(g0, kind, nowNs)
  <2>2. /\ Ring!FinishPop /\ handled' = Append(handled, item') /\ main = "taking"
        /\ UNCHANGED << nowNs, downstreamFlushed, inbound, decided >>
        /\ gateway' = Gateway!Settled(g) /\ stream' = stream \o g.sent
        /\ main' = IF g.status = "Ok" THEN "status" ELSE "stopping"
    BY <1>6, <2>1 DEF ProcessMessage, Settle
  <2>3. /\ RingInv' /\ Contents'
        /\ readIndex' = readIndex + 1 /\ item' = readIndex + 1 /\ readIndex < writeIndex
    BY <1>1, <2>2, FinishPopStep
  <2>4. popping' = FALSE /\ UNCHANGED << writeIndex, pushing, writeSeen >>
    BY <2>2 DEF Ring!FinishPop, Ring!producer
  <2>5. kind \in Kinds \ {"short"}
    <3>1. item' \in 1 .. writeIndex /\ item' \in 1 .. Len(file)
      BY <1>1, <2>3, Indices
    <3>2. file \in Seq([time : 0 .. MaxTime, kind : Kinds])
      BY <1>1, FileLength DEF RingInv
    <3>3. file[item'] \in [time : 0 .. MaxTime, kind : Kinds]
      BY <3>1, <3>2, ElementOfSeq
    <3>4. kind # "short"
      BY <1>1, <3>1 DEF Pushed, HasTimestamp
    <3> QED BY <3>3, <3>4
  <2>6. Ready(stream, g0) /\ g0.pending = gateway.pending /\ stream \o g0.sent = stream
    <3>1. failing \in Nat /\ g0 \in {gateway, [gateway EXCEPT !.failing = failing]}
      OBVIOUS
    <3> QED BY <1>1, <1>2, <3>1, HandlerStarts
  <2>7. nowNs \in Nat
    BY <1>1 DEF GatewayInv
  <2> HIDE DEF g0, kind
  <2>8. Processed(stream, g0, g)
    BY <2>5, <2>6, <2>7, ProcessRawMessageStep
  <2> HIDE DEF g
  <2>9. GatewayInv' /\ gateway'.status = g.status
    <3>1. Sound(stream, g) /\ g.status \in GatewayStatuses \ {"UnexpectedOrderDecision"}
      BY <2>8 DEF Processed
    <3>2. g.status = "Ok" =>
           /\ Ready(stream, g)
           /\ \/ g.pending = gateway.pending /\ IntentsIn(stream \o g.sent) = IntentsIn(stream)
              \/ \E n \in Nat :
                   /\ NextNumber(stream) <= n
                   /\ g.pending = Append(gateway.pending, n)
                   /\ IntentsIn(stream \o g.sent) = IntentsIn(stream) \cup {n}
      BY <2>6, <2>8 DEF Processed
    <3>3. nowNs' \in Nat
      BY <2>2, <2>7
    <3>4. GatewayInv'
      BY <1>1, <1>2, <2>2, <3>1, <3>2, <3>3, GatewayHandled
    <3>5. gateway'.status = g.status
      BY <1>1, <2>2, <3>1, <3>2, SettleStep
    <3> QED BY <3>4, <3>5
  <2>10. Pushed'
    BY <1>1, <2>4, PushedKept
  <2>11. StatusInv'
    BY <1>1, <2>4 DEF StatusInv
  <2>12. ~downstreamFlushed
    BY <1>1, <2>3, Indices DEF HostInv
  <2>13. HostInv'
    BY <1>1, <1>2, <2>2, <2>4, <2>9, <2>12 DEF HostInv, Finished, LastStatus
  <2> QED BY <2>3, <2>9, <2>10, <2>11, <2>13 DEF IInv
<1>7. CASE Drained
  <2>1. PICK failing \in 0 .. 1 :
         LET g == IF downstreamFlushed THEN gateway
                  ELSE Gateway!Flush([gateway EXCEPT !.failing = failing])
         IN  /\ Settle(g, IF g.pending = << >> THEN "stopping" ELSE "service")
             /\ downstreamFlushed' = (g.status = "Ok")
    BY <1>7 DEF Drained
  <2> DEFINE g0 == [gateway EXCEPT !.failing = failing]
             g == IF downstreamFlushed THEN gateway ELSE Gateway!Flush(g0)
  <2>2. /\ UNCHANGED << ring, nowNs, inbound, handled, decided >> /\ Ring!Empty /\ main = "drained"
        /\ gateway' = Gateway!Settled(g) /\ stream' = stream \o g.sent
        /\ main' = IF g.status = "Ok" THEN (IF g.pending = << >> THEN "stopping" ELSE "service")
                                      ELSE "stopping"
        /\ downstreamFlushed' = (g.status = "Ok")
    BY <1>7, <2>1 DEF Drained, Settle
  <2>3. /\ Ready(stream, g0) /\ g0.pending = gateway.pending /\ stream \o g0.sent = stream
        /\ Ready(stream, gateway) /\ stream \o gateway.sent = stream
    <3>1. failing \in Nat /\ g0 \in {gateway, [gateway EXCEPT !.failing = failing]}
          /\ gateway \in {gateway, [gateway EXCEPT !.failing = failing]}
      OBVIOUS
    <3> QED BY <1>1, <1>2, <3>1, HandlerStarts
  <2> HIDE DEF g0
  <2>4. readIndex = Len(file)
    BY <1>1, <2>2 DEF HostInv, Ring!Empty
  <2>5. /\ Sound(stream, g) /\ g.status \in {"Ok", "DownstreamSendFailed"}
        /\ g.status = "Ok" =>
             /\ Ready(stream, g) /\ g.batch = << >> /\ g.pending = gateway.pending
             /\ IntentsIn(stream \o g.sent) = IntentsIn(stream)
    <3>1. CASE downstreamFlushed
      <4>1. g = gateway /\ gateway.batch = << >>
        BY <1>1, <1>2, <3>1 DEF HostInv
      <4> HIDE DEF g
      <4> QED BY <1>2, <2>3, <4>1 DEF Ready
    <3>2. CASE ~downstreamFlushed
      <4>1. g = Gateway!Flush(g0)
        BY <3>2
      <4> HIDE DEF g
      <4>2. Steady(stream, g0, g) /\ Flushed(stream, g0, g)
        BY <2>3, <4>1, SteadyFlush, FlushStep DEF Ready
      <4>3. g.status = "Ok" => Ready(stream, g)
        BY <2>3, <4>2, SteadyReady
      <4> QED BY <2>3, <4>2, <4>3 DEF Steady, Flushed, Kept
    <3> QED BY <3>1, <3>2
  <2> HIDE DEF g
  <2>6. GatewayInv'
    <3>1. nowNs' \in Nat
      BY <1>1, <2>2 DEF GatewayInv
    <3> QED BY <1>1, <1>2, <2>2, <2>5, <3>1, GatewayHandled DEF GatewayStatuses
  <2>7. gateway'.status = g.status /\ gateway'.batch = g.batch /\ gateway'.pending = g.pending
    BY <1>1, <2>2, <2>5, SettleStep
  <2>8. HostInv'
    <3>1. g.status = "Ok" /\ main' = "stopping" => Finished'
      BY <1>1, <1>3, <2>2, <2>4, <2>5, <2>7 DEF Finished
    <3> QED BY <1>1, <1>2, <1>3, <2>2, <2>4, <2>5, <2>7, <3>1 DEF HostInv, LastStatus
  <2> QED BY <1>3, <2>2, <2>6, <2>8 DEF IInv
<1> QED BY <1>4, <1>5, <1>6, <1>7

LEMMA MainStepKeeps ==
  ASSUME IInv, MainStep
  PROVE  IInv'
<1>1. UNCHANGED MainUnchanged
  BY DEF MainStep, MainUnchanged
<1> QED BY <1>1, LoadingStep, QuietStep, PopStep, GatewayStep DEF MainStep

-----------------------------------------------------------------------------
(* Around the threads                                                      *)
LEMMA AroundStep ==
  ASSUME IInv, \/ Tick \/ HandleInterrupt \/ StatusBecomesVisible \/ IndexBecomesVisible
               \/ Answer \/ LoseDatagram \/ LoseDecision \/ UNCHANGED vars
  PROVE  IInv'
<1>1. /\ RingInv /\ Contents /\ Pushed /\ StatusInv /\ HostInv /\ GatewayInv
      /\ UNCHANGED << file, handled, replayThread, hostThread, gateway, stream, decided >>
  BY DEF IInv, Tick, HandleInterrupt, StatusBecomesVisible, IndexBecomesVisible, Answer, LoseDatagram,
         LoseDecision, vars, hostAndReplay, network
<1>2. /\ RingInv' /\ Contents'
      /\ UNCHANGED << readIndex, popping, writeIndex, pushing >>
      /\ writeSeen <= writeSeen'
  <2>1. CASE IndexBecomesVisible /\ Ring!WriteBecomesVisible
    <3>1. UNCHANGED << readIndex, popping, writeIndex, pushing, item >>
      BY <2>1 DEF Ring!WriteBecomesVisible, Ring!producer, Ring!consumer
    <3>2. RingInv' /\ Contents'
      BY <1>1, <2>1, <3>1, WriteVisibleStep
    <3>3. writeSeen \in Nat /\ writeSeen + 1 < IndexModulus
      <4>1. /\ writeSeen \in Nat /\ writeIndex \in Nat /\ writeSeen <= writeIndex
            /\ writeIndex <= Len(file) /\ Len(file) \in Nat /\ Len(file) < IndexModulus
            /\ IndexModulus \in Nat
        BY <1>1, Indices
      <4>2. writeSeen # writeIndex
        BY <2>1 DEF Ring!WriteBecomesVisible
      <4> QED BY <4>1, <4>2
    <3>4. writeSeen' = writeSeen + 1
      BY <2>1, <3>3, NoWrap DEF Ring!WriteBecomesVisible
    <3> QED BY <3>1, <3>2, <3>3, <3>4
  <2>2. CASE IndexBecomesVisible /\ Ring!ReadBecomesVisible
    <3>1. UNCHANGED << readIndex, popping, writeIndex, pushing, item, writeSeen >>
      BY <2>2 DEF Ring!ReadBecomesVisible, Ring!producer, Ring!consumer
    <3>2. RingInv' /\ Contents'
      BY <1>1, <2>2, <3>1, ReadVisibleStep
    <3> QED BY <1>1, <3>1, <3>2, Indices
  <2>3. CASE UNCHANGED ring
    <3>1. UNCHANGED << readIndex, popping, writeIndex, pushing, writeSeen >>
      BY <2>3 DEF ring, ringProducer, ringConsumer
    <3> QED BY <1>1, <2>3, <3>1, RingUnchanged, Indices
  <2>4. UNCHANGED ring \/ IndexBecomesVisible
    BY DEF Tick, HandleInterrupt, StatusBecomesVisible, Answer, LoseDatagram, LoseDecision, vars
  <2> QED BY <2>1, <2>2, <2>3, <2>4 DEF IndexBecomesVisible
<1>3. Pushed'
  BY <1>1, <1>2, PushedKept DEF replayThread
<1>4. statusSeen' \in 1 .. Len(statusLog)
  <2>1. statusSeen \in 1 .. Len(statusLog) /\ Len(statusLog) \in Nat
    BY <1>1, LenProperties DEF StatusInv
  <2>2. CASE StatusBecomesVisible
    BY <2>1, <2>2 DEF StatusBecomesVisible
  <2>3. CASE ~StatusBecomesVisible
    <3>1. statusSeen' = statusSeen
      BY <2>3 DEF Tick, HandleInterrupt, IndexBecomesVisible, Answer, LoseDatagram, LoseDecision, vars
    <3> QED BY <2>1, <3>1
  <2> QED BY <2>2, <2>3
<1>5. StatusInv'
  BY <1>1, <1>2, <1>4 DEF StatusInv, replayThread
<1>6. HostInv'
  <2>1. interruptRequested' \in BOOLEAN /\ (interruptRequested => interruptRequested')
    BY <1>1 DEF HostInv, Tick, HandleInterrupt, StatusBecomesVisible, IndexBecomesVisible, Answer,
                LoseDatagram, LoseDecision, vars, signals
  <2>2. writeSeen = Len(file) => writeSeen' = Len(file)
    <3>1. writeSeen' \in Nat /\ writeSeen' <= Len(file) /\ Len(file) \in Nat
      <4>1. writeSeen' \in Nat /\ writeIndex' \in Nat /\ writeSeen' <= writeIndex' /\ writeIndex' <= Len(file)
        BY <1>1, <1>2 DEF RingInv
      <4> QED BY <1>1, <4>1, Indices
    <3> QED BY <1>2, <3>1
  <2> QED BY <1>1, <1>2, <2>1, <2>2 DEF HostInv, Finished, LastStatus, hostThread, replayThread
<1>7. GatewayInv'
  <2>1. CASE Tick
    <3>1. time' = time + 1 /\ UNCHANGED << nowNs, network >>
      BY <2>1 DEF Tick, hostAndReplay, hostThread
    <3> QED BY <1>1, <3>1 DEF GatewayInv, network, Expected, Ordered, CarriedTo, DecisionsExpected
  <2>2. CASE Answer
    BY <1>1, <2>2, AnswerStep
  <2>3. CASE LoseDatagram
    <3>1. /\ carried < Len(stream) /\ carried' = carried + 1 /\ lossFree' = FALSE
          /\ UNCHANGED << time, nowNs, inbound >>
      BY <2>3 DEF LoseDatagram, hostAndReplay, hostThread
    <3>2. Len(stream) \in Nat
      BY <1>1, StreamElements DEF GatewayInv
    <3>3. carried' \in 0 .. Len(stream)
      BY <1>1, <3>1, <3>2 DEF GatewayInv
    <3> QED BY <1>1, <3>1, <3>3 DEF GatewayInv, Ordered, DecisionsExpected
  <2>4. CASE LoseDecision
    <3>1. /\ inbound # << >> /\ inbound' = Tail(inbound) /\ lossFree' = FALSE
          /\ UNCHANGED << time, nowNs, carried >>
      BY <2>4 DEF LoseDecision, hostAndReplay, hostThread
    <3>2. inbound' \in Seq(Nat)
      BY <1>1, <3>1, HeadTailProperties DEF GatewayInv
    <3> QED BY <1>1, <3>1, <3>2 DEF GatewayInv, Ordered, DecisionsExpected
  <2>5. CASE HandleInterrupt \/ StatusBecomesVisible \/ IndexBecomesVisible \/ UNCHANGED vars
    BY <1>1, <2>5, GatewayUnchanged DEF HandleInterrupt, StatusBecomesVisible, IndexBecomesVisible, vars,
                                        hostAndReplay, hostThread
  <2> QED BY <2>1, <2>2, <2>3, <2>4, <2>5
<1> QED BY <1>2, <1>3, <1>5, <1>6, <1>7 DEF IInv

-----------------------------------------------------------------------------
LEMMA Initially == Init => IInv
<1> SUFFICES ASSUME Init PROVE IInv
  OBVIOUS
<1>1. file \in Files /\ Len(file) \in Nat /\ 1 <= Len(file) /\ 0 \in Positions
      /\ Capacity \in Nat /\ 2 <= Capacity
  <2>1. file \in Files
    BY DEF Init
  <2>2. Len(file) \in Nat /\ 1 <= Len(file) /\ Len(file) < IndexModulus /\ IndexModulus \in Nat
    BY <2>1, FileLength, ConstantsAssumption
  <2> QED BY <2>1, <2>2, ConstantsAssumption DEF Positions
<1>2. /\ item = 0 /\ ringBuffer = [slot \in 0 .. Capacity - 1 |-> item]
      /\ writeIndex = 0 /\ cachedReadIndex = 0 /\ readSeen = 0 /\ pushing = FALSE
      /\ readIndex = 0 /\ cachedWriteIndex = 0 /\ writeSeen = 0 /\ popping = FALSE
  BY DEF Init, Ring!Init
<1>3. RingInv
  BY <1>1, <1>2 DEF RingInv
<1>4. Contents
  <2>1. handled = << >> /\ [n \in 1 .. 0 |-> n] = << >>
    BY DEF Init
  <2> QED BY <1>2, <2>1 DEF Contents
<1>5. Pushed
  BY <1>1, <1>2 DEF Init, Pushed
<1>6. StatusInv
  <2> DEFINE Entry == [status : Statuses, writes : Nat]
             entry == [status |-> "Starting", writes |-> 0]
  <2>1. entry \in Entry /\ entry.writes = 0 /\ entry.status = "Starting" /\ ~Final("Starting")
    BY DEF Statuses, Final, ReplayFailed
  <2>2. statusLog = << entry >> /\ statusSeen = 1
    BY DEF Init
  <2> HIDE DEF Entry, entry
  <2>3. statusLog \in Seq(Entry) /\ Len(statusLog) = 1 /\ DOMAIN statusLog = {1}
        /\ statusLog[1] = entry
    BY <2>1, <2>2
  <2> QED BY <1>2, <2>1, <2>2, <2>3 DEF StatusInv, Entry
<1>7. HostInv
  <2>1. /\ main = "setup" /\ exitCode = -1 /\ interruptRequested = FALSE
        /\ downstreamFlushed = FALSE
    BY DEF Init
  <2>2. gateway.status = "Ok"
    BY DEF Init, Gateway!Init
  <2>3. exitCode \in Int /\ exitCode # 0
    BY <2>1
  <2> QED BY <1>2, <2>1, <2>2, <2>3 DEF HostInv
<1>8. GatewayInv
  <2>1. /\ stream = << >> /\ decided = << >> /\ inbound = << >> /\ carried = 0 /\ time = 0 /\ nowNs = 0
        /\ gateway = [batch |-> << >>, oldestMessageTime |-> 0,
                      nextSequenceNumber |-> 1 + StartupCommands,
                      pending |-> << >>, status |-> "Ok", sent |-> << >>, failing |-> 0]
    BY DEF Init, Gateway!Init
  <2>2. /\ << >> \in Seq(Nat) /\ << >> \in Seq(Datagram) /\ << >> \in Datagram
        /\ Len(<< >>) = 0 /\ << >> \o << >> = << >> /\ DOMAIN << >> = {}
    BY EmptySeq, ConcatEmptySeq DEF Datagram
  <2>3. gateway \in GatewayRecord /\ gateway.sent = << >>
    BY <2>1, <2>2, ConstantsAssumption DEF GatewayRecord, GatewayStatuses
  <2>4. Sequenced(stream)
    BY <2>1, <2>2 DEF Sequenced
  <2>5. Batched(stream, gateway)
    <3>1. gateway.batch = << >> /\ gateway.nextSequenceNumber = 1 + StartupCommands
          /\ NextNumber(stream) = StartupCommands + 1
      BY <2>1 DEF NextNumber
    <3>2. IntentsOf(<< >>) = {}
      BY DEF IntentsOf
    <3>3. Upcoming(stream, gateway)
      BY <2>2, <3>1, ConstantsAssumption DEF Upcoming
    <3> QED BY <3>1, <3>2, <3>3, NoMessage DEF Batched
  <2>6. Ordered = << >>
    BY <2>1, <2>2 DEF Ordered
  <2>7. Answerable(Ordered, stream)
    BY <2>1, <2>2, <2>6 DEF Answerable, Increasing, Elements, IntentsIn
  <2>8. Expected
    BY <2>1, <2>2, <2>6 DEF Expected
  <2>9. DecisionsExpected
    BY <2>1 DEF DecisionsExpected
  <2> QED BY <2>1, <2>2, <2>3, <2>4, <2>5, <2>7, <2>8, <2>9 DEF GatewayInv
<1> QED BY <1>3, <1>4, <1>5, <1>6, <1>7, <1>8 DEF IInv

(* Every step of either thread, of the clock and of the link keeps the     *)
(* inductive invariant.                                                    *)
THEOREM InductiveInvariant == Spec => []IInv
<1>1. ASSUME IInv, [Next]_vars PROVE IInv'
  <2>1. CASE ReplayStep
    BY <1>1, <2>1, ReplayStepOwn, ReplayStepHost DEF IInv
  <2>2. CASE MainStep
    BY <1>1, <2>2, MainStepKeeps
  <2>3. CASE \/ Tick \/ HandleInterrupt \/ StatusBecomesVisible \/ IndexBecomesVisible
             \/ Answer \/ LoseDatagram \/ LoseDecision \/ UNCHANGED vars
    BY <1>1, <2>3, AroundStep
  <2> QED BY <1>1, <2>1, <2>2, <2>3 DEF Next, Exited
<1> QED BY Initially, <1>1, PTL DEF Spec

(* A run that exits with 0 has processed the whole file, in order, has     *)
(* nothing left to send and took one decision for each order it sent       *)
(* (main.cpp, the loop's exit on Complete).                                *)
THEOREM CleanExits == Spec => []CleanExitIsComplete
<1>1. IInv => CleanExitIsComplete
  <2> SUFFICES ASSUME IInv, exitCode = 0 PROVE CleanExitIsComplete
    BY DEF CleanExitIsComplete
  <2>1. Finished /\ Contents /\ GatewayInv
    BY DEF IInv, HostInv
  <2>2. handled = [n \in 1 .. Len(file) |-> n] /\ gateway.batch = << >>
    BY <2>1 DEF Finished, Contents
  <2>3. Ordered = decided
    <3>1. gateway.pending = << >> /\ decided \in Seq(Nat)
      BY <2>1 DEF Finished, GatewayInv
    <3> QED BY <3>1, ConcatEmptySeq DEF Ordered
  <2>4. Answerable(decided, stream)
    BY <2>1, <2>3 DEF Finished, GatewayInv
  <2> QED BY <2>2, <2>4 DEF CleanExitIsComplete, Answerable, Elements, IntentsIn, IntentsSent
<1> QED BY InductiveInvariant, <1>1, PTL

(* Whatever is sent carries consecutive numbers, and an ORDER_INTENT is    *)
(* the last of its datagram (outbound_sequencer.cpp, udp_batcher.hpp).     *)
THEOREM Sequencing == Spec => []StreamIsSequenced
<1>1. IInv => StreamIsSequenced
  <2> SUFFICES ASSUME IInv, NEW i \in DOMAIN stream
               PROVE  /\ stream[i] # << >>
                      /\ stream[i][1].number = IF i = 1 THEN StartupCommands + 1
                                                        ELSE NumberAfter(stream[i - 1])
                      /\ \A j \in 2 .. Len(stream[i]) :
                            stream[i][j].number = stream[i][j - 1].number + 1
                      /\ IntentsOf(stream[i]) \subseteq {Len(stream[i])}
    BY DEF StreamIsSequenced
  <2>1. Sequenced(stream)
    BY DEF IInv, GatewayInv
  <2>2. WellFormed(stream[i]) /\ stream[i] \in Datagram
    BY <2>1, StreamElements
  <2>3. ASSUME NEW j \in 2 .. Len(stream[i])
        PROVE  stream[i][j].number = stream[i][j - 1].number + 1
    <3>1. stream[i][1].number \in Nat /\ Len(stream[i]) \in Nat /\ DOMAIN stream[i] = 1 .. Len(stream[i])
      BY <2>2, DatagramElements, DatagramNumbers
    <3>2. j \in DOMAIN stream[i] /\ j - 1 \in DOMAIN stream[i]
      BY <3>1
    <3>3. /\ stream[i][j].number = stream[i][1].number + j - 1
          /\ stream[i][j - 1].number = stream[i][1].number + (j - 1) - 1
      BY <2>2, <3>2 DEF WellFormed
    <3> QED BY <3>1, <3>3
  <2> QED BY <2>1, <2>2, <2>3 DEF Sequenced, WellFormed
<1> QED BY InductiveInvariant, <1>1, PTL

(* As long as nothing is lost no decision surprises the gateway            *)
(* (HostGateway::processOrderDecision).                                    *)
THEOREM NoSurprise == Spec => []DecisionsExpected
<1>1. IInv => DecisionsExpected
  BY DEF IInv, GatewayInv
<1> QED BY InductiveInvariant, <1>1, PTL
=============================================================================
