---------------------------- MODULE RxLink_proofs ----------------------------
(***************************************************************************)
(* Payloads are passed on right, a bad line loses the lock and a few       *)
(* errors keep it, for every length of the windows and waits, every delay  *)
(* of the gearbox and every number of block boundaries.                    *)
(***************************************************************************)
EXTENDS RxLink, FiniteSetTheorems, TLAPS

Headers == {"legal", "illegal"}

TypeOK ==
  /\ state \in {"ACQUIRE", "SLIP_WAIT", "LOCKED"}
  /\ acquire_count \in Nat /\ monitor_count \in 0 .. MonitorLast
  /\ invalid_count \in 0 .. InvalidLimit - 1 /\ slip_wait_count \in 0 .. SlipWaitLast
  /\ rx_gearbox_slip \in BOOLEAN /\ block_lock \in BOOLEAN
  /\ sync_pending \in BOOLEAN /\ descrambled_payload_valid \in BOOLEAN
  /\ boundary \in 0 .. Boundaries - 1
  /\ slip_due \in Nat /\ legal_run \in Nat /\ resets_left \in Nat
  /\ recent \in Seq(Headers) /\ Len(recent) <= MonitorLast + 1

(* A slip is done before the receiver looks at headers again, and a wrong  *)
(* boundary has shown a legal header for each one counted.                 *)
Alignment ==
  /\ block_lock <=> state = "LOCKED"
  /\ state # "SLIP_WAIT" => slip_due = 0 /\ ~rx_gearbox_slip
  /\ rx_gearbox_slip => slip_due = 0 /\ slip_wait_count = 0
  /\ slip_due # 0 => slip_due + slip_wait_count <= SlipDelay + 1
  /\ state = "ACQUIRE" /\ boundary # 0 => acquire_count <= legal_run
  /\ state = "LOCKED" => boundary = 0

(* Under lock the descrambler holds the latest block once it has seen one. *)
Synchronised ==
  /\ block_lock /\ ~sync_pending => rx_lfsr = "latest"
  /\ ForwardedPayloadIsRight

(* The illegal headers among the last n of r.                              *)
Illegal(r, n) == {i \in DOMAIN r : i > Len(r) - n /\ r[i] = "illegal"}

(* invalid_count counts the illegal headers of this window.                *)
WindowCounted ==
  block_lock =>
    /\ monitor_count <= Len(recent)
    /\ invalid_count = Cardinality(Illegal(recent, monitor_count))

AllIllegal(r, n) == \A i \in 0 .. n - 1 : r[Len(r) - i] = "illegal"

(* A run of illegal headers that reaches back into the window before had   *)
(* not used up that window's limit.                                        *)
RunIsCounted ==
  block_lock =>
    \A n \in 0 .. Len(recent) : AllIllegal(recent, n) =>
      IF n <= monitor_count THEN n <= invalid_count
      ELSE invalid_count = monitor_count /\ n - monitor_count < InvalidLimit

IInv == TypeOK /\ Alignment /\ Synchronised /\ WindowCounted /\ RunIsCounted

-----------------------------------------------------------------------------
(* The history                                                             *)
LEMMA ShiftKeepsCardinality ==
  ASSUME NEW S \in SUBSET Int, IsFiniteSet(S), NEW d \in Int
  PROVE  /\ IsFiniteSet({i + d : i \in S})
         /\ Cardinality({i + d : i \in S}) = Cardinality(S)
<1> DEFINE T == {i + d : i \in S}
           f == [i \in S |-> i + d]
<1>1. f \in Bijection(S, T)
  <2>1. f \in Injection(S, T)
    BY DEF Injection, IsInjective
  <2>2. f \in Surjection(S, T)
    BY DEF Surjection
  <2> QED BY <2>1, <2>2 DEF Bijection
<1>2. ExistsBijection(S, T)
  BY <1>1 DEF ExistsBijection
<1> QED BY <1>2, FS_Bijection

(* The headers of r after one more: the newest last, the others as before, *)
(* but for the oldest.                                                     *)
LEMMA LatestHeaders ==
  ASSUME NEW r \in Seq(Headers), Len(r) <= MonitorLast + 1, NEW s \in Headers
  PROVE  LET q == Latest(Append(r, s))
         IN  /\ q \in Seq(Headers)
             /\ Len(q) \in 1 .. MonitorLast + 1
             /\ Len(q) = IF Len(r) = MonitorLast + 1 THEN Len(r) ELSE Len(r) + 1
             /\ q[Len(q)] = s
             /\ \A i \in 1 .. Len(q) - 1 : q[i] = r[i + (Len(r) - (Len(q) - 1))]
<1> DEFINE a == Append(r, s)
<1>1. /\ a \in Seq(Headers) /\ Len(a) = Len(r) + 1 /\ Len(r) \in Nat
      /\ \A i \in 1 .. Len(r) : a[i] = r[i]
      /\ a[Len(r) + 1] = s
  OBVIOUS
<1>2. MonitorLast \in Nat
  BY LinkAssumption
<1> HIDE DEF a
<1>3. CASE Len(r) = MonitorLast + 1
  <2>1. Latest(a) = Tail(a)
    BY <1>1, <1>2, <1>3 DEF Latest
  <2>2. /\ Tail(a) \in Seq(Headers) /\ Len(Tail(a)) = Len(r)
        /\ \A i \in 1 .. Len(r) : Tail(a)[i] = a[i + 1]
    BY <1>1, <1>2, <1>3
  <2> QED BY <1>1, <1>2, <1>3, <2>1, <2>2 DEF a
<1>4. CASE Len(r) # MonitorLast + 1
  <2>1. Latest(a) = a
    BY <1>1, <1>2, <1>4 DEF Latest
  <2> QED BY <1>1, <1>2, <1>4, <2>1 DEF a
<1> QED BY <1>3, <1>4

LEMMA IllegalType ==
  ASSUME NEW r \in Seq(Headers), NEW n \in Nat
  PROVE  /\ Illegal(r, n) \in SUBSET Int
         /\ IsFiniteSet(Illegal(r, n))
         /\ Cardinality(Illegal(r, n)) \in Nat
<1>1. Illegal(r, n) \subseteq 1 .. Len(r) /\ Len(r) \in Nat
  BY DEF Illegal
<1>2. IsFiniteSet(1 .. Len(r))
  BY <1>1, FS_Interval
<1>3. IsFiniteSet(Illegal(r, n))
  BY <1>1, <1>2, FS_Subset
<1> QED BY <1>1, <1>3, FS_CardinalityType

(* One more header in the window.                                          *)
LEMMA IllegalAfter ==
  ASSUME NEW r \in Seq(Headers), Len(r) <= MonitorLast + 1, NEW s \in Headers,
         NEW n \in 0 .. Len(r), n <= MonitorLast
  PROVE  Cardinality(Illegal(Latest(Append(r, s)), n + 1))
           = Cardinality(Illegal(r, n)) + (IF s = "illegal" THEN 1 ELSE 0)
<1> DEFINE q == Latest(Append(r, s))
           d == Len(q) - 1 - Len(r)
           shifted == {i + d : i \in Illegal(r, n)}
<1>0. /\ q \in Seq(Headers)
      /\ Len(q) = IF Len(r) = MonitorLast + 1 THEN Len(r) ELSE Len(r) + 1
      /\ q[Len(q)] = s
      /\ \A i \in 1 .. Len(q) - 1 : q[i] = r[i + (Len(r) - (Len(q) - 1))]
  BY LatestHeaders
<1> HIDE DEF q
<1>2. n + 1 <= Len(q) /\ MonitorLast \in Nat
  BY <1>0, LinkAssumption
<1>3. d \in Int /\ Len(q) = Len(r) + 1 + d
  <2>1. Len(q) \in Int /\ Len(r) \in Int
    BY <1>0
  <2> QED BY <2>1
<1> HIDE DEF d
<1>1. /\ q \in Seq(Headers) /\ Len(q) \in Nat /\ Len(r) \in Nat /\ n \in Nat
      /\ Len(q) = Len(r) + 1 + d
      /\ q[Len(q)] = s
      /\ \A i \in 1 .. Len(q) - 1 : q[i] = r[i - d]
  <2>1. Len(q) \in Nat /\ Len(r) \in Nat /\ n \in Nat
    BY <1>0
  <2>2. ASSUME NEW i \in 1 .. Len(q) - 1 PROVE q[i] = r[i - d]
    <3>1. i + (Len(r) - (Len(q) - 1)) = i - d
      BY <1>3, <2>1
    <3> QED BY <1>0, <3>1
  <2> QED BY <1>0, <1>3, <2>1, <2>2
<1>4. Illegal(q, n + 1) = shifted \cup (IF s = "illegal" THEN {Len(q)} ELSE {})
  <2>1. ASSUME NEW i \in Illegal(q, n + 1), i # Len(q)
        PROVE  i - d \in Illegal(r, n) /\ i = (i - d) + d
    <3>1. i \in 1 .. Len(q) - 1 /\ i > Len(q) - (n + 1) /\ q[i] = "illegal"
      BY <1>1, <2>1 DEF Illegal
    <3>2. i - d \in 1 .. Len(r) /\ i - d > Len(r) - n /\ i = (i - d) + d
      BY <1>1, <1>3, <3>1
    <3> QED BY <1>1, <3>1, <3>2 DEF Illegal
  <2>2. ASSUME NEW i \in Illegal(r, n)
        PROVE  i + d \in Illegal(q, n + 1)
    <3>1. i \in 1 .. Len(r) /\ i > Len(r) - n /\ r[i] = "illegal"
      BY <1>1, <2>2 DEF Illegal
    <3>2. i + d \in 1 .. Len(q) - 1 /\ i + d > Len(q) - (n + 1) /\ (i + d) - d = i
      BY <1>1, <1>2, <1>3, <3>1
    <3>3. q[i + d] = "illegal"
      BY <1>1, <3>1, <3>2
    <3> QED BY <1>1, <3>2, <3>3 DEF Illegal
  <2>3. Len(q) \in Illegal(q, n + 1) <=> s = "illegal"
    BY <1>1, <1>2 DEF Illegal
  <2> QED BY <2>1, <2>2, <2>3
<1>5. Len(q) \notin shifted
  <2>1. \A i \in Illegal(r, n) : i \in Int /\ i <= Len(r)
    BY <1>1 DEF Illegal
  <2> QED BY <1>1, <1>3, <2>1
<1>6. IsFiniteSet(shifted) /\ Cardinality(shifted) = Cardinality(Illegal(r, n))
  BY <1>1, <1>3, IllegalType, ShiftKeepsCardinality
<1>7. Cardinality(shifted \cup {Len(q)}) = Cardinality(shifted) + 1
  BY <1>5, <1>6, FS_AddElement
<1>8. Cardinality(Illegal(r, n)) \in Nat
  BY <1>1, IllegalType
<1> HIDE DEF shifted
<1>9. Cardinality(Illegal(q, n + 1))
        = Cardinality(Illegal(r, n)) + (IF s = "illegal" THEN 1 ELSE 0)
  <2>1. CASE s = "illegal"
    BY <1>4, <1>6, <1>7, <2>1
  <2>2. CASE s # "illegal"
    <3>1. Illegal(q, n + 1) = shifted
      BY <1>4, <2>2
    <3> QED BY <1>6, <1>8, <2>2, <3>1
  <2> QED BY <2>1, <2>2
<1> QED BY <1>9 DEF q

-----------------------------------------------------------------------------
LEMMA InitInv == Init => IInv
<1> SUFFICES ASSUME Init PROVE IInv
  OBVIOUS
<1> USE LinkAssumption DEF Init, BlockLock!Init, Descrambler!Init
<1>1. /\ 0 \in 0 .. MonitorLast /\ 0 \in 0 .. InvalidLimit - 1 /\ 0 \in 0 .. SlipWaitLast
      /\ recent \in Seq(Headers) /\ Len(recent) <= MonitorLast + 1
  OBVIOUS
<1>2. TypeOK
  BY <1>1 DEF TypeOK
<1>3. Alignment
  BY DEF Alignment
<1>4. ~block_lock /\ ~descrambled_payload_valid
  OBVIOUS
<1> QED
  BY <1>2, <1>3, <1>4
     DEF IInv, Synchronised, ForwardedPayloadIsRight, WindowCounted, RunIsCounted

(* A reset takes the lock and everything counted.                          *)
LEMMA ResetInv == IInv /\ LinkReset => IInv'
<1> SUFFICES ASSUME IInv, LinkReset PROVE IInv'
  OBVIOUS
<1> USE LinkAssumption DEF LinkReset, BlockLock!Reset, BlockLock!ClearCounts, Descrambler!Reset
<1>1. /\ 0 \in 0 .. MonitorLast /\ 0 \in 0 .. InvalidLimit - 1 /\ 0 \in 0 .. SlipWaitLast
      /\ recent' \in Seq(Headers) /\ Len(recent') <= MonitorLast + 1
  OBVIOUS
<1>2. TypeOK'
  <2>1. resets_left' \in Nat
    BY DEF IInv, TypeOK
  <2> QED BY <1>1, <2>1 DEF TypeOK
<1>3. Alignment'
  BY DEF Alignment
<1>4. ~block_lock' /\ ~descrambled_payload_valid'
  OBVIOUS
<1> QED
  BY <1>2, <1>3, <1>4
     DEF IInv, Synchronised, ForwardedPayloadIsRight, WindowCounted, RunIsCounted

Samples == {"legal", "illegal", "none"}

(* What the history becomes.                                               *)
LEMMA HistoryStep ==
  ASSUME TypeOK, NEW s \in Samples, RecordHistory(s)
  PROVE  /\ recent' \in Seq(Headers) /\ Len(recent') <= MonitorLast + 1
         /\ ~block_lock => recent' = << >>
         /\ block_lock /\ s = "none" => recent' = recent
         /\ block_lock /\ s # "none" => recent' = Latest(Append(recent, s))
<1>1. s # "none" => s \in Headers
  BY DEF Samples, Headers
<1>2. ASSUME s # "none"
      PROVE  LET q == Latest(Append(recent, s))
             IN  q \in Seq(Headers) /\ Len(q) <= MonitorLast + 1
  <2> DEFINE q == Latest(Append(recent, s))
  <2>1. q \in Seq(Headers) /\ Len(q) \in 1 .. MonitorLast + 1
    BY <1>1, <1>2, LatestHeaders DEF TypeOK
  <2> QED BY <2>1, LinkAssumption
<1> QED BY <1>2, LinkAssumption DEF RecordHistory, TypeOK

(* The gearbox.                                                            *)
LEMMA SlipStep ==
  ASSUME TypeOK, Slip
  PROVE  /\ boundary' \in 0 .. Boundaries - 1
         /\ slip_due' \in Nat
         /\ rx_gearbox_slip => slip_due' \in 1 .. SlipDelay /\ boundary' = boundary
         /\ ~rx_gearbox_slip =>
              /\ slip_due' = IF slip_due = 0 THEN 0 ELSE slip_due - 1
              /\ slip_due = 0 => boundary' = boundary
<1> USE LinkAssumption DEF TypeOK
<1>1. CASE rx_gearbox_slip
  <2>1. slip_due' \in 1 .. SlipDelay /\ boundary' = boundary
    BY <1>1 DEF Slip
  <2> QED BY <1>1, <2>1
<1>2. CASE ~rx_gearbox_slip /\ slip_due = 1
  <2>1. slip_due' = 0 /\ boundary' = (boundary + 1) % Boundaries
    BY <1>2 DEF Slip
  <2> QED BY <1>2, <2>1
<1>3. CASE ~rx_gearbox_slip /\ slip_due # 1
  <2>1. slip_due' = (IF slip_due = 0 THEN 0 ELSE slip_due - 1) /\ boundary' = boundary
    BY <1>3 DEF Slip
  <2> QED BY <1>3, <2>1
<1> QED BY <1>1, <1>2, <1>3

(* The line.                                                               *)
LEMMA SampleStep ==
  ASSUME TypeOK, NEW s \in Samples, Sample(s)
  PROVE  /\ legal_run' \in Nat
         /\ boundary # 0 /\ s = "legal" =>
              /\ legal_run < MaxLegalRun
              /\ boundary' = boundary => legal_run' = legal_run + 1
         /\ s = "none" /\ boundary' = boundary => legal_run' = legal_run
<1> USE DEF TypeOK
<1>1. CASE NoSample(s)
  BY <1>1 DEF NoSample
<1>2. CASE s # "none" /\ AlignedSample(s)
  BY <1>2 DEF AlignedSample
<1>3. CASE s # "none" /\ MisalignedSample(s)
  BY <1>3 DEF MisalignedSample
<1> QED BY <1>1, <1>2, <1>3 DEF Sample

LEMMA DescramblerStep ==
  ASSUME IInv, NEW s \in Samples, Cycle(s)
  PROVE  /\ sync_pending' \in BOOLEAN /\ descrambled_payload_valid' \in BOOLEAN
         /\ Synchronised'
<1> USE DEF IInv, TypeOK
<1>1. block_lock => boundary = 0 /\ boundary' = boundary
  BY SlipStep DEF Cycle, Alignment
<1>2. CASE Descrambler!Unlocked(block_lock, s # "none" \/ boundary' # boundary)
  BY <1>2 DEF Descrambler!Unlocked, Synchronised, ForwardedPayloadIsRight
<1>3. CASE Descrambler!Synchronise(block_lock, BlockLock!BlockValid(s))
  BY <1>3 DEF Descrambler!Synchronise, Synchronised, ForwardedPayloadIsRight
<1>4. CASE Descrambler!Descramble(block_lock, BlockLock!BlockValid(s), boundary = 0)
  BY <1>1, <1>4 DEF Descrambler!Descramble, Synchronised, ForwardedPayloadIsRight
<1>5. CASE Descrambler!Wait(block_lock, BlockLock!BlockValid(s), s # "none" \/ boundary' # boundary)
  BY <1>1, <1>5 DEF Descrambler!Wait, BlockLock!BlockValid, Synchronised, ForwardedPayloadIsRight
<1> QED BY <1>2, <1>3, <1>4, <1>5 DEF Cycle, Descrambler!Clock

-----------------------------------------------------------------------------
(* The counters.                                                           *)
LEMMA CountersStep ==
  ASSUME TypeOK, NEW s \in Samples, BlockLock!Clock(s)
  PROVE  /\ state' \in {"ACQUIRE", "SLIP_WAIT", "LOCKED"}
         /\ acquire_count' \in Nat /\ monitor_count' \in 0 .. MonitorLast
         /\ invalid_count' \in 0 .. InvalidLimit - 1 /\ slip_wait_count' \in 0 .. SlipWaitLast
         /\ rx_gearbox_slip' \in BOOLEAN /\ block_lock' \in BOOLEAN
<1>1. 0 \in Nat /\ 0 \in 0 .. MonitorLast /\ 0 \in 0 .. InvalidLimit - 1 /\ 0 \in 0 .. SlipWaitLast
  BY LinkAssumption
<1>2. /\ state \in {"ACQUIRE", "SLIP_WAIT", "LOCKED"}
      /\ acquire_count \in Nat /\ monitor_count \in 0 .. MonitorLast
      /\ invalid_count \in 0 .. InvalidLimit - 1 /\ slip_wait_count \in 0 .. SlipWaitLast
      /\ rx_gearbox_slip \in BOOLEAN /\ block_lock \in BOOLEAN
  BY DEF TypeOK
<1>3. CASE BlockLock!WaitForSample(s)
  BY <1>2, <1>3 DEF BlockLock!WaitForSample
<1>4. CASE BlockLock!CountLegal(s)
  <2>1. acquire_count + 1 \in Nat
    BY <1>2
  <2> QED BY <1>2, <1>4, <2>1, Zenon DEF BlockLock!CountLegal
<1>5. CASE BlockLock!Lock(s)
  BY <1>1, <1>2, <1>5 DEF BlockLock!Lock
<1>6. CASE BlockLock!Misaligned(s) \/ BlockLock!LoseLock(s)
  BY <1>1, <1>6 DEF BlockLock!Misaligned, BlockLock!LoseLock, BlockLock!RequestSlip,
                    BlockLock!ClearCounts
<1>7. CASE BlockLock!SlipWait
  <2>1. CASE slip_wait_count = SlipWaitLast
    BY <1>1, <1>2, <1>7, <2>1 DEF BlockLock!SlipWait, BlockLock!ClearCounts
  <2>2. CASE slip_wait_count # SlipWaitLast
    <3>1. slip_wait_count + 1 \in 0 .. SlipWaitLast
      BY <1>2, <2>2, LinkAssumption
    <3> QED BY <1>2, <1>7, <2>2, <3>1 DEF BlockLock!SlipWait
  <2> QED BY <2>1, <2>2
<1>8. CASE BlockLock!Monitor(s)
  <2>1. CASE monitor_count = MonitorLast
    BY <1>1, <1>2, <1>8, <2>1 DEF BlockLock!Monitor
  <2>2. CASE monitor_count # MonitorLast
    <3>1. monitor_count + 1 \in 0 .. MonitorLast
      BY <1>2, <2>2, LinkAssumption
    <3>2. /\ invalid_count + 0 \in 0 .. InvalidLimit - 1
          /\ s = "illegal" => invalid_count + 1 \in 0 .. InvalidLimit - 1
      BY <1>2, <1>8, LinkAssumption DEF BlockLock!Monitor, BlockLock!LastInvalid
    <3> QED BY <1>2, <1>8, <2>2, <3>1, <3>2 DEF BlockLock!Monitor
  <2> QED BY <2>1, <2>2
<1> QED BY <1>3, <1>4, <1>5, <1>6, <1>7, <1>8 DEF BlockLock!Clock

(* The alignment.                                                          *)
LEMMA AlignmentStep ==
  ASSUME TypeOK, Alignment, NEW s \in Samples, Slip, Sample(s), BlockLock!Clock(s)
  PROVE  Alignment'
<1>1. /\ slip_due' \in Nat
      /\ rx_gearbox_slip => slip_due' \in 1 .. SlipDelay /\ boundary' = boundary
      /\ ~rx_gearbox_slip =>
           /\ slip_due' = IF slip_due = 0 THEN 0 ELSE slip_due - 1
           /\ slip_due = 0 => boundary' = boundary
  BY SlipStep
<1>2. /\ legal_run' \in Nat
      /\ boundary # 0 /\ s = "legal" =>
           /\ legal_run < MaxLegalRun
           /\ boundary' = boundary => legal_run' = legal_run + 1
      /\ s = "none" /\ boundary' = boundary => legal_run' = legal_run
  BY SampleStep
<1>3. /\ acquire_count \in Nat /\ slip_wait_count \in Nat /\ slip_wait_count <= SlipWaitLast
      /\ slip_due \in Nat /\ legal_run \in Nat /\ AcquireLast \in Nat /\ SlipDelay \in Nat
      /\ MaxLegalRun \in Nat /\ MaxLegalRun <= AcquireLast
      /\ SlipWaitLast \in Nat /\ SlipDelay <= SlipWaitLast /\ 1 <= SlipDelay
  BY LinkAssumption DEF TypeOK
<1> USE DEF Alignment
<1>4. CASE BlockLock!WaitForSample(s)
  BY <1>1, <1>2, <1>4 DEF BlockLock!WaitForSample
<1>5. CASE BlockLock!CountLegal(s)
  BY <1>1, <1>2, <1>3, <1>5 DEF BlockLock!CountLegal
<1>6. CASE BlockLock!Lock(s)
  <2>1. boundary = 0
    BY <1>2, <1>3, <1>6 DEF BlockLock!Lock
  <2> QED BY <1>1, <1>6, <2>1 DEF BlockLock!Lock
<1>7. CASE BlockLock!Misaligned(s) \/ BlockLock!LoseLock(s)
  BY <1>1, <1>7 DEF BlockLock!Misaligned, BlockLock!LoseLock, BlockLock!RequestSlip,
                    BlockLock!ClearCounts
<1>8. CASE BlockLock!SlipWait /\ slip_wait_count = SlipWaitLast
  <2>0. ~rx_gearbox_slip
    BY <1>3, <1>8
  <2>1. slip_due' = 0
    <3>1. slip_due' = IF slip_due = 0 THEN 0 ELSE slip_due - 1
      BY <1>1, <2>0
    <3>2. slip_due # 0 => slip_due = 1
      BY <1>3, <1>8
    <3> QED BY <3>1, <3>2
  <2> QED BY <1>2, <1>8, <2>1 DEF BlockLock!SlipWait, BlockLock!ClearCounts
<1>9. CASE BlockLock!SlipWait /\ slip_wait_count # SlipWaitLast
  <2>1. /\ state' = "SLIP_WAIT" /\ ~rx_gearbox_slip' /\ ~block_lock'
        /\ slip_wait_count' = slip_wait_count + 1
    BY <1>9 DEF BlockLock!SlipWait
  <2>2. slip_due' + slip_wait_count' <= SlipDelay + 1 \/ slip_due' = 0
    <3>1. CASE rx_gearbox_slip
      <4>1. slip_due' \in 1 .. SlipDelay /\ slip_wait_count = 0
        BY <1>1, <3>1
      <4> HIDE DEF Alignment
      <4>2. slip_wait_count' = 1
        BY <2>1, <4>1
      <4>3. \A d \in 1 .. SlipDelay : d + 1 <= SlipDelay + 1
        BY LinkAssumption
      <4> QED BY <4>1, <4>2, <4>3
    <3>2. CASE ~rx_gearbox_slip
      <4>1. slip_due' = IF slip_due = 0 THEN 0 ELSE slip_due - 1
        BY <1>1, <3>2
      <4> QED BY <1>3, <2>1, <4>1
    <3> QED BY <3>1, <3>2
  <2> QED BY <2>1, <2>2
<1>10. CASE BlockLock!Monitor(s)
  BY <1>1, <1>10 DEF BlockLock!Monitor
<1> QED BY <1>4, <1>5, <1>6, <1>7, <1>8, <1>9, <1>10 DEF BlockLock!Clock

(* What a cycle that keeps or gets the lock has done.                      *)
LEMMA LockedStep ==
  ASSUME IInv, NEW s \in Samples, Cycle(s), block_lock'
  PROVE  \/ ~block_lock /\ monitor_count' = 0 /\ invalid_count' = 0 /\ recent' = << >>
         \/ /\ block_lock /\ s = "none"
            /\ UNCHANGED << recent, monitor_count, invalid_count >>
         \/ /\ block_lock /\ s # "none" /\ recent' = Latest(Append(recent, s))
            /\ s = "illegal" => invalid_count # InvalidLimit - 1
            /\ IF monitor_count = MonitorLast
                 THEN monitor_count' = 0 /\ invalid_count' = 0
                 ELSE /\ monitor_count' = monitor_count + 1
                      /\ invalid_count' = invalid_count + (IF s = "illegal" THEN 1 ELSE 0)
<1> USE DEF IInv, TypeOK, Alignment
<1>1. /\ ~block_lock => recent' = << >>
      /\ block_lock /\ s = "none" => recent' = recent
      /\ block_lock /\ s # "none" => recent' = Latest(Append(recent, s))
  BY HistoryStep DEF Cycle
<1>2. CASE BlockLock!WaitForSample(s)
  BY <1>1, <1>2 DEF BlockLock!WaitForSample
<1>3. CASE BlockLock!Lock(s)
  BY <1>1, <1>3 DEF BlockLock!Lock
<1>4. CASE BlockLock!Monitor(s)
  BY <1>1, <1>4 DEF BlockLock!Monitor, BlockLock!LastInvalid
<1>5. ~BlockLock!CountLegal(s) /\ ~BlockLock!SlipWait
  BY DEF BlockLock!CountLegal, BlockLock!SlipWait
<1>6. ~BlockLock!Misaligned(s) /\ ~BlockLock!LoseLock(s)
  BY DEF BlockLock!Misaligned, BlockLock!LoseLock, BlockLock!RequestSlip
<1> QED BY <1>2, <1>3, <1>4, <1>5, <1>6 DEF Cycle, BlockLock!Clock

LEMMA WindowStep ==
  ASSUME IInv, NEW s \in Samples, Cycle(s)
  PROVE  WindowCounted'
<1> SUFFICES ASSUME block_lock'
             PROVE  /\ monitor_count' <= Len(recent')
                    /\ invalid_count' = Cardinality(Illegal(recent', monitor_count'))
  BY DEF WindowCounted
<1>1. /\ recent \in Seq(Headers) /\ Len(recent) <= MonitorLast + 1 /\ Len(recent) \in Nat
      /\ monitor_count \in 0 .. MonitorLast /\ MonitorLast \in Nat
  BY LinkAssumption DEF IInv, TypeOK
<1>2. \A r \in Seq(Headers) : Cardinality(Illegal(r, 0)) = 0
  <2>1. \A r \in Seq(Headers) : Illegal(r, 0) = {}
    BY DEF Illegal
  <2> QED BY <2>1, FS_EmptySet
<1>3. << >> \in Seq(Headers) /\ Len(<< >>) = 0
  OBVIOUS
<1>4. CASE ~block_lock /\ monitor_count' = 0 /\ invalid_count' = 0 /\ recent' = << >>
  <2>1. Cardinality(Illegal(recent', 0)) = 0
    BY <1>2, <1>3, <1>4
  <2>2. monitor_count' <= Len(recent')
    BY <1>3, <1>4
  <2> QED BY <1>4, <2>1, <2>2
<1>5. CASE block_lock /\ s = "none" /\ UNCHANGED << recent, monitor_count, invalid_count >>
  BY <1>5 DEF IInv, WindowCounted
<1>6. CASE /\ block_lock /\ s # "none" /\ recent' = Latest(Append(recent, s))
           /\ IF monitor_count = MonitorLast
                THEN monitor_count' = 0 /\ invalid_count' = 0
                ELSE /\ monitor_count' = monitor_count + 1
                     /\ invalid_count' = invalid_count + (IF s = "illegal" THEN 1 ELSE 0)
  <2>1. s \in Headers
    BY <1>6 DEF Samples, Headers
  <2>2. /\ recent' \in Seq(Headers) /\ Len(recent') \in Nat
        /\ Len(recent') = IF Len(recent) = MonitorLast + 1 THEN Len(recent) ELSE Len(recent) + 1
    <3> DEFINE q == Latest(Append(recent, s))
    <3>1. /\ q \in Seq(Headers)
          /\ Len(q) = IF Len(recent) = MonitorLast + 1 THEN Len(recent) ELSE Len(recent) + 1
      BY <1>1, <2>1, LatestHeaders
    <3> QED BY <1>6, <3>1
  <2>3. monitor_count <= Len(recent) /\ invalid_count = Cardinality(Illegal(recent, monitor_count))
    BY <1>6 DEF IInv, WindowCounted
  <2>4. CASE monitor_count = MonitorLast
    BY <1>2, <1>6, <2>2, <2>4
  <2>5. CASE monitor_count # MonitorLast
    <3>1. Cardinality(Illegal(Latest(Append(recent, s)), monitor_count + 1))
            = Cardinality(Illegal(recent, monitor_count)) + (IF s = "illegal" THEN 1 ELSE 0)
      BY <1>1, <2>1, <2>3, IllegalAfter
    <3>2. monitor_count' <= Len(recent')
      BY <1>1, <1>6, <2>2, <2>3, <2>5
    <3> QED BY <1>6, <2>3, <2>5, <3>1, <3>2
  <2> QED BY <2>4, <2>5
<1> QED BY <1>4, <1>5, <1>6, LockedStep

(* A run of illegal headers after one more header.                         *)
LEMMA RunAfter ==
  ASSUME NEW r \in Seq(Headers), Len(r) <= MonitorLast + 1, NEW s \in Headers,
         NEW n \in Nat \ {0}, n <= Len(Latest(Append(r, s))),
         AllIllegal(Latest(Append(r, s)), n)
  PROVE  s = "illegal" /\ n - 1 \in 0 .. Len(r) /\ AllIllegal(r, n - 1)
<1> DEFINE q == Latest(Append(r, s))
<1>1. /\ q \in Seq(Headers)
      /\ Len(q) = IF Len(r) = MonitorLast + 1 THEN Len(r) ELSE Len(r) + 1
      /\ q[Len(q)] = s
      /\ \A i \in 1 .. Len(q) - 1 : q[i] = r[i + (Len(r) - (Len(q) - 1))]
  BY LatestHeaders
<1>2. n <= Len(q) /\ \A i \in 0 .. n - 1 : q[Len(q) - i] = "illegal"
  BY DEF AllIllegal
<1> HIDE DEF q
<1>3. Len(q) \in Nat /\ Len(r) \in Nat /\ MonitorLast \in Nat
  BY <1>1, LinkAssumption
<1>4. s = "illegal"
  <2>1. 0 \in 0 .. n - 1 /\ Len(q) - 0 = Len(q)
    BY <1>3
  <2> QED BY <1>1, <1>2, <2>1
<1>5. n - 1 \in 0 .. Len(r)
  BY <1>1, <1>2, <1>3
<1>6. ASSUME NEW i \in 0 .. n - 2 PROVE r[Len(r) - i] = "illegal"
  <2>1. /\ i + 1 \in 0 .. n - 1 /\ Len(q) - (i + 1) \in 1 .. Len(q) - 1
        /\ (Len(q) - (i + 1)) + (Len(r) - (Len(q) - 1)) = Len(r) - i
    BY <1>2, <1>3
  <2>2. q[Len(q) - (i + 1)] = r[Len(r) - i]
    BY <1>1, <2>1
  <2> QED BY <1>2, <2>1, <2>2
<1>7. n - 1 - 1 = n - 2
  OBVIOUS
<1> QED BY <1>4, <1>5, <1>6, <1>7 DEF AllIllegal

LEMMA RunStep ==
  ASSUME IInv, NEW s \in Samples, Cycle(s)
  PROVE  RunIsCounted'
<1> SUFFICES ASSUME block_lock', NEW n \in 0 .. Len(recent'), AllIllegal(recent', n)
             PROVE  IF n <= monitor_count' THEN n <= invalid_count'
                    ELSE invalid_count' = monitor_count' /\ n - monitor_count' < InvalidLimit
  BY DEF RunIsCounted, AllIllegal
<1>1. /\ recent \in Seq(Headers) /\ Len(recent) <= MonitorLast + 1
      /\ monitor_count \in 0 .. MonitorLast /\ MonitorLast \in Nat
      /\ invalid_count \in 0 .. InvalidLimit - 1 /\ InvalidLimit \in 1 .. MonitorLast + 1
  BY LinkAssumption DEF IInv, TypeOK
<1>2. CASE ~block_lock /\ monitor_count' = 0 /\ invalid_count' = 0 /\ recent' = << >>
  BY <1>2
<1>3. CASE block_lock /\ s = "none" /\ UNCHANGED << recent, monitor_count, invalid_count >>
  BY <1>3 DEF IInv, RunIsCounted
<1>4. CASE /\ block_lock /\ s # "none" /\ recent' = Latest(Append(recent, s))
           /\ s = "illegal" => invalid_count # InvalidLimit - 1
           /\ IF monitor_count = MonitorLast
                THEN monitor_count' = 0 /\ invalid_count' = 0
                ELSE /\ monitor_count' = monitor_count + 1
                     /\ invalid_count' = invalid_count + (IF s = "illegal" THEN 1 ELSE 0)
  <2>1. s \in Headers
    BY <1>4 DEF Samples, Headers
  <2>2. CASE n = 0
    BY <1>1, <1>4, <2>2
  <2>3. CASE n # 0
    <3>1. s = "illegal" /\ n - 1 \in 0 .. Len(recent) /\ AllIllegal(recent, n - 1)
      <4>1. n \in Nat \ {0} /\ n <= Len(Latest(Append(recent, s)))
        BY <1>4, <2>3, HistoryStep
      <4> QED BY <1>1, <1>4, <2>1, <4>1, RunAfter
    <3>2. IF n - 1 <= monitor_count THEN n - 1 <= invalid_count
          ELSE invalid_count = monitor_count /\ n - 1 - monitor_count < InvalidLimit
      BY <1>4, <3>1 DEF IInv, RunIsCounted
    <3>3. n \in Nat
      OBVIOUS
    <3>4. CASE monitor_count = MonitorLast
      BY <1>1, <1>4, <2>3, <3>1, <3>2, <3>3, <3>4
    <3>5. CASE monitor_count # MonitorLast
      BY <1>1, <1>4, <2>3, <3>1, <3>2, <3>3, <3>5
    <3> QED BY <3>4, <3>5
  <2> QED BY <2>2, <2>3
<1> QED BY <1>2, <1>3, <1>4, LockedStep

THEOREM InductiveInvariant == Spec => []IInv
<1>1. Init => IInv
  BY InitInv
<1>2. IInv /\ [Next]_vars => IInv'
  <2> SUFFICES ASSUME IInv, [Next]_vars PROVE IInv'
    OBVIOUS
  <2>1. CASE LinkReset
    BY <2>1, ResetInv
  <2>2. ASSUME NEW s \in Samples, Cycle(s)
        PROVE  IInv'
    <3>1. TypeOK /\ Alignment
      BY DEF IInv
    <3>2. Slip /\ Sample(s) /\ BlockLock!Clock(s) /\ RecordHistory(s)
      BY <2>2 DEF Cycle
    <3>3. TypeOK'
      <4>1. boundary' \in 0 .. Boundaries - 1 /\ slip_due' \in Nat
        BY <3>1, <3>2, SlipStep
      <4>2. legal_run' \in Nat
        BY <3>1, <3>2, SampleStep
      <4>3. recent' \in Seq(Headers) /\ Len(recent') <= MonitorLast + 1
        BY <3>1, <3>2, HistoryStep
      <4>4. resets_left' \in Nat
        BY <2>2, <3>1 DEF Cycle, TypeOK
      <4> QED
        BY <2>2, <3>1, <3>2, <4>1, <4>2, <4>3, <4>4, CountersStep, DescramblerStep DEF TypeOK
    <3>4. Alignment'
      BY <3>1, <3>2, AlignmentStep
    <3> QED BY <2>2, <3>3, <3>4, DescramblerStep, WindowStep, RunStep DEF IInv
  <2>3. CASE UNCHANGED vars
    BY <2>3 DEF vars, gearbox, BlockLock!vars, Descrambler!vars, IInv, TypeOK, Alignment,
                Synchronised, ForwardedPayloadIsRight, WindowCounted, RunIsCounted, AllIllegal
  <2> QED BY <2>1, <2>2, <2>3 DEF Next, Samples
<1> QED BY <1>1, <1>2, PTL DEF Spec

(***************************************************************************)
(* A block that is passed on stands at the right boundary and is           *)
(* descrambled with the block before it (pcs_rx_descrambler.sv).           *)
(***************************************************************************)
THEOREM PayloadsAreRight == Spec => []ForwardedPayloadIsRight
<1>1. IInv => ForwardedPayloadIsRight
  BY DEF IInv, Synchronised
<1> QED BY <1>1, InductiveInvariant, PTL

(***************************************************************************)
(* Fewer than two limits of illegal headers in a row are seen under lock,  *)
(* however they lie across the windows (pcs_rx_block_lock.sv, LOCKED).     *)
(***************************************************************************)
THEOREM BadLineIsNoticed == Spec => []BadLineLosesLock
<1>1. IInv => BadLineLosesLock
  <2> DEFINE run == 2 * InvalidLimit - 1
  <2> SUFFICES ASSUME IInv, block_lock, Len(recent) >= run,
                      \A i \in 0 .. run - 1 : recent[Len(recent) - i] # "legal"
               PROVE  FALSE
    BY DEF BadLineLosesLock
  <2>1. /\ recent \in Seq(Headers) /\ monitor_count \in 0 .. MonitorLast /\ MonitorLast \in Nat
        /\ invalid_count \in 0 .. InvalidLimit - 1 /\ InvalidLimit \in 1 .. MonitorLast + 1
    BY LinkAssumption DEF IInv, TypeOK
  <2>2. run \in 0 .. Len(recent) /\ Len(recent) \in Nat
    BY <2>1
  <2>3. AllIllegal(recent, run)
    <3> SUFFICES ASSUME NEW i \in 0 .. run - 1 PROVE recent[Len(recent) - i] = "illegal"
      BY DEF AllIllegal
    <3>1. Len(recent) - i \in 1 .. Len(recent)
      BY <2>1, <2>2
    <3>2. recent[Len(recent) - i] \in Headers
      BY <2>1, <3>1
    <3> QED BY <3>2 DEF Headers
  <2>4. IF run <= monitor_count THEN run <= invalid_count
        ELSE invalid_count = monitor_count /\ run - monitor_count < InvalidLimit
    BY <2>2, <2>3 DEF IInv, RunIsCounted
  <2> QED BY <2>1, <2>4
<1> QED BY <1>1, InductiveInvariant, PTL

(***************************************************************************)
(* Lock is given up only when the limit of illegal headers was reached in  *)
(* one window (pcs_rx_block_lock.sv, LOCKED).                              *)
(***************************************************************************)
THEOREM LockIsKept == Spec => FewErrorsKeepLock
<1>1. IInv /\ [Next]_vars =>
        [block_lock /\ ~block_lock' /\ resets_left' = resets_left =>
           Cardinality({i \in DOMAIN recent' : recent'[i] = "illegal"}) >= InvalidLimit]_vars
  <2> SUFFICES ASSUME IInv, Next, block_lock, ~block_lock', resets_left' = resets_left
               PROVE  Cardinality({i \in DOMAIN recent' : recent'[i] = "illegal"}) >= InvalidLimit
    OBVIOUS
  <2> DEFINE all == {i \in DOMAIN recent' : recent'[i] = "illegal"}
             q == Latest(Append(recent, "illegal"))
  <2>1. /\ recent \in Seq(Headers) /\ Len(recent) <= MonitorLast + 1
        /\ monitor_count \in 0 .. MonitorLast /\ MonitorLast \in Nat
        /\ InvalidLimit \in 1 .. MonitorLast + 1
        /\ monitor_count <= Len(recent)
        /\ invalid_count = Cardinality(Illegal(recent, monitor_count))
    BY LinkAssumption DEF IInv, TypeOK, WindowCounted
  <2>2. ~LinkReset
    BY DEF LinkReset, IInv, TypeOK
  <2>3. PICK s \in Samples : Cycle(s)
    BY <2>2 DEF Next, Samples
  <2>4. BlockLock!LoseLock(s)
    <3>1. /\ ~BlockLock!WaitForSample(s) /\ ~BlockLock!CountLegal(s) /\ ~BlockLock!Lock(s)
          /\ ~BlockLock!SlipWait /\ ~BlockLock!Monitor(s)
      BY DEF BlockLock!WaitForSample, BlockLock!CountLegal, BlockLock!Lock, BlockLock!SlipWait,
             BlockLock!Monitor
    <3>2. ~BlockLock!Misaligned(s)
      BY DEF BlockLock!Misaligned, IInv, Alignment
    <3> QED BY <2>3, <3>1, <3>2 DEF Cycle, BlockLock!Clock
  <2>5. s = "illegal" /\ invalid_count = InvalidLimit - 1
    BY <2>4 DEF BlockLock!LoseLock, BlockLock!LastInvalid
  <2>6. recent' = q
    BY <2>3, <2>5, HistoryStep DEF Cycle, IInv
  <2>7. Cardinality(Illegal(q, monitor_count + 1)) = InvalidLimit
    <3>1. Cardinality(Illegal(q, monitor_count + 1)) = Cardinality(Illegal(recent, monitor_count)) + 1
      BY <2>1, IllegalAfter DEF Headers
    <3> QED BY <2>1, <2>5, <3>1
  <2>8. q \in Seq(Headers)
    BY <2>1, LatestHeaders DEF Headers
  <2> HIDE DEF q
  <2>9. Illegal(q, monitor_count + 1) \subseteq all
    BY <2>6 DEF Illegal
  <2>10. IsFiniteSet(all) /\ Cardinality(all) \in Nat
    <3>1. all \subseteq 1 .. Len(q) /\ Len(q) \in Nat
      BY <2>6, <2>8
    <3>2. IsFiniteSet(1 .. Len(q))
      BY <3>1, FS_Interval
    <3>3. IsFiniteSet(all)
      BY <3>1, <3>2, FS_Subset
    <3> QED BY <3>3, FS_CardinalityType
  <2>11. Cardinality(Illegal(q, monitor_count + 1)) <= Cardinality(all)
    BY <2>9, <2>10, FS_Subset
  <2> QED BY <2>1, <2>7, <2>10, <2>11
<1> QED BY <1>1, InductiveInvariant, PTL DEF Spec, FewErrorsKeepLock
=============================================================================
