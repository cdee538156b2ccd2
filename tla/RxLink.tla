------------------------------- MODULE RxLink -------------------------------
(***************************************************************************)
(* Block lock and descrambler wired as in pcs_rx_channel.sv, behind the    *)
(* GT gearbox.  The gearbox is external: it moves the block boundary one   *)
(* place some cycles after a slip request, and it delivers no sample in    *)
(* some cycles.  At a wrong boundary the headers are arbitrary bits that   *)
(* do not look legal too often in a row; at the right one they are legal   *)
(* but for line errors.                                                    *)
(***************************************************************************)
EXTENDS Integers, Sequences, FiniteSets

CONSTANTS
  AcquireLast, MonitorLast, InvalidLimit, SlipWaitLast,
  Boundaries,      \* possible block boundaries, 66 on the line
  SlipDelay,       \* cycles the gearbox may take for a slip
  MaxLegalRun,     \* legal looking headers in a row at a wrong boundary
  ErrorLimit,      \* bound: line errors of a behaviour
  ResetLimit       \* bound: resets of a behaviour

ASSUME LinkAssumption ==
  /\ AcquireLast \in Nat /\ MonitorLast \in Nat
  /\ InvalidLimit \in 1 .. MonitorLast + 1 /\ SlipWaitLast \in Nat
  /\ Boundaries \in Nat \ {0}
  /\ SlipDelay \in 1 .. SlipWaitLast
  /\ MaxLegalRun \in 0 .. AcquireLast
  /\ ErrorLimit \in Nat /\ ResetLimit \in Nat

VARIABLES
  state, acquire_count, monitor_count, invalid_count, slip_wait_count,
  rx_gearbox_slip, block_lock,
  rx_lfsr, sync_pending, descrambled_payload_valid, descrambled_payload,
  (* the gearbox and the line *)
  boundary,        \* distance from the right block boundary
  slip_due,        \* cycles to the pending slip, or 0
  legal_run,       \* legal headers in a row at this wrong boundary
  sampled,         \* the last cycle had a sample
  errors_left, resets_left,
  recent           \* history: the latest headers judged under this lock

BlockLock   == INSTANCE PcsRxBlockLock
Descrambler == INSTANCE PcsRxDescrambler

gearbox == << boundary, slip_due, legal_run, sampled, errors_left, resets_left >>
vars == << BlockLock!vars, Descrambler!vars, gearbox, recent >>

-----------------------------------------------------------------------------
(* The sample of this cycle.                                               *)
AlignedSample(s) ==
  /\ boundary = 0
  /\ \/ s = "legal" /\ UNCHANGED errors_left
     \/ s = "illegal" /\ errors_left > 0 /\ errors_left' = errors_left - 1
  /\ legal_run' = 0

MisalignedSample(s) ==
  /\ boundary # 0
  /\ s = "legal" => legal_run < MaxLegalRun
  /\ legal_run' = IF s = "legal" /\ boundary' = boundary THEN legal_run + 1 ELSE 0
  /\ UNCHANGED errors_left

NoSample(s) ==
  /\ s = "none" /\ sampled
  /\ legal_run' = IF boundary' = boundary THEN legal_run ELSE 0
  /\ UNCHANGED errors_left

Sample(s) ==
  /\ sampled' = (s # "none")
  /\ NoSample(s) \/ (s # "none" /\ (AlignedSample(s) \/ MisalignedSample(s)))

(* The gearbox answers a slip request.                                     *)
Slip ==
  CASE rx_gearbox_slip -> slip_due' \in 1 .. SlipDelay /\ UNCHANGED boundary
    [] ~rx_gearbox_slip /\ slip_due = 1 ->
         slip_due' = 0 /\ boundary' = (boundary + 1) % Boundaries
    [] OTHER -> /\ slip_due' = IF slip_due = 0 THEN 0 ELSE slip_due - 1
                /\ UNCHANGED boundary

Latest(seq) == IF Len(seq) > MonitorLast + 1 THEN Tail(seq) ELSE seq

RecordHistory(s) ==
  recent' = IF ~block_lock THEN << >>
            ELSE IF s = "none" THEN recent ELSE Latest(Append(recent, s))

Cycle(s) ==
  /\ Slip
  /\ Sample(s)
  /\ BlockLock!Clock(s)
  /\ Descrambler!Clock(block_lock, BlockLock!BlockValid(s),
                       s # "none" \/ boundary' # boundary, boundary = 0)
  /\ RecordHistory(s)
  /\ UNCHANGED resets_left

(* rx_pcs_rst; the GT comes back at any boundary.                          *)
LinkReset ==
  /\ resets_left > 0
  /\ resets_left' = resets_left - 1
  /\ BlockLock!Reset /\ Descrambler!Reset
  /\ boundary' \in 0 .. Boundaries - 1
  /\ slip_due' = 0 /\ legal_run' = 0 /\ sampled' = FALSE /\ recent' = << >>
  /\ UNCHANGED errors_left

Init ==
  /\ BlockLock!Init /\ Descrambler!Init
  /\ boundary \in 0 .. Boundaries - 1
  /\ slip_due = 0 /\ legal_run = 0 /\ sampled = FALSE
  /\ errors_left = ErrorLimit /\ resets_left = ResetLimit
  /\ recent = << >>

Next == LinkReset \/ \E s \in {"legal", "illegal", "none"} : Cycle(s)

Spec == Init /\ [][Next]_vars /\ WF_vars(\E s \in {"legal", "illegal", "none"} : Cycle(s))

-----------------------------------------------------------------------------
(***************************************************************************)
(* A block that is passed on stands at the right boundary and is           *)
(* descrambled with the block immediately before it: lock is never         *)
(* declared across a slip still in progress, and the first block after     *)
(* each lock only loads rx_lfsr (pcs_rx_block_lock.sv SLIP_WAIT,           *)
(* pcs_rx_descrambler.sv sync_pending).                                    *)
(***************************************************************************)
ForwardedPayloadIsRight ==
  descrambled_payload_valid => descrambled_payload = "right"

(***************************************************************************)
(* A line that goes bad is noticed: however a run of illegal headers lies  *)
(* across two monitoring windows, fewer than two limits of them in a row   *)
(* are seen under lock (pcs_rx_block_lock.sv LOCKED).                      *)
(***************************************************************************)
BadLineLosesLock ==
  LET run == 2 * InvalidLimit - 1
  IN  block_lock /\ Len(recent) >= run =>
        \E i \in 0 .. run - 1 : recent[Len(recent) - i] = "legal"

(***************************************************************************)
(* Lock is given up only when the limit of illegal headers was reached     *)
(* among the headers of one monitoring window.                             *)
(***************************************************************************)
FewErrorsKeepLock ==
  [][block_lock /\ ~block_lock' /\ resets_left' = resets_left =>
       Cardinality({i \in DOMAIN recent' : recent'[i] = "illegal"}) >= InvalidLimit]_vars

(***************************************************************************)
(* When the line errors end, lock is found from every boundary and stays.  *)
(***************************************************************************)
LockIsFound == <>[]block_lock
=============================================================================
