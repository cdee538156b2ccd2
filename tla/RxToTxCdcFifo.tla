--------------------------- MODULE RxToTxCdcFifo ---------------------------
(***************************************************************************)
(* src/fpga/rtl/tx/rx_to_tx_cdc_fifo.sv: carries response events from the  *)
(* RX clock to the TX clock.  An event is START or DECISION; of the fields *)
(* of a decision the identity of its order is kept.  The FIFO itself is a  *)
(* vendor macro: an event written reaches the read side after some cycles  *)
(* of synchronisation, in order.                                           *)
(***************************************************************************)
EXTENDS Naturals, Sequences

CONSTANTS
  FifoDepth,      \* 16 in the RTL
  SyncDelays      \* cycles a write may need to show on the read side

VARIABLE fifo     \* of [kind, order, ok, wait]

vars == fifo

Init == fifo = << >>

-----------------------------------------------------------------------------
Full == Len(fifo) >= FifoDepth

(* fifo_read_data; the outputs of an empty FIFO hold nothing meaningful.   *)
NoEvent == [kind |-> "none", order |-> 0, ok |-> FALSE, wait |-> 0]

ReadData == IF fifo # << >> /\ fifo[1].wait = 0 THEN fifo[1] ELSE NoEvent

ResponseStartValid == ReadData.kind = "START"
DecisionValid      == ReadData.kind = "DECISION"

-----------------------------------------------------------------------------
(* A write to a full FIFO is lost: nothing stalls the receive path.        *)
Written(write, event) ==
  IF write /\ ~Full
    THEN {Append(fifo, [kind |-> event.kind, order |-> event.order,
                        ok |-> event.ok, wait |-> d]) : d \in SyncDelays}
    ELSE {fifo}

Aged(s) == [i \in DOMAIN s |-> [s[i] EXCEPT !.wait = IF @ = 0 THEN 0 ELSE @ - 1]]

Clock(write, event, read) ==
  \E s \in Written(write, event) : fifo' = Aged(IF read THEN Tail(s) ELSE s)

=============================================================================
