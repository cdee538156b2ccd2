-------------------------- MODULE RiskState_proofs --------------------------
(***************************************************************************)
(* Nothing written before a full reset is ever looked up, and the risk     *)
(* path answers as RiskPolicy says, for every number of symbols, every     *)
(* width of the words and every contents of the memory at power-up.        *)
(***************************************************************************)
EXTENDS RiskState, TLAPS

Entry   == Store!Entry
Address == Store!Address
Groups  == Store!Groups

TypeOK ==
  /\ memory \in [Address -> Entry]
  /\ state_clear_busy \in BOOLEAN
  /\ clear_address \in Address
  /\ clear_mask \in SUBSET Groups
  /\ lookup_valid \in BOOLEAN /\ lookup \in Entry
  /\ market_hours_active \in BOOLEAN
  /\ decision_valid \in BOOLEAN

(* What the sweep has passed is clear, and stays so until the sweep ends.  *)
SweptIsClear ==
  state_clear_busy =>
    \A a \in Address : a < clear_address => Store!Clear(memory[a], clear_mask) = memory[a]

-----------------------------------------------------------------------------
(* Clearing groups of an entry makes an entry; doing it again changes      *)
(* nothing more, and clearing all leaves nothing.                          *)
LEMMA ClearType ==
  ASSUME NEW e \in Entry, NEW mask
  PROVE  Store!Clear(e, mask) \in Entry
<1> DEFINE From(group) == IF group \in mask THEN Store!ClearedEntry ELSE e
<1>1. ASSUME NEW g PROVE From(g) \in Store!Entry
  BY DEF Entry, Store!Entry, Store!ClearedEntry
<1> HIDE DEF From
<1>2. /\ From("enable").symbol_known \in BOOLEAN /\ From("enable").symbol_enabled \in BOOLEAN
      /\ From("status").symbol_status \in 0 .. 7
      /\ From("top_of_book").bid_valid \in BOOLEAN /\ From("top_of_book").ask_valid \in BOOLEAN
      /\ From("top_of_book").bid_price \in Nat /\ From("top_of_book").ask_price \in Nat
      /\ From("limits").max_order_quantity \in Nat /\ From("limits").max_notional \in Nat
      /\ From("limits").max_price_band_ticks \in Nat
  BY <1>1 DEF Store!Entry
<1> QED
  BY <1>2 DEF From, Store!Clear, Entry, Store!Entry

LEMMA ClearTwice ==
  ASSUME NEW e \in Entry, NEW mask
  PROVE  Store!Clear(Store!Clear(e, mask), mask) = Store!Clear(e, mask)
BY DEF Entry, Store!Entry, Store!Clear, Store!ClearedEntry

LEMMA ClearAll ==
  ASSUME NEW e \in Entry
  PROVE  Store!Clear(e, Groups) = Store!ClearedEntry
BY DEF Entry, Groups, Store!Groups, Store!Entry, Store!Clear, Store!ClearedEntry

LEMMA ClearedType == Store!ClearedEntry \in Entry
BY DEF Entry, Store!Entry, Store!ClearedEntry

(* A cleared entry has no group left to clear.                             *)
LEMMA NothingToClear ==
  ASSUME NEW g
  PROVE  Store!Clear(Store!ClearedEntry, {g}) = Store!ClearedEntry
BY DEF Store!Clear, Store!ClearedEntry

LEMMA RequestedType ==
  ASSUME NEW m, m.payload_1 \in Nat
  PROVE  Store!RequestedGroups(m) \in SUBSET Groups
BY DEF Groups, Store!RequestedGroups, Store!GroupOfBit, Store!Groups

Message ==
  [type: Nat, flags: Nat, symbol_id: Nat,
   payload_0: Nat, payload_1: Nat, payload_2: Nat, payload_3: Nat]

LEMMA NoMessageType == NoMessage \in Message
BY StoreAssumption DEF NoMessage, Message

LEMMA MessageType == Messages \subseteq Message
BY MessageAssumption DEF Message

LEMMA ConfigWriteType ==
  ASSUME NEW e \in Entry, NEW m \in Message
  PROVE  Store!ConfigWrite(e, m) \in Entry
<1> USE DEF Message
<1>1. m.payload_1 * WordModulus + m.payload_2 \in Nat
  BY StoreAssumption
<1>2. [e EXCEPT !.max_notional = m.payload_1 * WordModulus + m.payload_2] \in Entry
  BY <1>1 DEF Entry, Store!Entry
<1>3. /\ [e EXCEPT !.symbol_known = TRUE, !.symbol_enabled = (m.payload_1 % 2 = 1)] \in Entry
      /\ [e EXCEPT !.max_order_quantity = m.payload_1] \in Entry
      /\ [e EXCEPT !.max_price_band_ticks = m.payload_1] \in Entry
  BY DEF Entry, Store!Entry
<1> QED
  BY <1>2, <1>3, ClearType DEF Store!ConfigWrite

LEMMA MessageWriteType ==
  ASSUME NEW e \in Entry, NEW m \in Message
  PROVE  Store!MessageWrite(e, m) \in Entry
<1>1. [e EXCEPT !.bid_valid = (m.flags % 2 = 1), !.ask_valid = ((m.flags \div 2) % 2 = 1),
                !.bid_price = m.payload_0, !.ask_price = m.payload_2] \in Entry
  BY DEF Message, Entry, Store!Entry
<1>2. [e EXCEPT !.symbol_status = m.payload_0 % 8] \in Entry
  <2>1. m.payload_0 % 8 \in 0 .. 7
    BY DEF Message
  <2> QED BY <2>1 DEF Entry, Store!Entry
<1> QED
  BY <1>1, <1>2, ConfigWriteType DEF Store!MessageWrite

-----------------------------------------------------------------------------
LEMMA ZeroAddress == 0 \in Address /\ \A a \in Address : ~(a < 0)
BY StoreAssumption DEF Address, Store!Address

LEMMA InitType == Init => TypeOK /\ SweptIsClear
<1> SUFFICES ASSUME Init PROVE TypeOK /\ SweptIsClear
  OBVIOUS
<1>1. memory \in [Address -> Entry]
  BY LeftoversAssumption DEF Init, Store!Init, Address, Entry
<1> QED
  BY <1>1, ZeroAddress, ClearedType
     DEF Init, Store!Init, Hours!Init, Risk!Init, TypeOK, SweptIsClear, Groups

(* One clock edge of the store, with or without a message.                 *)
LEMMA StoreStep ==
  ASSUME TypeOK, SweptIsClear, NEW valid \in BOOLEAN, NEW m \in Message, Store!Clock(valid, m)
  PROVE  /\ memory' \in [Address -> Entry]
         /\ state_clear_busy' \in BOOLEAN /\ clear_address' \in Address
         /\ clear_mask' \in SUBSET Groups
         /\ lookup_valid' \in BOOLEAN /\ lookup' \in Entry
         /\ SweptIsClear'
<1> USE DEF TypeOK
<1>1. lookup_valid' \in BOOLEAN /\ lookup' \in Entry
  <2>1. Store!InRange(m) => m.symbol_id \in Address
    BY StoreAssumption DEF Store!InRange, Message, Address, Store!Address
  <2> QED BY <2>1, ClearedType DEF Store!Clock, Store!Lookup
<1>2. CASE Store!Sweep
  <2>1. Store!Clear(memory[clear_address], clear_mask) \in Entry
    BY ClearType
  <2>2. memory' = [memory EXCEPT ![clear_address] = Store!Clear(memory[clear_address], clear_mask)]
    BY <1>2 DEF Store!Sweep
  <2>3. memory' \in [Address -> Entry]
    BY <2>1, <2>2
  <2>4. /\ state_clear_busy' \in BOOLEAN /\ clear_mask' = clear_mask
        /\ state_clear_busy' => clear_address' = clear_address + 1
    BY <1>2 DEF Store!Sweep
  <2>6. clear_address' \in Address
    <3>1. clear_address' = IF clear_address = SymbolCount - 1 THEN 0 ELSE clear_address + 1
      BY <1>2 DEF Store!Sweep
    <3> QED BY <3>1, StoreAssumption DEF Address, Store!Address
  <2>5. SweptIsClear'
    <3> SUFFICES ASSUME state_clear_busy', NEW a \in Address, a < clear_address'
                 PROVE  Store!Clear(memory'[a], clear_mask) = memory'[a]
      BY <2>4 DEF SweptIsClear
    <3>1. CASE a = clear_address
      BY <3>1, <2>2, ClearTwice
    <3>2. CASE a # clear_address
      <4>1. a < clear_address /\ memory'[a] = memory[a]
        BY <3>2, <2>2, <2>4 DEF Address, Store!Address
      <4> QED BY <4>1, <1>2 DEF SweptIsClear, Store!Sweep
    <3> QED BY <3>1, <3>2
  <2> QED BY <1>1, <2>3, <2>4, <2>5, <2>6
<1>3. CASE Store!StartSweep(valid, m)
  <2>1. 0 \in Address
    BY StoreAssumption DEF Address, Store!Address
  <2>2. Store!RequestedGroups(m) \in SUBSET Groups
    BY RequestedType DEF Message
  <2> QED
    BY <1>1, <1>3, <2>1, <2>2 DEF Store!StartSweep, SweptIsClear, Address, Store!Address
<1>4. CASE Store!Write(valid, m)
  <2>1. Store!InRange(m) => m.symbol_id \in Address
    BY StoreAssumption DEF Store!InRange, Message, Address, Store!Address
  <2>2. memory' \in [Address -> Entry]
    BY <1>4, <2>1, MessageWriteType DEF Store!Write
  <2> QED BY <1>1, <1>4, <2>2 DEF Store!Write, SweptIsClear
<1>5. CASE Store!NoMessage(valid)
  BY <1>1, <1>5 DEF Store!NoMessage, SweptIsClear
<1> QED BY <1>2, <1>3, <1>4, <1>5 DEF Store!Clock

LEMMA TypeStep == TypeOK /\ SweptIsClear /\ [Next]_vars => TypeOK' /\ SweptIsClear'
<1> SUFFICES ASSUME TypeOK, SweptIsClear, [Next]_vars PROVE TypeOK' /\ SweptIsClear'
  OBVIOUS
<1>1. ASSUME NEW m \in Message, NEW fault \in BOOLEAN, NEW violation \in BOOLEAN,
             Tick(m, fault, violation)
      PROVE  TypeOK' /\ SweptIsClear'
  <2>1. Store!Clock(m # NoMessage, m)
    BY <1>1 DEF Tick
  <2>2. market_hours_active' \in BOOLEAN
    BY <1>1 DEF Tick, Hours!Clock, TypeOK
  <2>3. decision_valid' \in BOOLEAN
    BY <1>1 DEF Tick, Risk!Clock, Risk!Decide, TypeOK
  <2> QED BY <2>1, <2>2, <2>3, StoreStep DEF TypeOK
<1>2. CASE LinkReset
  <2> QED
    BY <1>2, ZeroAddress, ClearedType
       DEF LinkReset, Store!Reset, Store!ResetRegisters, Hours!Reset, Risk!Reset, TypeOK,
           SweptIsClear, Groups
<1>3. CASE UNCHANGED vars
  BY <1>3 DEF vars, Store!vars, Hours!vars, Risk!vars, TypeOK, SweptIsClear
<1> QED BY <1>1, <1>2, <1>3, NoMessageType, MessageType DEF Next

THEOREM TypeCorrect == Spec => [](TypeOK /\ SweptIsClear)
<1>1. Init => TypeOK /\ SweptIsClear
  BY InitType
<1>2. TypeOK /\ SweptIsClear /\ [Next]_vars => TypeOK' /\ SweptIsClear'
  BY TypeStep
<1> QED BY <1>1, <1>2, PTL DEF Spec

-----------------------------------------------------------------------------
(* The host sends no RESET_ALL with a mask (CommandSource, ResetAll).      *)
FullResetsOnly == \A m \in Messages : Store!IsResetAll(m) => IsFullReset(m)

StaleIsStored ==
  /\ stale \subseteq Stored
  /\ state_clear_busy => clear_mask = Groups
  /\ NoStaleState

(* A memory that is clear everywhere stores nothing.                       *)
LEMMA NothingStored ==
  ASSUME \A a \in Address : memory[a] = Store!ClearedEntry
  PROVE  Stored = {}
BY NothingToClear DEF Stored, Address

LEMMA StaleStep ==
  ASSUME FullResetsOnly, TypeOK, SweptIsClear, StaleIsStored, [Next]_vars
  PROVE  StaleIsStored'
<1>1. ASSUME NEW m \in Messages \cup {NoMessage}, NEW fault, NEW violation,
             Tick(m, fault, violation)
      PROVE  StaleIsStored'
  <2>1. /\ stale' \subseteq Stored'
        /\ ~IsFullReset(m) => stale' \subseteq stale
    BY <1>1 DEF Tick, RecordStale
  <2>2. Store!IsResetAll(m) <=> IsFullReset(m)
    BY DEF FullResetsOnly, IsFullReset, Store!IsResetAll, NoMessage, Store!CONFIG_CONTROL
  <2>3. CASE Store!Sweep
    <3>1. clear_mask' = Groups
      BY <2>3 DEF Store!Sweep, StaleIsStored
    <3>2. ASSUME ~state_clear_busy', NEW a \in Address
          PROVE  memory'[a] = Store!ClearedEntry
      <4>1. /\ clear_address = SymbolCount - 1 /\ clear_mask = Groups
            /\ memory' = [memory EXCEPT ![clear_address] = Store!Clear(memory[clear_address], Groups)]
        BY <2>3, <3>2 DEF Store!Sweep, StaleIsStored
      <4>2. CASE a = clear_address
        BY <4>1, <4>2, ClearAll DEF TypeOK
      <4>3. CASE a # clear_address
        <5>1. a < clear_address /\ memory'[a] = memory[a]
          BY <4>1, <4>3, StoreAssumption DEF TypeOK, Address, Store!Address
        <5>2. Store!Clear(memory[a], Groups) = memory[a]
          BY <2>3, <4>1, <5>1 DEF SweptIsClear, Store!Sweep
        <5> QED BY <5>1, <5>2, ClearAll DEF TypeOK
      <4> QED BY <4>2, <4>3
    <3>3. ~state_clear_busy' => Stored' = {}
      <4>1. (\A a \in Address : memory[a] = Store!ClearedEntry)' => Stored' = {}
        BY NothingToClear DEF Stored, Address
      <4> QED BY <3>2, <4>1 DEF Address, Store!Address, Store!ClearedEntry
    <3> QED BY <2>1, <3>1, <3>3 DEF StaleIsStored, NoStaleState
  <2>4. CASE Store!StartSweep(m # NoMessage, m)
    <3>1. clear_mask' = Groups
      BY <2>2, <2>4 DEF Store!StartSweep, IsFullReset, Store!RequestedGroups, Groups
    <3> QED BY <2>1, <2>4, <3>1 DEF Store!StartSweep, StaleIsStored, NoStaleState
  <2>5. CASE Store!Write(m # NoMessage, m) \/ Store!NoMessage(m # NoMessage)
    <3>1. ~state_clear_busy /\ ~state_clear_busy' /\ ~Store!IsResetAll(m)
      BY <2>5 DEF Store!Write, Store!NoMessage, NoMessage, Store!IsResetAll, Store!CONFIG_CONTROL
    <3> QED BY <2>1, <2>2, <3>1 DEF StaleIsStored, NoStaleState
  <2> QED BY <1>1, <2>3, <2>4, <2>5 DEF Tick, Store!Clock
<1>2. CASE LinkReset
  BY <1>2 DEF LinkReset, Store!Reset, Store!ResetRegisters, StaleIsStored, NoStaleState, Stored,
                Groups
<1>3. CASE UNCHANGED vars
  BY <1>3 DEF vars, Store!vars, StaleIsStored, NoStaleState, Stored
<1> QED BY <1>1, <1>2, <1>3 DEF Next

(***************************************************************************)
(* Once a sweep is over nothing is stored that was written before the last *)
(* full reset or that the memory held at power-up, if the host sends full  *)
(* resets only; the run partial_reset shows that this is needed.           *)
(***************************************************************************)
THEOREM NothingStale ==
  ASSUME FullResetsOnly
  PROVE  Spec => []NoStaleState
<1>1. Init => StaleIsStored
  BY DEF Init, Store!Init, StaleIsStored, NoStaleState, Groups
<1>2. TypeOK /\ SweptIsClear /\ StaleIsStored /\ [Next]_vars => StaleIsStored'
  BY StaleStep
<1>3. StaleIsStored => NoStaleState
  BY DEF StaleIsStored
<1> QED BY <1>1, <1>2, <1>3, TypeCorrect, PTL DEF Spec

-----------------------------------------------------------------------------
(* Refinement                                                              *)
(* No reason to reject is found exactly when none of the conditions holds. *)
LEMMA NoReason ==
  ASSUME NEW o, NEW l
  PROVE  Risk!SelectedRejectReason(o, l) = "NONE" <=>
           \A i \in 1 .. 13 : ~Risk!RejectConditions(o, l)[i].holds
<1> DEFINE c == Risk!RejectConditions(o, l)
           First == {i \in DOMAIN c : c[i].holds /\ \A j \in 1 .. i - 1 : ~c[j].holds}
<1>1. DOMAIN c = 1 .. 13
  BY DEF Risk!RejectConditions
<1>2. \A i \in DOMAIN c : c[i].reason # "NONE"
  BY DEF Risk!RejectConditions
<1>3. Risk!SelectedRejectReason(o, l) = IF First = {} THEN "NONE" ELSE c[CHOOSE i \in First : TRUE].reason
  BY DEF Risk!SelectedRejectReason
<1> HIDE DEF c
<1>4. First # {} => (CHOOSE i \in First : TRUE) \in DOMAIN c
  OBVIOUS
<1>5. ASSUME \E i \in 1 .. 13 : c[i].holds PROVE First # {}
  <2> DEFINE holds(i) == c[i].holds
  <2> HIDE DEF holds
  <2>1. \E i \in 1 .. 13 : holds(i) /\ \A j \in 1 .. i - 1 : ~holds(j)
    BY <1>5 DEF holds
  <2> QED BY <1>1, <2>1 DEF holds
<1>6. (\A i \in 1 .. 13 : ~c[i].holds) => First = {}
  BY <1>1
<1> QED BY <1>2, <1>3, <1>4, <1>5, <1>6 DEF c

(* The decision of an order against an entry of the book, or against what  *)
(* is looked up of no symbol.                                              *)
LEMMA DecisionMatchesPolicy ==
  ASSUME TypeOK, NEW m \in Message, IsOrder(m), NEW fault \in BOOLEAN, NEW violation \in BOOLEAN,
         NEW l \in Entry,
         Risk!Capture(TRUE, Order(m, fault, violation)), 
         \/ m.symbol_id \in Address /\ l = memory[m.symbol_id]
         \/ m.symbol_id \notin Address /\ l = Store!ClearedEntry,
         ~state_clear_busy
  PROVE  Risk!SelectedRejectReason(pending_order', l) = "NONE" <=>
           ~(fault \/ violation) /\ Policy!Acceptable(m)
<1> DEFINE o == pending_order'
<1>1. /\ o.side = m.payload_0 /\ o.price = m.payload_1 /\ o.quantity = m.payload_2
      /\ o.notional = m.payload_1 * m.payload_2
      /\ o.stream_fault = fault /\ o.protocol_violation = violation
      /\ o.market_hours_active = market_hours_active
  BY DEF Risk!Capture, Order
<1>2. Risk!SelectedRejectReason(o, l) = "NONE" <=>
        /\ ~fault /\ ~violation /\ market_hours_active
        /\ l.symbol_known /\ l.symbol_enabled /\ l.symbol_status = 4
        /\ o.side = 1 \/ o.side = 2
        /\ o.quantity # 0 /\ o.price # 0
        /\ ~Risk!RequiredTobInvalid(o, l)
        /\ ~(o.quantity > l.max_order_quantity)
        /\ ~Risk!OutsidePriceBand(o, l)
        /\ ~(o.notional > l.max_notional)
  <2> HIDE DEF o
  <2>1. LET c == Risk!RejectConditions(o, l)
        IN  /\ c[1].holds = o.stream_fault /\ c[2].holds = o.protocol_violation
            /\ c[3].holds = ~o.market_hours_active /\ c[4].holds = ~l.symbol_known
            /\ c[5].holds = ~l.symbol_enabled /\ c[6].holds = (l.symbol_status # 4)
            /\ c[7].holds = (~Risk!IsBuy(o) /\ ~Risk!IsSell(o))
            /\ c[8].holds = (o.quantity = 0) /\ c[9].holds = (o.price = 0)
            /\ c[10].holds = Risk!RequiredTobInvalid(o, l)
            /\ c[11].holds = (o.quantity > l.max_order_quantity)
            /\ c[12].holds = Risk!OutsidePriceBand(o, l)
            /\ c[13].holds = (o.notional > l.max_notional)
    BY DEF Risk!RejectConditions, Risk!SYMBOL_STATUS_TRADING
  <2>2. (\A i \in 1 .. 13 : ~Risk!RejectConditions(o, l)[i].holds) <=>
          LET c == Risk!RejectConditions(o, l)
          IN  /\ ~c[1].holds /\ ~c[2].holds /\ ~c[3].holds /\ ~c[4].holds /\ ~c[5].holds
              /\ ~c[6].holds /\ ~c[7].holds /\ ~c[8].holds /\ ~c[9].holds /\ ~c[10].holds
              /\ ~c[11].holds /\ ~c[12].holds /\ ~c[13].holds
    <3> DEFINE holds(i) == Risk!RejectConditions(o, l)[i].holds
    <3> HIDE DEF holds
    <3>1. (\A i \in 1 .. 13 : ~holds(i)) <=>
            /\ ~holds(1) /\ ~holds(2) /\ ~holds(3) /\ ~holds(4) /\ ~holds(5) /\ ~holds(6)
            /\ ~holds(7) /\ ~holds(8) /\ ~holds(9) /\ ~holds(10) /\ ~holds(11) /\ ~holds(12)
            /\ ~holds(13)
      OBVIOUS
    <3> QED BY <3>1 DEF holds
  <2> QED
    BY <1>1, <2>1, <2>2, NoReason
       DEF Risk!IsBuy, Risk!IsSell, Risk!ORDER_SIDE_BUY, Risk!ORDER_SIDE_SELL, o
<1> HIDE DEF o
<1>3. /\ l.symbol_status \in Int /\ l.max_order_quantity \in Nat /\ l.max_notional \in Nat
      /\ l.ask_price \in Nat /\ l.bid_price \in Nat /\ l.max_price_band_ticks \in Nat
      /\ l.symbol_known \in BOOLEAN /\ l.symbol_enabled \in BOOLEAN
      /\ l.bid_valid \in BOOLEAN /\ l.ask_valid \in BOOLEAN
  BY DEF Entry, Store!Entry
<1>4. /\ m.payload_0 \in Nat /\ m.payload_1 \in Nat /\ m.payload_2 \in Nat
      /\ m.payload_1 * m.payload_2 \in Nat
  BY DEF Message
<1>5. (o.side = 1 \/ o.side = 2) /\ ~Risk!RequiredTobInvalid(o, l) /\ ~Risk!OutsidePriceBand(o, l)
        <=> Policy!PriceAllowed(m, l)
  BY <1>1, <1>3, <1>4
     DEF Policy!PriceAllowed, Risk!RequiredTobInvalid, Risk!OutsidePriceBand, Risk!IsBuy, Risk!IsSell,
         Risk!ORDER_SIDE_BUY, Risk!ORDER_SIDE_SELL
<1>6. CASE m.symbol_id \in Address /\ l = memory[m.symbol_id]
  <2>1. Policy!Acceptable(m) <=>
          /\ market_hours_active
          /\ l.symbol_known /\ l.symbol_enabled /\ l.symbol_status = 4
          /\ m.payload_1 > 0 /\ m.payload_2 > 0
          /\ Policy!PriceAllowed(m, l)
          /\ m.payload_2 <= l.max_order_quantity
          /\ m.payload_1 * m.payload_2 <= l.max_notional
    BY <1>6 DEF Policy!Acceptable, Address
  <2>2. /\ o.quantity # 0 <=> m.payload_2 > 0
        /\ o.price # 0 <=> m.payload_1 > 0
        /\ ~(o.quantity > l.max_order_quantity) <=> m.payload_2 <= l.max_order_quantity
        /\ ~(o.notional > l.max_notional) <=> m.payload_1 * m.payload_2 <= l.max_notional
    BY <1>1, <1>3, <1>4
  <2>3. Risk!SelectedRejectReason(o, l) = "NONE" <=>
          /\ ~(fault \/ violation) /\ market_hours_active
          /\ l.symbol_known /\ l.symbol_enabled /\ l.symbol_status = 4
          /\ Policy!PriceAllowed(m, l)
          /\ m.payload_1 > 0 /\ m.payload_2 > 0
          /\ m.payload_2 <= l.max_order_quantity
          /\ m.payload_1 * m.payload_2 <= l.max_notional
    BY <1>2, <1>5, <2>2
  <2> QED BY <2>1, <2>3 DEF o
<1>7. CASE m.symbol_id \notin Address /\ l = Store!ClearedEntry
  <2>1. ~l.symbol_known
    BY <1>7 DEF Store!ClearedEntry
  <2>2. ~Policy!Acceptable(m)
    BY <1>7 DEF Policy!Acceptable, Address
  <2> QED BY <1>2, <2>1, <2>2 DEF o
<1> QED BY <1>6, <1>7

LEMMA PolicyInit == Init => Policy!Init
<1> SUFFICES ASSUME Init PROVE Policy!Init
  OBVIOUS
<1>1. memory \in [Address -> Entry]
  BY LeftoversAssumption DEF Init, Store!Init, Address, Entry
<1>2. \A a \in Address : Store!Clear(memory[a], Groups) = Store!ClearedEntry
  BY <1>1, ClearAll
<1> QED
  BY <1>2 DEF Init, Store!Init, Hours!Init, Risk!Init, Policy!Init, Verdict, Address, Groups

(* The book as the policy sees it: what is going to be cleared counts as   *)
(* cleared.                                                                *)
Book == [a \in Address |-> IF state_clear_busy THEN Store!Clear(memory[a], clear_mask) ELSE memory[a]]

(* A step of the sweep is none of the book, and ends with the book there.  *)
LEMMA SweepKeepsBook ==
  ASSUME TypeOK, SweptIsClear, Store!Sweep
  PROVE  Book' = Book
<1>1. memory' = [memory EXCEPT ![clear_address] = Store!Clear(memory[clear_address], clear_mask)]
  BY DEF Store!Sweep
<1>2. state_clear_busy /\ clear_mask' = clear_mask
  BY DEF Store!Sweep
<1> SUFFICES ASSUME NEW a \in Address
             PROVE  (IF state_clear_busy' THEN Store!Clear(memory'[a], clear_mask) ELSE memory'[a])
                      = Store!Clear(memory[a], clear_mask)
  BY <1>2 DEF Book, Address, Store!Address
<1>3. CASE a = clear_address
  BY <1>1, <1>3, ClearTwice DEF TypeOK
<1>4. CASE a # clear_address
  <2>1. memory'[a] = memory[a]
    BY <1>1, <1>4 DEF TypeOK
  <2>2. CASE state_clear_busy'
    BY <2>1, <2>2
  <2>3. CASE ~state_clear_busy'
    <3>1. clear_address = SymbolCount - 1
      BY <2>3 DEF Store!Sweep
    <3>2. a < clear_address
      BY <1>4, <3>1, StoreAssumption DEF Address, Store!Address
    <3> QED BY <1>2, <2>1, <2>3, <3>2 DEF SweptIsClear
  <2> QED BY <2>2, <2>3
<1> QED BY <1>3, <1>4

(* The store takes a message as the policy's book does, or sweeps on.      *)
LEMMA BookStep ==
  ASSUME TypeOK, SweptIsClear, NEW m \in Message, Store!Clock(m # NoMessage, m)
  PROVE  Policy!BookMessage(m) \/ Policy!WhileClearing
<1>1. CASE Store!Sweep
  <2>1. state_clear_busy /\ state_clear_busy' \in BOOLEAN
    BY <1>1 DEF Store!Sweep
  <2> QED BY <1>1, <2>1, SweepKeepsBook DEF Policy!WhileClearing, Book, Address
<1>2. CASE Store!StartSweep(m # NoMessage, m)
  BY <1>2 DEF Store!StartSweep, Policy!BookMessage, Address
<1>3. CASE Store!Write(m # NoMessage, m)
  <2>1. ~state_clear_busy /\ ~state_clear_busy' /\ ~Store!IsResetAll(m)
    BY <1>3 DEF Store!Write
  <2>2. \A a \in Address : memory'[a] = IF a = m.symbol_id THEN Store!MessageWrite(memory[a], m) ELSE memory[a]
    <3>1. Store!InRange(m) <=> m.symbol_id \in Address
      BY StoreAssumption DEF Store!InRange, Message, Address, Store!Address
    <3> QED BY <1>3, <3>1 DEF Store!Write, TypeOK
  <2>3. Book = memory /\ Book' = memory'
    <3>1. memory \in [Address -> Entry] /\ memory' \in [Address -> Entry]
      BY <1>3, StoreStep DEF TypeOK
    <3> QED BY <2>1, <3>1 DEF Book, Address, Store!Address
  <2>4. Book' = [a \in Address |-> IF a = m.symbol_id THEN Store!MessageWrite(Book[a], m) ELSE Book[a]]
    <3>1. memory' \in [Address -> Entry]
      BY <1>3, StoreStep
    <3> QED BY <2>2, <2>3, <3>1
  <2>5. state_clear_busy' = Store!IsResetAll(m)
    <3>1. state_clear_busy' \in BOOLEAN
      BY StoreStep
    <3> QED BY <2>1, <3>1 DEF Store!IsResetAll
  <2> QED BY <2>1, <2>4, <2>5 DEF Policy!BookMessage, Book, Address
<1>4. CASE Store!NoMessage(m # NoMessage)
  <2>1. m = NoMessage /\ ~state_clear_busy /\ UNCHANGED << memory, state_clear_busy, clear_mask >>
    BY <1>4 DEF Store!NoMessage
  <2>2. ~Store!IsResetAll(m) /\ m.symbol_id \notin Address
    BY <2>1, StoreAssumption
       DEF NoMessage, Store!IsResetAll, Store!CONFIG_CONTROL, Address, Store!Address
  <2>3. Book' = Book
    BY <2>1 DEF Book, Address, Store!Address
  <2>4. Book = [a \in Address |-> IF a = m.symbol_id THEN Store!MessageWrite(Book[a], m) ELSE Book[a]]
    BY <2>2 DEF Book
  <2>5. state_clear_busy' = Store!IsResetAll(m)
    BY <2>1, <2>2 DEF Store!IsResetAll, TypeOK
  <2> QED BY <2>1, <2>2, <2>3, <2>4, <2>5 DEF Policy!BookMessage, Book, Address
<1> QED BY <1>1, <1>2, <1>3, <1>4 DEF Store!Clock

LEMMA AnswerStep ==
  ASSUME TypeOK, NEW m \in Message, NEW fault \in BOOLEAN, NEW violation \in BOOLEAN,
         Tick(m, fault, violation)
  PROVE  Policy!AnswerOrder(m, fault \/ violation)
<1>1. (IF decision_valid' THEN decision'.decision ELSE "none") = Verdict
  BY DEF Tick, Risk!Clock, Risk!Decide, Verdict, TypeOK
<1>2. /\ lookup_valid' <=> m # NoMessage /\ IsOrder(m)
      /\ lookup_valid' => lookup' = IF ~state_clear_busy /\ Store!InRange(m)
                                       THEN memory[m.symbol_id] ELSE Store!ClearedEntry
  BY DEF Tick, Store!Clock, Store!Lookup, IsOrder
<1>3. CASE ~IsOrder(m)
  BY <1>1, <1>2, <1>3 DEF Policy!AnswerOrder, Verdict
<1>4. CASE IsOrder(m)
  <2>1. m # NoMessage
    BY <1>4 DEF IsOrder, NoMessage, Store!ORDER_INTENT
  <2>2. Risk!Capture(TRUE, Order(m, fault, violation))
    BY <1>4, <2>1 DEF Tick, Risk!Clock, Risk!Capture
  <2>3. Verdict' = IF Risk!SelectedRejectReason(pending_order', lookup') = "NONE" THEN "ACCEPT" ELSE "REJECT"
    BY <1>2, <1>4, <2>1 DEF Verdict
  <2>4. CASE state_clear_busy
    <3>1. lookup' = Store!ClearedEntry
      BY <1>2, <1>4, <2>1, <2>4
    <3>2. Risk!RejectConditions(pending_order', lookup')[4].holds
      BY <3>1 DEF Risk!RejectConditions, Store!ClearedEntry
    <3>3. Verdict' = "REJECT"
      BY <2>3, <3>2, NoReason
    <3> QED BY <1>1, <1>4, <2>4, <3>3 DEF Policy!AnswerOrder
  <2>5. CASE ~state_clear_busy
    <3>1. Store!InRange(m) <=> m.symbol_id \in Address
      BY StoreAssumption DEF Store!InRange, Message, Address, Store!Address
    <3>2. lookup' \in Entry
      BY <1>2, <1>4, <2>1, <2>5, <3>1, ClearedType DEF TypeOK
    <3>3. Risk!SelectedRejectReason(pending_order', lookup') = "NONE" <=>
            ~(fault \/ violation) /\ Policy!Acceptable(m)
      BY <1>2, <1>4, <2>1, <2>2, <2>5, <3>1, <3>2, DecisionMatchesPolicy
    <3> QED BY <1>1, <1>4, <2>3, <3>3 DEF Policy!AnswerOrder
  <2> QED BY <2>4, <2>5
<1> QED BY <1>3, <1>4

LEMMA SessionStep ==
  ASSUME NEW m \in Messages \cup {NoMessage}, NEW fault, NEW violation, Tick(m, fault, violation)
  PROVE  Policy!SessionMessage(m)
<1>1. IsSessionStatus(m) => m.payload_0 % 8 = m.payload_0
  BY MessageAssumption DEF IsSessionStatus, SESSION_STATUS, NoMessage
<1>2. m = NoMessage => ~IsFullReset(m) /\ ~IsSessionStatus(m)
  BY DEF NoMessage, IsFullReset, Store!IsResetAll, Store!CONFIG_CONTROL, IsSessionStatus,
         SESSION_STATUS
<1> QED
  BY <1>1, <1>2 DEF Tick, Hours!Clock, Hours!START_OF_MARKET_HOURS, Policy!SessionMessage

LEMMA PolicyStep == TypeOK /\ SweptIsClear /\ [Next]_vars => [Policy!Next]_(Policy!vars)
<1> SUFFICES ASSUME TypeOK, SweptIsClear, [Next]_vars PROVE [Policy!Next]_(Policy!vars)
  OBVIOUS
<1>1. ASSUME NEW m \in Messages \cup {NoMessage}, NEW fault \in BOOLEAN, NEW violation \in BOOLEAN,
             Tick(m, fault, violation)
      PROVE  Policy!Next
  <2>1. m \in Message
    BY NoMessageType, MessageType
  <2>2. Policy!BookMessage(m) \/ Policy!WhileClearing
    BY <1>1, <2>1, BookStep DEF Tick
  <2>3. Policy!AnswerOrder(m, fault \/ violation)
    BY <1>1, <2>1, AnswerStep
  <2>4. Policy!SessionMessage(m)
    BY <1>1, SessionStep
  <2> QED BY <2>2, <2>3, <2>4 DEF Policy!Take, Policy!Next
<1>2. CASE LinkReset
  <2>1. \A a \in Address : Store!Clear(memory'[a], Groups) = Store!ClearedEntry
    BY <1>2, ClearAll DEF LinkReset, Store!Reset, TypeOK
  <2> QED
    BY <1>2, <2>1
       DEF LinkReset, Store!Reset, Store!ResetRegisters, Hours!Reset, Risk!Reset, Verdict, Groups,
           Address, Policy!LinkReset, Policy!Next
<1>3. CASE UNCHANGED vars
  BY <1>3 DEF vars, Store!vars, Hours!vars, Risk!vars, Policy!vars, Verdict
<1> QED BY <1>1, <1>2, <1>3 DEF Next

(***************************************************************************)
(* Store, session tracker and risk engine implement the policy: an order   *)
(* is accepted only if the messages before it allow it, and while the      *)
(* store is being cleared it is never accepted against them.               *)
(***************************************************************************)
THEOREM Refinement == Spec => ImplementsRiskPolicy
<1>1. Init => Policy!Init
  BY PolicyInit
<1>2. TypeOK /\ SweptIsClear /\ [Next]_vars => [Policy!Next]_(Policy!vars)
  BY PolicyStep
<1> QED BY <1>1, <1>2, TypeCorrect, PTL DEF Spec, ImplementsRiskPolicy, Policy!Spec
=============================================================================
