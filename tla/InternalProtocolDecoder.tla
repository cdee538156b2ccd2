---------------------- MODULE InternalProtocolDecoder ----------------------
(***************************************************************************)
(* src/fpga/rtl/protocol/internal_protocol_decoder.sv: checks the format   *)
(* of one 32-byte message and registers its fields with the packet marks.  *)
(* The byte swapping of the fields and the timestamp, which nothing reads, *)
(* are left out.                                                           *)
(***************************************************************************)
EXTENDS Naturals

SESSION_STATUS == 1
TOB_UPDATE     == 2
SYMBOL_STATUS  == 3
ORDER_INTENT   == 4
CONFIG_CONTROL == 5

CONFIG_NOP                  == 0
CONFIG_RESET_ALL            == 1
CONFIG_RESET_SYMBOL         == 2
CONFIG_SET_SYMBOL_ENABLED   == 3
CONFIG_SET_MAX_ORDER_QTY    == 4
CONFIG_SET_MAX_NOTIONAL     == 5
CONFIG_SET_PRICE_BAND_TICKS == 6

(* The fields while nothing is decoded: the registers keep old values that *)
(* are only read under decoded_valid, so the model forgets them.           *)
NoFields == [type |-> 0]

VARIABLES
  decoded_valid, decoded, decoded_packet_start, decoded_packet_end,
  decoded_packet_abort, protocol_error

vars == << decoded_valid, decoded, decoded_packet_start, decoded_packet_end,
           decoded_packet_abort, protocol_error >>

Init ==
  /\ decoded_valid = FALSE
  /\ decoded = NoFields
  /\ decoded_packet_start = FALSE
  /\ decoded_packet_end = FALSE
  /\ decoded_packet_abort = FALSE
  /\ protocol_error = FALSE

-----------------------------------------------------------------------------
Zero(m, fields) == \A f \in fields : m[f] = 0

(* An invalid side of the book must carry zero fields.                     *)
TopOfBookFieldsValid(m) ==
  /\ m.flags < 4 /\ m.symbol_id # 0
  /\ m.flags % 2 = 0 => Zero(m, {"payload_0", "payload_1"})
  /\ m.flags \div 2 = 0 => Zero(m, {"payload_2", "payload_3"})

ConfigFieldsValid(m) ==
  CASE m.payload_0 = CONFIG_NOP ->
         Zero(m, {"symbol_id", "payload_1", "payload_2"})
    [] m.payload_0 = CONFIG_RESET_ALL ->
         Zero(m, {"symbol_id", "payload_2"}) /\ m.payload_1 < 16
    [] m.payload_0 = CONFIG_RESET_SYMBOL ->
         m.symbol_id # 0 /\ m.payload_1 < 16 /\ m.payload_2 = 0
    [] m.payload_0 = CONFIG_SET_SYMBOL_ENABLED ->
         m.symbol_id # 0 /\ m.payload_1 <= 1 /\ m.payload_2 = 0
    [] m.payload_0 \in {CONFIG_SET_MAX_ORDER_QTY, CONFIG_SET_PRICE_BAND_TICKS} ->
         m.symbol_id # 0 /\ m.payload_2 = 0
    [] m.payload_0 = CONFIG_SET_MAX_NOTIONAL -> m.symbol_id # 0
    [] OTHER -> FALSE

(* An order must close its packet; no other type has a place of its own.   *)
TypeFieldsValid(m, packet_end) ==
  LET Plain(max) == /\ m.flags = 0 /\ m.payload_0 <= max
                    /\ Zero(m, {"payload_1", "payload_2", "payload_3"})
  IN  CASE m.type = SESSION_STATUS -> Plain(6) /\ m.symbol_id = 0
        [] m.type = TOB_UPDATE     -> TopOfBookFieldsValid(m)
        [] m.type = SYMBOL_STATUS  -> Plain(4) /\ m.symbol_id # 0
        [] m.type = ORDER_INTENT   -> /\ m.flags = 0 /\ m.symbol_id # 0
                                      /\ m.payload_0 <= 2 /\ packet_end
        [] m.type = CONFIG_CONTROL -> m.flags = 0 /\ ConfigFieldsValid(m)
        [] OTHER -> FALSE

FormatValid(m, packet_end) == m.reserved = 0 /\ TypeFieldsValid(m, packet_end)

-----------------------------------------------------------------------------
Quiet(abort) ==
  /\ decoded_valid' = FALSE
  /\ decoded' = NoFields
  /\ decoded_packet_start' = FALSE
  /\ decoded_packet_end' = FALSE
  /\ decoded_packet_abort' = abort

PassAbort(a) == a.abort /\ Quiet(TRUE) /\ protocol_error' = FALSE

(* A malformed message aborts its packet; a malformed ORDER_INTENT is also *)
(* passed on, so that it can be answered.                                  *)
Decode(a, m) ==
  LET format_valid == FormatValid(m, a.packet_end)
  IN  /\ ~a.abort /\ a.valid
      /\ IF format_valid \/ m.type = ORDER_INTENT
           THEN /\ decoded_valid' = TRUE
                /\ decoded' = m
                /\ decoded_packet_start' = a.packet_start
                /\ decoded_packet_end' = a.packet_end
                /\ decoded_packet_abort' = ~format_valid
           ELSE Quiet(TRUE)
      /\ protocol_error' = ~format_valid

NoMessage(a) == ~a.abort /\ ~a.valid /\ Quiet(FALSE) /\ protocol_error' = FALSE

Clock(a, m) == PassAbort(a) \/ Decode(a, m) \/ NoMessage(a)

-----------------------------------------------------------------------------
(* rx0_message_is_full_reset_all of xem8320_top.sv.                        *)
IsFullResetAll ==
  /\ decoded_valid /\ decoded.type = CONFIG_CONTROL
  /\ decoded.payload_0 = CONFIG_RESET_ALL
  /\ decoded.payload_1 = 0

IsOrderIntent == decoded_valid /\ decoded.type = ORDER_INTENT

=============================================================================
