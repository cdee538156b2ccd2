---------------------------- MODULE ItchDecoder ----------------------------
(***************************************************************************)
(* src/host/src/itch/decoder.cpp and the message types of messages.hpp.  A *)
(* raw message is a record of its length and the fields that are read from *)
(* its bytes; those that nothing uses later are left out.  type, eventCode *)
(* and tradingState are characters; buySell is "Buy" for 'B', "Sell" for   *)
(* 'S'.  Decoding keeps the fields and returns the status.                 *)
(***************************************************************************)
EXTENDS Naturals

MaxPayload == 64

(* readNextMessage of itch_file_reader.cpp: prefix and present count the   *)
(* bytes of the length and of the payload that the file still has.         *)
ReadStatus(raw) ==
  IF raw.prefix = 1 THEN "TruncatedLength"
  ELSE IF raw.length > MaxPayload THEN "OversizedPayload"
  ELSE IF raw.present < raw.length THEN "TruncatedPayload"
  ELSE "Ok"

LengthOf ==
  [S |-> 12, R |-> 39, H |-> 25, A |-> 36, F |-> 40, E |-> 31, C |-> 36, X |-> 23,
   D |-> 19, U |-> 35]

BookTypes == {"A", "F", "E", "C", "X", "D", "U"}

FieldsValid(raw) ==
  CASE raw.type = "S"         -> raw.eventCode \in {"O", "S", "Q", "M", "E", "C"}
    [] raw.type = "H"         -> raw.tradingState \in {"H", "P", "Q", "T"}
    [] raw.type \in {"A", "F"} -> raw.buySell \in {"Buy", "Sell"}
    [] raw.type = "C"         -> raw.printable \in {"Y", "N"}
    [] OTHER                  -> TRUE

DecodeMessage(raw) ==
  IF raw.length = 0 THEN "EmptyMessage"
  ELSE IF raw.type \notin DOMAIN LengthOf THEN "UnsupportedMessageType"
  ELSE IF raw.length # LengthOf[raw.type] THEN "LengthMismatch"
  ELSE IF ~FieldsValid(raw) THEN "InvalidFieldValue"
  ELSE "Ok"
=============================================================================
