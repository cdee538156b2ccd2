--------------------------- MODULE EthIpv4UdpRx ---------------------------
(***************************************************************************)
(* src/fpga/rtl/eth/eth_ipv4_udp_rx.sv: cuts the UDP payload words out of  *)
(* the frame beats of pcs_rx_block_decoder.  The bytes themselves are left *)
(* out (previous_frame_data, the alignment shifter); the only field read   *)
(* from them is the UDP length, given here as a number of payload words,   *)
(* with InvalidLength for every length the parser refuses.                 *)
(***************************************************************************)
EXTENDS Naturals

CONSTANT MaxMessages   \* 46 in the RTL (UDP length at most 1480)

WordsPerMessage == 4
InvalidLength == 0

(* 40 <= UDP length <= 1480 in steps of 32, as payload words.              *)
UdpLengths == {WordsPerMessage * n : n \in 1 .. MaxMessages} \cup {InvalidLength}

VARIABLES
  state, payload_alignment, header_bytes_discarded, payload_started,
  payload_words_remaining, udp_length_invalid,
  (* registered outputs *)
  udp_payload_start, udp_payload_end, udp_payload_valid, udp_packet_abort,
  parser_error

vars == << state, payload_alignment, header_bytes_discarded, payload_started,
           payload_words_remaining, udp_length_invalid, udp_payload_start,
           udp_payload_end, udp_payload_valid, udp_packet_abort, parser_error >>

Init ==
  /\ state = "IDLE"
  /\ payload_alignment = "START_0"
  /\ header_bytes_discarded = 0
  /\ payload_started = FALSE
  /\ payload_words_remaining = 0
  /\ udp_length_invalid = FALSE
  /\ udp_payload_start = FALSE
  /\ udp_payload_end = FALSE
  /\ udp_payload_valid = FALSE
  /\ udp_packet_abort = FALSE
  /\ parser_error = FALSE

-----------------------------------------------------------------------------
(* The length field lies in the beat with bytes 39-46 or 43-50.            *)
UdpLengthPresent ==
  header_bytes_discarded = IF payload_alignment = "START_0" THEN 39 ELSE 43

(* The beat that completes the payload: two payload and four FCS bytes, or *)
(* six payload and two FCS bytes.                                          *)
FinalPayloadInput(f) ==
  IF payload_alignment = "START_0" THEN f.end /\ f.keep = 6
                                   ELSE ~f.end /\ f.keep = 8

FullBeat(f) == f.keep = 8 /\ ~f.end

(* The registered output word; no word leaves with an abort.               *)
EmitWord(start, end) ==
  /\ udp_payload_valid' = TRUE
  /\ udp_payload_start' = start
  /\ udp_payload_end' = end
  /\ udp_packet_abort' = FALSE
  /\ parser_error' = FALSE

EmitNothing(abort, error) ==
  /\ udp_payload_valid' = FALSE
  /\ udp_payload_start' = FALSE
  /\ udp_payload_end' = FALSE
  /\ udp_packet_abort' = abort
  /\ parser_error' = error

-----------------------------------------------------------------------------
(* A physical abort overrides the state machine.                           *)
Abort(f) ==
  /\ f.abort
  /\ state' = "IDLE"
  /\ header_bytes_discarded' = 0
  /\ payload_started' = FALSE
  /\ payload_words_remaining' = 0
  /\ udp_length_invalid' = FALSE
  /\ UNCHANGED payload_alignment
  /\ EmitNothing(payload_started, FALSE)

(* No beat this cycle, or a beat outside any frame.                        *)
Wait(f) ==
  /\ ~f.abort
  /\ ~f.valid \/ (state = "IDLE" /\ ~f.start)
  /\ UNCHANGED << state, payload_alignment, header_bytes_discarded,
                  payload_started, payload_words_remaining, udp_length_invalid >>
  /\ EmitNothing(FALSE, FALSE)

StartFrame(f) ==
  /\ ~f.abort /\ f.valid /\ state = "IDLE" /\ f.start
  /\ state' = "HEADER"
  /\ payload_alignment' = IF f.keep = 7 THEN "START_0" ELSE "START_4"
  /\ header_bytes_discarded' = IF f.keep = 7 THEN 7 ELSE 3
  /\ payload_started' = FALSE
  /\ payload_words_remaining' = 0
  /\ udp_length_invalid' = FALSE
  /\ EmitNothing(FALSE, FALSE)

RejectHeader(f) ==
  /\ ~f.abort /\ f.valid /\ state = "HEADER" /\ ~FullBeat(f)
  /\ state' = IF f.end THEN "IDLE" ELSE "DRAIN"
  /\ header_bytes_discarded' = IF f.end THEN 0 ELSE header_bytes_discarded
  /\ payload_started' = FALSE
  /\ payload_words_remaining' = 0
  /\ UNCHANGED << payload_alignment, udp_length_invalid >>
  /\ EmitNothing(FALSE, TRUE)

(* words is the length field, read only in the beat that carries it.       *)
SkipHeader(f, words) ==
  /\ ~f.abort /\ f.valid /\ state = "HEADER" /\ FullBeat(f)
  /\ IF UdpLengthPresent
       THEN /\ payload_words_remaining' = words
            /\ udp_length_invalid' = (words = InvalidLength)
       ELSE UNCHANGED << payload_words_remaining, udp_length_invalid >>
  /\ IF header_bytes_discarded + 8 >= 49
       THEN header_bytes_discarded' = 49 /\ state' = "PAYLOAD"
       ELSE header_bytes_discarded' = header_bytes_discarded + 8 /\ UNCHANGED state
  /\ UNCHANGED << payload_alignment, payload_started >>
  /\ EmitNothing(FALSE, FALSE)

(* The frame ended too early, or its last word has the wrong size.         *)
BadPayload(f) ==
  \/ udp_length_invalid
  \/ payload_words_remaining > 1 /\ ~FullBeat(f)
  \/ payload_words_remaining = 1 /\ ~FinalPayloadInput(f)

RejectPayload(f) ==
  /\ ~f.abort /\ f.valid /\ state = "PAYLOAD" /\ BadPayload(f)
  /\ state' = IF f.end THEN "IDLE" ELSE "DRAIN"
  /\ payload_started' = FALSE
  /\ payload_words_remaining' =
       IF udp_length_invalid THEN payload_words_remaining ELSE 0
  /\ UNCHANGED << payload_alignment, header_bytes_discarded, udp_length_invalid >>
  /\ EmitNothing(payload_started, TRUE)

(* Mutant: payload_started is never set. *)
NextWordAlwaysFirst(f) ==
  /\ ~f.abort /\ f.valid /\ state = "PAYLOAD" /\ ~BadPayload(f)
  /\ payload_words_remaining # 1
  /\ payload_words_remaining' = payload_words_remaining - 1
  /\ UNCHANGED << state, payload_alignment, header_bytes_discarded,
                  payload_started, udp_length_invalid >>
  /\ EmitWord(~payload_started, FALSE)

NextWord(f) ==
  /\ ~f.abort /\ f.valid /\ state = "PAYLOAD" /\ ~BadPayload(f)
  /\ payload_words_remaining # 1
  /\ payload_words_remaining' = payload_words_remaining - 1
  /\ payload_started' = TRUE
  /\ UNCHANGED << state, payload_alignment, header_bytes_discarded, udp_length_invalid >>
  /\ EmitWord(~payload_started, FALSE)

(* Mutant: the tail is drained in both alignments. *)
LastWordDrains(f) ==
  /\ ~f.abort /\ f.valid /\ state = "PAYLOAD" /\ ~BadPayload(f)
  /\ payload_words_remaining = 1
  /\ payload_words_remaining' = 0
  /\ state' = "DRAIN"
  /\ payload_started' = (payload_alignment = "START_4")
  /\ UNCHANGED << payload_alignment, header_bytes_discarded, udp_length_invalid >>
  /\ EmitWord(~payload_started, TRUE)

(* START_0: this beat also holds the whole FCS.  START_4: two FCS bytes    *)
(* follow, and payload_started stays up while they are awaited.            *)
LastWord(f) ==
  /\ ~f.abort /\ f.valid /\ state = "PAYLOAD" /\ ~BadPayload(f)
  /\ payload_words_remaining = 1
  /\ payload_words_remaining' = 0
  /\ state' = IF payload_alignment = "START_0" THEN "IDLE" ELSE "DRAIN"
  /\ payload_started' = (payload_alignment = "START_4")
  /\ UNCHANGED << payload_alignment, header_bytes_discarded, udp_length_invalid >>
  /\ EmitWord(~payload_started, TRUE)

(* The tail of a START_4 packet must be exactly two FCS bytes.             *)
CheckTail(f) ==
  LET good == f.end /\ f.keep = 2
  IN  /\ ~f.abort /\ f.valid /\ state = "DRAIN" /\ payload_started
      /\ state' = IF f.end THEN "IDLE" ELSE "DRAIN"
      /\ header_bytes_discarded' = IF f.end THEN 0 ELSE header_bytes_discarded
      /\ payload_started' = FALSE
      /\ payload_words_remaining' = 0
      /\ UNCHANGED << payload_alignment, udp_length_invalid >>
      /\ EmitNothing(~good, ~good)

(* Rest of a frame that was already rejected.                              *)
Drain(f) ==
  /\ ~f.abort /\ f.valid /\ state = "DRAIN" /\ ~payload_started
  /\ IF f.end
       THEN state' = "IDLE" /\ header_bytes_discarded' = 0 /\ payload_words_remaining' = 0
       ELSE UNCHANGED << state, header_bytes_discarded, payload_words_remaining >>
  /\ UNCHANGED << payload_alignment, payload_started, udp_length_invalid >>
  /\ EmitNothing(FALSE, FALSE)

Clock(f, words) ==
  \/ Abort(f)
  \/ Wait(f)
  \/ StartFrame(f)
  \/ RejectHeader(f)
  \/ SkipHeader(f, words)
  \/ RejectPayload(f)
  \/ NextWord(f)
  \/ LastWord(f)
  \/ CheckTail(f)
  \/ Drain(f)

=============================================================================
