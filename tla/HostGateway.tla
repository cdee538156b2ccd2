---------------------------- MODULE HostGateway ----------------------------
(***************************************************************************)
(* src/host/src/gateway/host_gateway.cpp with the sequencer and the UDP    *)
(* batcher it drives.  An ITCH message is reduced to what it makes the     *)
(* gateway send:                                                           *)
(*   "quiet"   nothing: a type not supported, no change at the top of book *)
(*   "status"  a SESSION_STATUS or a SYMBOL_STATUS                         *)
(*   "tob"     a TOB_UPDATE                                                *)
(*   "intent"  a TOB_UPDATE, then an ORDER_INTENT                          *)
(*   "bad"     a failure to decode it or to apply it to the book           *)
(* A handler works on the gateway as a record and may fail at any of its   *)
(* sends: failing is the number of the send that fails, 0 when none does.  *)
(***************************************************************************)
EXTENDS Naturals, Sequences

CONSTANTS
  MaxMessageCount,        \* 46 in the code
  MaxTobBatchDelay,       \* MaxTobBatchDelayNs
  PendingIntentCapacity,  \* 1024 in the code
  SequenceModulus,        \* 2^32 in the code
  StartupCommands         \* messages sent by sendStartupConfiguration

VARIABLE gateway

Init ==
  gateway = [batch |-> << >>, oldestMessageTime |-> 0,
             nextSequenceNumber |-> 1 + StartupCommands,
             pending |-> << >>, status |-> "Ok", sent |-> << >>, failing |-> 0]

Fails(g, status) == [g EXCEPT !.status = status]

-----------------------------------------------------------------------------
(* The socket does not take the datagram, in spite of the retries, or not  *)
(* all of it.                                                              *)
SendFails(g) == g.failing = Len(g.sent) + 1

(* UdpBatcher                                                              *)
SendBatch(g) ==
  [g EXCEPT !.sent = Append(@, g.batch), !.batch = << >>, !.oldestMessageTime = 0]

Flush(g) ==
  IF g.batch = << >> THEN g
  ELSE IF SendFails(g) THEN Fails(g, "DownstreamSendFailed") ELSE SendBatch(g)

Expired(g, now) ==
  /\ g.batch # << >> /\ MaxTobBatchDelay # 0
  /\ now - g.oldestMessageTime >= MaxTobBatchDelay

FlushExpired(g, now) == IF Expired(g, now) THEN Flush(g) ELSE g

(* Mutant: an ORDER_INTENT waits in the batch like a TOB_UPDATE. *)
FlushImmediatelyStatus(kind) == kind = "status"

FlushImmediately(kind) == kind \in {"status", "intent"}

Held(g, message, now) ==
  [g EXCEPT !.batch = Append(@, message),
            !.oldestMessageTime = IF g.batch = << >> THEN now ELSE @]

AppendToBatch(g, message, now) ==
  LET fresh == FlushExpired(g, now)
      room  == IF fresh.status = "Ok" /\ Len(fresh.batch) = MaxMessageCount
                 THEN Flush(fresh) ELSE fresh
      held  == Held(room, message, now)
      leave == Len(held.batch) = MaxMessageCount \/ FlushImmediately(message.kind)
  IN  IF room.status # "Ok" THEN room
      ELSE IF leave THEN Flush(held) ELSE held

-----------------------------------------------------------------------------
(* OutboundSequencer and sendGeneratedMessage: 0 is what the counter wraps *)
(* to, and it stays there.                                                 *)
SendGeneratedMessage(g, kind, now) ==
  IF g.nextSequenceNumber = 0 THEN Fails(g, "SequenceNumberExhausted")
  ELSE AppendToBatch([g EXCEPT !.nextSequenceNumber = (@ + 1) % SequenceModulus],
                     [kind |-> kind, number |-> g.nextSequenceNumber], now)

(* Mutant: the pending intent takes the number of the next message. *)
SendOrderIntentNextNumber(g, now) ==
  LET sent == SendGeneratedMessage(g, "intent", now)
  IN  IF Len(g.pending) = PendingIntentCapacity THEN Fails(g, "PendingIntentQueueFull")
      ELSE IF sent.status # "Ok" THEN sent
      ELSE [sent EXCEPT !.pending = Append(@, sent.nextSequenceNumber)]

SendOrderIntent(g, now) ==
  LET sent == SendGeneratedMessage(g, "intent", now)
  IN  IF Len(g.pending) = PendingIntentCapacity THEN Fails(g, "PendingIntentQueueFull")
      ELSE IF sent.status # "Ok" THEN sent
      ELSE [sent EXCEPT !.pending = Append(@, g.nextSequenceNumber)]

ProcessRawMessage(g, kind, now) ==
  CASE kind = "quiet"  -> g
    [] kind = "bad"    -> Fails(g, "ProcessingFailed")
    [] kind \in {"status", "tob"} -> SendGeneratedMessage(g, kind, now)
    [] kind = "intent" ->
         LET updated == SendGeneratedMessage(g, "tob", now)
         IN  IF updated.status = "Ok" THEN SendOrderIntent(updated, now) ELSE updated

-----------------------------------------------------------------------------
ProcessOrderDecision(g, number) ==
  IF g.pending = << >> \/ Head(g.pending) # number
    THEN Fails(g, "UnexpectedOrderDecision")
    ELSE [g EXCEPT !.pending = Tail(@)]

(* service: packets is << >>, or the one packet that was received.         *)
Service(g, packets, now) ==
  LET answered == IF packets = << >> THEN g ELSE ProcessOrderDecision(g, Head(packets))
  IN  IF answered.status = "Ok" THEN FlushExpired(answered, now) ELSE answered

-----------------------------------------------------------------------------
(* A handler is done: the gateway keeps its state and its status.          *)
Settled(g) == [g EXCEPT !.sent = << >>, !.failing = 0]

=============================================================================
