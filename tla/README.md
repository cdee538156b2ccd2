# Verification of the FPGA market gateway

This directory holds TLA+ specifications of the FPGA market gateway: the
receive, risk and response logic of `src/fpga/rtl`, and the replay threads, ring
buffer, order book, decoders and gateway of `src/host`. TLC model-checks them on
small instances. For the whole FPGA (receive link, receive path from the block
decoder to the packet verdict and the answer, symbol store and risk logic,
response path), for startup and recovery over an unreliable link, and for the
host's ring buffer, replay threads and gateway, TLAPS proves the safety
properties for every value of the constants.

## The system

A host program replays an ITCH file, keeps order books and sends configuration,
market state and order intents as 32-byte messages, up to 46 in a UDP payload,
over 10GBASE-R to the FPGA. The FPGA validates the stream, keeps state per
symbol, decides every order intent, and starts to send the decision before the
FCS of the frame that asked for it is known: an order of a bad frame gets a
response with a deliberately wrong FCS.

```
 GT gearbox -> block lock -> descrambler -> block decoder -+-> FCS checker -----------+
                                                           +-> UDP parser             |
                                                                 -> assembler         v
                                                                 -> decoder -> packet controller
                                                                      |         ^  commit / discard
                                                                      |         v
                                                                      +--> sequence tracker
                                                                      +--> state store, market hours
                                                                      +--> risk engine -> CDC FIFO
                                                                                           |
                        GT gearbox <- transmit PCS <- frame generator <--------------------+
```

| Component (source) | State | Operations | What makes it correct |
|---|---|---|---|
| `pcs_rx_block_lock` | state, counters, lock, slip | judge a header, slip, wait, acquire, monitor | lock only where headers are legal; found from any boundary; kept through few errors |
| `pcs_rx_descrambler` | LFSR, sync flag, output | synchronise, descramble | never forwards a block descrambled with a foreign LFSR state |
| `pcs_rx_block_decoder` | `inside_frame` | open, continue, close, abort a frame | every frame is opened once and closed or aborted once |
| `eth_rx_fcs_checker` | pipe register, CRC, verdict | one verdict per frame end | verdict belongs to the frame that just ended |
| `eth_ipv4_udp_rx` | parser state, alignment, counters, output word | skip header, emit words, abort, drain | whole payloads of accepted frames only, abort otherwise |
| `internal_message_assembler` | word index, first-message flag | collect 4 words | packet start and end mark the right messages |
| `internal_protocol_decoder` | output register | validate, emit, abort | malformed messages spoil their packet; malformed orders still get an answer |
| `rx_packet_controller` | packet pending, verdict collection | open, collect, resolve | one commit or discard per packet, and the right one |
| `downstream_sequence_tracker` | verified and speculative number, recovery flag, `stream_fault` | advance, verify, roll back, fault, recover | the stream is counted exactly; a fault falls only by an isolated full reset |
| `symbol_state_store` | eight memories, sweep registers, lookup register | write, sweep, look up | no state survives a full reset; no lookup of half-cleared state |
| `market_hours_tracker` | one flag | set by session status, cleared by full reset | orders only in market hours |
| `order_risk_engine` | captured order, decision | capture, decide | ACCEPT only if every rule holds; else the first reason of the documented order |
| `rx_to_tx_cdc_fifo` | FIFO | write START or DECISION, read | one event per cycle; order kept |
| `order_decision_frame_generator` | beat index, CRC | start, send, read decision at the last beat | a frame carries its own decision, in time |
| `pcs_tx_channel` | frame flag, two-block buffer, gearbox sequence, gap flag | encode, buffer, transmit, pause | no block lost or inserted in a frame; a gap between frames |
| host: `SpscRingBuffer`, replay threads | ring indexes, flags | push, pop, complete, stop | nothing lost at the end of the file; termination |
| host: `HostGateway`, `UdpBatcher`, sequencer | pending ring, batch, next number | send, flush, match a decision | numbers without gaps; decisions matched to intents |
| host: `FixedCapacityHashMap` | buckets, nodes, free list, size | find, insert, update, erase | every node is on one chain or on the free list; a key is found on its bucket's chain |
| host: `OrderBook` | order directory, per side an array of levels and a map of their places | add, reduce, replace, top | array is a heap, map and array agree, the top is the best price of the orders that rest |
| host: `CommandSource`, emitters, generator | market open; per symbol trading state, count, side | configure, observe, order intent, convert | what the host believes is what the FPGA was told; every message is valid |
| host: ITCH decoder, file reader | none to speak of | frame, check, extract | a bad file or message stops the run |
| host: sockets | descriptors | send, receive | a failure stops the run |

What is hard in this code: decoding and integrity of a frame end at different
times and in either order; sequence numbers, symbol state and responses run
ahead of the frame's FCS; reset sweeps take 16384 cycles during which messages
keep arriving; a response frame is on the wire before its content exists; two
gearboxes of unrelated phase pause one cycle in 33; and losses of lock and of
the link interrupt any of it. In the host two threads share a ring and a status
without locks; one set of price levels is kept in two structures that every
removal changes; the FPGA is configured and synchronised without any
acknowledgement; and each side judges an order by its own copy of the state.

## Modules

Each component module declares the registers of one RTL module under their own
names as variables, `Init` for the reset values, one action per branch of the
clocked process, and `Clock(inputs)`, their disjunction: one clock edge. The
composition modules take the components with INSTANCE and clock all of them in
one step, with the wiring of `xem8320_top.sv` as operators, so that every value
a component reads is the one registered before the edge, as in the RTL.

| Module | Models | Role |
|---|---|---|
| `RxPacketController`, `DownstreamSequenceTracker` | the RTL of the same name | components |
| `PacketGuard` | both, clocked together, behind any front end that keeps `FrontEndContract` | checked and proved |
| `StreamGuard` | what the pair promises, packet by packet | abstract specification |
| `PacketGuard_proofs` | theorems | proofs |
| `PcsRxBlockDecoder`, `EthRxFcsChecker`, `EthIpv4UdpRx`, `InternalMessageAssembler`, `InternalProtocolDecoder` | the RTL of the same name | components |
| `RxPath` | all of these with `PacketGuard` and the risk engine, the host's frames and the wire | checked and proved |
| `RxPath_proofs` | theorems | proofs |
| `SymbolStateStore`, `MarketHoursTracker`, `OrderRiskEngine` | the RTL of the same name | components |
| `RiskState` | the three together under decoded messages | checked and proved |
| `RiskPolicy` | what an order's answer must be | abstract specification |
| `RiskState_proofs` | theorems | proofs |
| `RxToTxCdcFifo`, `OrderDecisionFrameGenerator`, `PcsTxChannel` | the RTL of the same name | components |
| `ResponsePath` | the three together, with the timing of orders on the line | checked and proved |
| `ResponsePath_proofs` | theorems | proofs |
| `PcsRxBlockLock`, `PcsRxDescrambler` | the RTL of the same name | components |
| `RxLink` | the two behind the GT gearbox | checked and proved |
| `RxLink_proofs` | theorems | proofs |
| `SpscRingBuffer` | `spsc_ringbuffer.hpp` | component, checked and proved |
| `MessageQueue` | what the ring promises its threads | abstract specification |
| `SpscRingBuffer_proofs` | theorems | proofs |
| `HostGateway` | batcher, sequencer, pending intents and service of `host_gateway.cpp`, as functions of the gateway's state | component |
| `ReplayRun` | the two threads of `main.cpp` with ring, gateway, signals and a link to an FPGA that answers | checked and proved |
| `ReplayRun_proofs` | theorems, those about `HostGateway` among them | proofs |
| `FixedCapacityHashMap` | the hash map with its chains and its free list | component |
| `BookSide`, `OrderBook` | `OrderBook.cpp`: one side with its heap and, as a function, its map; instruments and order directory | components |
| `PriceLevels` | one side under the orders of a feed | checked |
| `ItchDecoder`, `CommandSource` | `decoder.cpp` and the framing of the file; `command_source.cpp` with the emitters and `generator.cpp` | components |
| `MarketData` | pre-scan, startup, dispatch and book update of the host, with the FPGA's store, session tracker and risk engine | checked |
| `Recovery` | runs of the host over a link that loses and damages, with `StreamGuard` for the FPGA | checked and proved |
| `Recovery_proofs` | theorems | proofs |

A specification whose constants are numbers has a `.cfg` of its own name; the MC
modules (`MCRiskState`, `MCReplayRun`, `MCMarketData`) define the values that a
`.cfg` cannot write.

The modules of book, directory, decoder, command source and generator are
sequential code: operators from a record to the record after the call, with the
status it returns. A failing call returns what it has changed before it failed.
`OrderBook` keeps its order directory in `FixedCapacityHashMap`, with chains and
free list; `BookSide` keeps the places of its levels in what the same class
promises, a function: `DirectoryHoldsRestingOrders` checks that the chains keep
that promise.

`MarketData` lets the host wait until the FPGA has taken what was sent. The host
reads nothing back, so this changes no decision of it; it leaves out loss, which
`Recovery` has. There the FPGA is `StreamGuard`, and the store is reduced to
`held`: which run last cleared it, up to which number it holds that run's
messages, and whether it holds nothing else.

`SpscRingBuffer` and `ReplayRun` are not clocked: their actions are the steps of
two threads. A step makes at most one access to a variable the other thread
writes, except that storing an item and publishing it are one step, as a
released store makes them look. Loads may return old values: `writeSeen`,
`readSeen` and `statusSeen` are what a thread can see of the other's stores, they catch up in steps of their own,
and an acquiring load of `replayStatus` raises `writeSeen` to what was pushed
before the store it reads. Copying an item in or out of a slot takes from one
step to a later one, so that overlapping accesses are states of the model.

Abstractions. A payload is the sequence of its messages, and a message a record
of decoded fields; words of a frame are counted, not stored. The CRC is a
verdict that is never good for a damaged frame. Scrambled bits are replaced by
"the descrambler state is that of the line". 32-bit words become small
integers; the weights and widths that matter (`SeqModulus`, `WordModulus`, the
33-bit price sums, the 64-bit notional, the 64-bit shares of a level against the
32-bit word of a message) are kept. The function from a key to its bucket is a
constant. Block RAM powers up with arbitrary contents: every entry is any
member of `Leftovers`, which the proofs leave open and the runs set to a clear
entry and one that an earlier run has written.

## Runs

| Run | Shows | Bounds |
|---|---|---|
| `packet_guard` | see theorems; the same properties on a small instance, plus the refinement of `StreamGuard` | `SeqModulus` 3, so that numbers wrap in every packet; 2 messages in a packet: first and last, equal and different |
| `rx_path` | a commit is an intact frame with exactly the host's messages; an order accepted with a good FCS is committed and counted; a committed order is not stomped; a clean line loses nothing; the front end keeps the contract of `PacketGuard`; order starts and decisions are never written at once | 3 frames of 1 or 2 messages in both START alignments, back to back or apart, at most one damage per frame (a block, the length, a message, the FCS); 1 clock without a block between blocks, as the gearbox makes them; `SeqModulus` 16, more than the messages of a behaviour |
| `risk_state` | no state older than a full reset survives it; every answer is the policy's; a sweep ends | 3 addresses: a traded one, the last one and one more, and an id out of range; words modulo 4; one loss of the link at any time; every address powers up clear or left over |
| `response_path` | the decision sent is the frame's own; answers in order; blocks of a frame are contiguous and frames are apart; every order is answered | 3 orders as dense as the line allows, all phases of two gearboxes with period 13, crossing delays of 2 and 4 cycles, FIFO depth 16 |
| `rx_link` | payload forwarded under a stable lock is right; a bad line loses lock, few errors do not; lock is found | 3 boundaries, windows of 4 and 6 headers with limit 3 in place of 64, 64 and 16; 6 line errors; one reset |
| `ring_buffer` | no slot is written while it is read; the ring implements `MessageQueue` | 4 slots, indices modulo 8, so that both wrap; 2 different items |
| `replay_run` | exit code 0 only after every message of the file was processed in order, every batch sent and every order answered; numbers without a gap and an order at the end of its datagram; decisions never unexpected when nothing was lost; a run ends by itself unless the link has lost something, and by an interrupt in any case | 5 files: 3 orders in a row (2 may be pending), 3 updates (a full batch, more than the 2 ring slots), a timestamp that goes back, a message that fails, one too short; 6 numbers after the startup; any send, read or receive may fail; an interrupt at any time |
| `price_levels` | the array is a heap with the best price on top; map and array agree with the orders; only a full side refuses | 7 prices, 6 levels, orders of 1 and 2 shares, 7 shares at rest |
| `market_data` | the directory holds the orders that rest; the FPGA has their best quotes; host and FPGA agree on session, trading state and limits; only the notional refuses an order; what is sent has a valid format, but for trading actions of no instrument; the host stops exactly when the feed contradicts itself, a table is full or a quote has more shares than a word | 4 addresses with 2 tracked symbols, 3 order references in 2 nodes and 2 buckets (the two that share a bucket are interchangeable, so the run uses their symmetry), 2 levels in a side, words modulo 4; 7 kinds of new orders, valid and not, two of which at one price overflow a word; trading actions for a traded and an untraded symbol, for 0 and for one beyond the memory; 9 files for the pre-scan; a store that is clear or left over by an earlier run; one session |
| `recovery` | an order with a good answer was decided on what its run has sent; the two resets of the startup synchronise the stream from every state | 3 runs of the host, 5 numbers, datagrams of 1 or 2 messages, 2 losses, damages or resets of the FPGA |

The bounds of `rx_path` let a frame be damaged, discarded and faulted, the next
one be refused or recover the stream, and the third one follow the recovery;
with two messages, a packet has a first and a last one, and the damaged message
may be either. In `response_path` the period of 13 puts a pause into every
position of the 11-beat frame, and the third order meets the pauses the first
two have shifted. Six levels are the fewest in which the last level of the heap
may be better than the parent of the place it moves to, so that a removal has to
sift up. In `market_data` three references for two nodes put keys one behind the
other in a bucket, reuse nodes and fill the map. In `recovery` the first run
finds a fresh FPGA, the second one what the first has left, and the third one
what two runs and a disturbance of each have left.

Two more runs show where the code does what a comment or document excludes.

| Run | What happens |
|---|---|
| `missed_abort` | `rx_packet_controller.sv` collects events only from the cycle after `packet_start`; a frame abort in the same cycle is lost, the packet stays pending and the next packet is merged with it. `CommitMeansIntactFrame` still holds: the sequence check and the next verdict catch it. |
| `partial_reset` | a full `RESET_ALL` during the sweep of a partial one is dropped by the store while the tracker takes it as recovery |

Read off the code, without a run of their own:

- Of two order intents in a payload only the one that is not last is malformed
  by position, and the last one can be accepted (`internal_protocol_v0.md:466`);
  the host sends no such payload (`StreamIsSequenced`).
- A `RESET_ALL` among other messages is executed and committed
  (`internal_protocol_v0.md:469` calls it a protocol error).
- A discarded packet's writes stay in the store, which
  `fpga_architecture_v0.md:98` says and the comment at
  `rx_packet_controller.sv:18` does not.
- A symbol id of `0x4000` or more is not a protocol error of the decoder
  (`internal_protocol_v0.md:88`); the store ignores such a message.
- The host checks the stock locates of `R` messages (`main.cpp:135`) and of
  orders, but makes a `SYMBOL_STATUS` of every `H` message with its locate as it
  is (`host_gateway.cpp:68`, `generator.cpp:128`), also one that
  `internal_protocol_v0.md:85` excludes. `market_data` has such messages: for
  locate 0 the decoder reports a protocol error, the stream faults, and every
  later order is rejected with `STREAM_FAULT`; nothing else the host sends is
  refused or out of range (`SentMessagesAreValid`, `OrdersAreAccepted`).
- After a lost datagram the FPGA rejects every order with `STREAM_FAULT` in a
  frame with a good FCS; the host then meets an answer that is not the next one
  it waits for and stops with `UnexpectedOrderDecision`.
- Order frames back to back can arrive slightly faster than responses leave, so
  that a long enough burst would fill the FIFO. The host makes an order of every
  1000th eligible update by default and cannot send such a burst.
- When the last order or its decision is lost, `main.cpp:429` waits until the
  program is interrupted (`RunEnds` is stated for a run without loss).
- If the FPGA expects number k + 1 from an earlier run and exactly the first k
  messages of the new one are lost, the rest is in sequence and is decided on
  the old state. `OrdersSeeWhatWasSent` is therefore stated for orders of which
  a reset of the same run has reached the store.

What the passing runs assume about the surroundings: the CRC finds every damage;
no partial `RESET_ALL` is sent (`PartialResets` in `risk_state`; the host sends
none); the millisecond of sleep outlasts a sweep; and the feed of `market_data`
names an order's own stock locate in later messages about it and brings the
events of the day in order. Beyond that, orders may contradict each other, be for
any instrument and overflow any table, trading actions may name any stock locate,
messages may be malformed, and the pre-scan may find anything. The
host's batching is not assumed: `RxPath` sends payloads as `UdpBatcher` makes
them. A file with an empty message is refused by the pre-scan and never gets to
`processRawMessage`.

A type invariant is checked where it is proved or where its bounds say something
about the code: in `packet_guard` and in `response_path`.

## Fairness

Safety runs assume none. `ResponsePath` and `RxLink` assume weak fairness of the
clock edge: both clocks run for ever. In `RiskState` only the idle clock edge is
fair, which is the least a running clock gives: the sweep ends whether or not
messages arrive. `RxLink` bounds line errors and the length of a run of headers
that look legal at a wrong boundary (`MaxLegalRun`, less than the run that
locks), because an adversarial line can hold any scrambler receiver out of lock.

`ReplayRun` assumes that each thread keeps running (they are pinned to processors
of their own), that the clock advances, that a store is seen some time, and that
what is not lost arrives. Its clock starts with the replay, because nothing
depends on it before, and stops at `MaxTime`, when every message is due.

## Proofs

`PacketGuard_proofs` proves, for every `SeqModulus > 1` and every
`MaxMessages > 0`:

- `TypeCorrect`, `VerdictCorrect`, `SpeculationCorrect`: the three invariants of
  the run `packet_guard`;
- `RecoveryOnly`: `STREAM_FAULT` falls only by an intact packet with a lone full
  `RESET_ALL`, and the stream goes on at the number after it;
- `Refinement`: the pair implements `StreamGuard`.

The argument is one induction in three layers. `TypeOK` is inductive.
`VerdictMatchesPacket` is inductive given `TypeOK` and says that the
controller's flags describe the packet the front end delivered (`packet_log`,
`packet_invalid`, history variables). `SpeculationMatchesPacket` needs both: the
speculative register of a healthy stream is the number after the last message
of the open packet, and the recovery flag stands for an intact lone reset. A
commit happens alone (`CommitIsAlone`): by the contract no message is decoded
and no verdict arrives in that cycle, so the tracker's `else if` chain drops
nothing. With the three invariants every clock edge is a step or a stutter of
`StreamGuard` (`StepRefines`). The one assumption on the environment is
`FrontEndContract`, conjoined to `Next`; `RxPath_proofs` proves that the real
front end keeps it.

`RxPath_proofs` proves, for frames of up to any number of messages, any number of
frames, any length of pauses between blocks, and whatever the wire does to a
frame:

- `FrontEndCorrect`: the front end keeps `FrontEndContract`;
- `ImplementsPacketGuard`, and with the theorems about the guard `GuardHolds`,
  `FaultHolds` and `StreamHolds`: every clock edge of the receive path is a step
  of `PacketGuard`, so its invariants hold here, a fault falls only by recovery,
  and the receive path implements `StreamGuard`;
- `CommitCorrect`: a committed packet is an intact frame of the host and exactly
  its messages (`CommitMeansIntactFrame`);
- `AcceptedCorrect`: an ACCEPT with a good FCS belongs to a packet that commits
  (`AcceptedOrderIsCommitted`);
- `NeverStomped`: the response of a committed packet has a good FCS
  (`CommittedOrderIsNotStomped`), under the hypothesis `MaxGaps <= 1`: the 64b/66b
  gearbox leaves out one cycle in 33, never two in a row. With `MaxGaps = 2` TLC
  finds the property violated: the verdict then comes after the decision was
  written, and a committed order is answered with a stomped frame;
- `CleanCorrect`: an undisturbed line loses nothing (`CleanLineDelivers`);
- `ResponseWritesApart`: the FIFO's write port is used once in a cycle
  (`OneResponseWrite`).

None of these is inductive; the invariants stand on one another in layers.

1. `TheLine` is about the front end alone. The parser's state fixes its counters
   (`FrameState`) and the strobes that may be up (`StrobeState`); the assembler's
   word index and the words still to come are a multiple of four (`WordState`), so
   that it stands at a message boundary when the next payload starts, also after
   an abort; the numbers of a behaviour stay below `SeqModulus` (`NumberState`).
2. `PacketInv` puts the controller on top of it: a pending packet has the end of
   its decoding and its verdict behind it or on their way (`DecodeEnds`,
   `VerdictComes`), a verdict that comes before the end of decoding is an abort
   (`AbortedSoon`), and a packet is resolved before the next payload starts
   (`PulseAtEnd`, from the 42 header bytes between them). `FreshLog`, `RoomLeft` and
   `NothingAfterEnd` then give the contract. This covers the divergence that
   `missed_abort` shows: a packet whose abort was lost has no message until the next
   one is merged with it.
3. `SyncInv` compares the parser with the wire. On an undamaged frame the parser
   is at the block the host sends (`InStep`), all messages but the last two stages
   are in the packet when the frame ends (`FrameEnded`), and a good FCS result,
   which only an undamaged frame has, is about the packet that is open
   (`GoodVerdict`); a commit needs that result.
4. `OrdersInv` follows numbers and decisions. `CountedInv`: the verified number does
   not pass the last frame resolved. `SoundInv`: on an undamaged frame only a number
   ahead of the stream can fail the packet, and that is remembered in
   `stream_fault`, so that a packet that is discarded with a good FCS has faulted
   the stream before an answer leaves (`CapturedInv`). `OrderInv` carries an order
   from its decoding through lookup and decision to the answer (`OrderOpen`,
   `OrderCommitted`, `OrderLost`) and needs `Headroom`: in those three cycles the
   parser cannot come as far as the next payload.
5. `StompInv`: when an order is decoded, its verdict is at most one pause away or
   its packet will fail (`WillFail`), and `EndWaits` says that the pause is used up.
6. `CleanInv`: while the line is undisturbed nothing has failed (`NoFaultYet`), every
   frame is taken to its end (`FramesFollow`), the tracker counts what arrives
   (`NumbersFollow`), and the CRC has skipped exactly the preamble when the first
   covered byte comes (`SkipInv`), so that every verdict is good
   (`VerdictsFollow`).

The assumption on the constants says that the numbers of one behaviour do not wrap
(`SeqModulus` 2^32 in the RTL, `FrameLimit` frames); the wrap is covered by
`PacketGuard_proofs`, which has no such bound.

`Recovery_proofs` proves, for every `SeqModulus > 3` and every `MaxMessages > 0`
and without a bound on runs and disturbances:

- `OrdersCorrect`: an order with a good answer was decided on exactly what its
  run has sent before it (`OrdersSeeWhatWasSent`);
- `StartupCorrect`: the two resets synchronise the stream from every state
  (`StartupSynchronises`).

Neither is inductive. An order is judged long after the reset that cleared the
store, so the invariant must say what every message in between keeps: `InStep`,
in a stream that is trusted the store is where the stream is. It holds because
a number out of sequence spoils the packet, hence every commit, which is what
restores trust, has the store in step. `ResetHeld` carries the reset of a packet
to its commit, when a faulted stream becomes trusted again. `StartedUp` and
`StartingUp` follow the stream through the two resets between datagrams and in
one; the first reset may be refused, but then it leaves a fault or the next
number expected, and the second one ends both. `Idle`, `Fits` and `Decoded` say
that an undamaged packet is the beginning of the datagram sent last. The sum of
the two halves: `PacketGuard_proofs` proves that the RTL implements
`StreamGuard`, `RxPath_proofs` that the front end lets it, and these theorems are
about the host and the link with it.

`SpscRingBuffer_proofs` proves, for every capacity of at least 2 and every index
width that is a larger multiple of it (`Capacity` a power of two below 2^64 in
the code):

- `TypeCorrect`, and `SlotsExclusive`, the invariant of the run `ring_buffer`;
- `Refinement`: the ring implements `MessageQueue`.

The invariant is that the six indices stand in one order around the ring
(`InOrder`): cached read index, read index the producer can see, read index,
cached write index, write index the consumer can see, write index; the way from
the first to the last is the sum of the ways between neighbours and at most
`Capacity`, less than it during a push. `NoSlotRace` alone is not inductive: it
needs that a cached index is only ever behind the real one. Each action moves one
index over one step, past no other (`InvStep`). The lemmas on `Distance` and
`Slot` reduce the arithmetic modulo `IndexModulus` and `Capacity` to case
distinctions once; a full ring and an empty one stay apart because the index
width is at least twice the capacity. The stores become visible in any order with
other steps but in their own order, which `WriteBecomesVisible` and
`ReadBecomesVisible` state and the proof uses.

`RiskState_proofs` proves, for every number of symbols and width of a word, every
set of messages, whatever the memories hold at power-up, and for any number of
losses of the link:

- `NothingStale`: once no sweep runs, nothing is stored that is older than the
  last full reset (`NoStaleState`), under the hypothesis `FullResetsOnly`, that
  the host sends no partial reset. The run `partial_reset` shows that the
  hypothesis is needed: the store ignores a reset during a sweep, and a partial
  sweep clears some groups only;
- `Refinement`: store, session tracker and risk engine implement `RiskPolicy`.

The invariant is `SweptIsClear`: behind the sweep's address everything is clear.
It is needed because what is behind is never looked at again, and because a
write is dropped while the sweep runs. With it the last step of a sweep leaves
nothing of the cleared groups (`StaleStep`), and a sweep is invisible to the
policy until it ends. `StaleIsStored` adds that a sweep always clears all groups.
`ClearTwice` and `ClearAll` are the algebra of the clear masks. `Refinement` does
not need `FullResetsOnly`: it holds for partial resets too.

`RxLink_proofs` proves, for windows, waits and gearbox delays of every length,
every number of block boundaries and any number of line errors and resets:

- `PayloadsAreRight`: a block that is passed on was descrambled with the state of
  the line (`ForwardedPayloadIsRight`);
- `BadLineIsNoticed`: lock does not outlive a bad line (`BadLineLosesLock`);
- `LockIsKept`: lock is given up only when a window had `InvalidLimit` illegal
  headers (`FewErrorsKeepLock`).

`Alignment` says that under lock the receiver is at the right boundary. It is
not inductive without the order of a slip: a slip is done before headers are
judged again, and a wrong boundary has shown a legal header for each one the
acquisition has counted, so it is left before the count is full (`MaxLegalRun`).
`WindowCounted` says what `invalid_count` counts, the illegal headers at the end
of the history; `RunIsCounted` says that a run of illegal headers that reaches
back into the window before did not use up that window, which is why the worst
run under lock is shorter than two limits. The assumptions are `InvalidLimit` at
most the length of the window and a slip that takes effect within the wait.

`ReplayRun_proofs` proves, for every set of files, capacity of ring, batch and
pending queue and every width of the sequence number, with failures of sends and
receives, losses and interrupts at any time:

- `CleanExits`: exit code 0 means that the whole file was processed in order,
  nothing is left to send, and every order got its decision, in order
  (`CleanExitIsComplete`);
- `Sequencing`: the numbers sent have no gap and no repetition, and an order ends
  its datagram, whichever handler failed half way (`StreamIsSequenced`);
- `NoSurprise`: as long as nothing is lost no decision is unexpected
  (`DecisionsExpected`).

The invariant has a part for each place the state is in: `RingInv` and `Contents`
(the ring holds the positions pushed and not popped, and the copies of the
indices are in order), `Pushed` (how far the replay thread is), `StatusInv` (a
final status is the last one, and `Complete` publishes all positions: the reason
why a host that has seen it and then finds the ring empty has seen everything),
`HostInv` (why the host thread is where it is; the exit code follows from it) and
`GatewayInv`: the batch and the next number continue the stream (`Batched`), the
orders sent are those decided followed by those pending (`Answerable`), and
without losses the decisions on their way are the next ones pending (`Expected`).
The last one needs the link as well: which orders the FPGA has got (`CarriedTo`)
and that their answers come in order. `FilesAssumption` says that a file has
fewer messages than the ring has index values, so that indices do not wrap here;
a file of 2^64 messages does not exist, and `SpscRingBuffer_proofs` covers the
wrap.

`ResponsePath_proofs` proves, for every depth of the FIFO, every period of the
two gearboxes of at least ten cycles and all their phases, every density of orders
that leaves room for a decision (`TimingAssumption`), and any number of orders:

- `LineCorrect`: a frame leaves the transmit PCS as START, data, END without a
  hole, and two idle blocks stand before the next START (`LineWellFormed`);
- `TypeCorrect`: two entries are enough for the buffer of the PCS (`TypeOK`);
- `AnswersCorrect`: as long as the FIFO is not full, a frame carries the decision
  of its own order and the answers come in order (`PayloadIsOwnDecision`,
  `AnswersInOrder`);
- `BurstsAnswered`: both without that condition, if no more orders come than the
  FIFO has room for at once (`2 * OrderLimit < FifoDepth`: seven in the RTL,
  whatever their spacing).

`LineInv` compares generator, encoder, buffer and line: the encoder is in a frame
as long as the generator is (`FrameInStep`), the buffer goes on where the line is
(`BufferContinuesLine`), and the pending gap is the one behind the latest END
(`GapIsCounted`). The second buffer entry is there only since a pause in this
frame, and a period of ten cycles puts at most one pause where a frame of eleven
beats needs the buffer. `AnswerInv` is about numbers and time. The events in the
FIFO are consecutive (`Holds`): START n is event 2n - 1, DECISION n is event 2n,
and the parity tells which the generator waits for. In time (`InTime`, `Due`) a
DECISION becomes visible at most six cycles after its START: two for the risk
engine and four for the skew of the crossing. The generator takes the START at
beat 1 and needs the DECISION when beat 6 has passed; it cannot wait, so that
this bound is what makes the payload right, and a skew of five cycles breaks it.
The condition on the FIFO cannot be dropped: a full FIFO loses an event silently,
and the generator then waits for a DECISION or takes that of another order.

Only model-checked:

- the order book and the directory (`PriceLevels`, `MarketData`): sifts and chains
  are recursive, so that each property is an induction over data, which the
  installed provers cannot do;
- the other properties of `MarketData`, on what host and FPGA believe, which are
  stated about that book and the recursive pre-scan;
- liveness, which is out of TLAPS's reach: `ClearingEnds`, `EveryOrderAnswered`,
  `LockIsFound` and `RunEnds`.

## Not modelled, and why

- GT transceiver, clock buffers, LEDs, the idle transmit channel: vendor code
  or wiring; what the gearboxes do is the environment of `RxLink` and
  `ResponsePath`.
- CRC, scrambler and checksum arithmetic: pure functions, replaced by verdicts.
- Field contents without effect on control: timestamps, configuration ids, MAC
  and IP constants.
- Reset of one clock domain while the other runs (`ResponsePath`): what the
  vendor's FIFO does then is not in the sources.
- `RxLink` in front of `RxPath`: the descrambler's state and the cycles of a frame
  together are out of TLC's reach; `RxPath` has the aborted frames that a lost
  lock makes.
- Host: arguments, thread affinity, and the system calls of the sockets with
  their retries, which are outcomes that may fail; the refusals of
  `order_decision_decoder.cpp`, because nothing but decisions is sent to the
  host; `symbol_directory.cpp` and `trading_status_table.cpp`, which the program
  does not use.

## Plan

1. (done) packet verdict and sequence: `PacketGuard`, refinement, proofs.
2. (done) receive pipeline `RxPath`; risk `RiskState` with `RiskPolicy`; response
   `ResponsePath`; link `RxLink`.
3. (done) Host concurrency: `SpscRingBuffer`, `MessageQueue`, `HostGateway`,
   `ReplayRun`.
4. (done) Host order book and directory: `FixedCapacityHashMap`, `BookSide`,
   `OrderBook`, `PriceLevels`.
5. (done) From feed to store: `ItchDecoder`, `CommandSource`, `MarketData`.
6. (done) Startup, restart and lost datagrams: `Recovery`, with proofs.
7. Resets of one clock domain in `ResponsePath`; a smaller `RxLink` composed with
   the block decoder.
8. (done) Proofs: `RiskState`, `RxLink`, `ReplayRun` with `HostGateway`,
   `ResponsePath`, `RxPath`.
9. Proofs left: the parts of `MarketData` that do not depend on the book.
