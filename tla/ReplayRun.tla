----------------------------- MODULE ReplayRun -----------------------------
(***************************************************************************)
(* src/host/src/main.cpp: the replay thread reads the ITCH file and pushes *)
(* its messages at the pace of their timestamps; the host thread pops and  *)
(* processes them, receives the decisions of the FPGA and decides when the *)
(* run is over.  They share the ring buffer, replayStatus, startReplay and *)
(* stopRequested; a signal handler sets interruptRequested.                *)
(*                                                                         *)
(* Stores of replayStatus are released and its loads acquire: statusLog is *)
(* the order of its stores, each with the writeIndex it publishes, and     *)
(* statusSeen the last of them that the host thread can see.               *)
(***************************************************************************)
EXTENDS Integers, Sequences, FiniteSets

CONSTANTS
  Files,            \* the files replayed: sequences of [time, kind], not empty
  MaxTime,          \* bound: the clock stops there
  Capacity, IndexModulus,
  MaxMessageCount, MaxTobBatchDelay, PendingIntentCapacity, SequenceModulus, StartupCommands

Kinds == {"quiet", "status", "tob", "intent", "bad", "short"}

ASSUME FilesAssumption ==
  /\ Files \subseteq Seq([time : 0 .. MaxTime, kind : Kinds])
  /\ \A f \in Files : Len(f) \in 1 .. IndexModulus - 1

ASSUME ConstantsAssumption ==
  /\ MaxTime \in Nat
  /\ Capacity \in Nat \ {0, 1} /\ IndexModulus \in Nat /\ IndexModulus % Capacity = 0
  /\ MaxMessageCount \in Nat \ {0} /\ PendingIntentCapacity \in Nat
  /\ StartupCommands \in Nat /\ SequenceModulus \in Nat
  /\ StartupCommands + 1 < SequenceModulus

VARIABLES
  file,
  time,             \* nanoseconds since replayStartTime
  ringBuffer, writeIndex, cachedReadIndex, readSeen, pushing,
  readIndex, cachedWriteIndex, writeSeen, popping, item,
  replay, position, statusLog, statusSeen,   \* the replay thread
  startReplay, stopRequested, interruptRequested,
  main, nowNs, downstreamFlushed, exitCode,                   \* the host thread
  gateway,
  stream,           \* the datagrams sent, in order
  carried,          \* how many of them have left the link
  inbound,          \* decisions waiting in the socket: sequence numbers
  lossFree,         \* the link has lost nothing, in either direction
  (* history *)
  handled,          \* file positions of the messages popped
  decided           \* sequence numbers of the intents whose decision was taken

Positions == 0 .. IndexModulus - 1

Ring    == INSTANCE SpscRingBuffer WITH Items <- Positions
Gateway == INSTANCE HostGateway

ringProducer == << writeIndex, cachedReadIndex, pushing >>
ringConsumer == << readIndex, cachedWriteIndex, popping, item >>
ring         == << ringBuffer, ringProducer, readSeen, ringConsumer, writeSeen >>
replayThread == << replay, position, statusLog >>
hostThread   == << main, nowNs, downstreamFlushed, exitCode >>
network      == << stream, carried, inbound, lossFree >>
signals      == << startReplay, stopRequested, interruptRequested >>
vars == << file, time, ring, replayThread, statusSeen, signals, hostThread,
           gateway, network, handled, decided >>

Init ==
  /\ file \in Files /\ time = 0
  /\ Ring!Init /\ item = 0
  /\ replay = "setup" /\ position = 1
  /\ statusLog = << [status |-> "Starting", writes |-> 0] >> /\ statusSeen = 1
  /\ startReplay = FALSE /\ stopRequested = FALSE /\ interruptRequested = FALSE
  /\ main = "setup" /\ nowNs = 0 /\ downstreamFlushed = FALSE /\ exitCode = -1
  /\ Gateway!Init
  /\ stream = << >> /\ carried = 0 /\ inbound = << >>
  /\ lossFree = TRUE
  /\ handled = << >> /\ decided = << >>

-----------------------------------------------------------------------------
(* runReplay                                                               *)
HasTimestamp(n) == file[n].kind # "short"

StoreStatus(status) ==
  statusLog' = Append(statusLog, [status |-> status, writes |-> writeIndex])

EndReplay(status) ==
  /\ StoreStatus(status)
  /\ replay' = "ended"
  /\ UNCHANGED position

(* discoverSymbols has read the file before: it is not empty.              *)
FailSetup ==
  /\ replay = "setup"
  /\ \E status \in {"AffinityFailed", "FileOpenFailed", "ReadFailed"} : EndReplay(status)

ReadFirst ==
  /\ replay = "setup"
  /\ IF HasTimestamp(1)
       THEN /\ StoreStatus("Ready")
            /\ replay' = "waiting"
            /\ UNCHANGED position
       ELSE EndReplay("InvalidTimestamp")

StopWaiting ==
  /\ replay = "waiting" /\ ~startReplay /\ stopRequested
  /\ EndReplay("Stopped")

StartRunning ==
  /\ replay = "waiting" /\ startReplay
  /\ StoreStatus("Running")
  /\ replay' = "pacing"
  /\ UNCHANGED position

ValidTimestamp == HasTimestamp(position) /\ file[position].time >= file[1].time

Due == time >= file[position].time - file[1].time

RejectTimestamp ==
  /\ replay = "pacing" /\ ~ValidTimestamp
  /\ EndReplay("InvalidTimestamp")

StopPacing ==
  /\ replay = "pacing" /\ ValidTimestamp /\ ~Due /\ stopRequested
  /\ EndReplay("Stopped")

PushMessage ==
  /\ replay = "pacing" /\ ValidTimestamp /\ Due
  /\ Ring!StartPush
  /\ replay' = "pushing"
  /\ UNCHANGED << position, statusLog >>

Overflow ==
  /\ replay = "pacing" /\ ValidTimestamp /\ Due
  /\ Ring!RefusePush
  /\ EndReplay("QueueOverflow")

MessagePushed ==
  /\ replay = "pushing"
  /\ Ring!FinishPush(position)
  /\ replay' = "reading"
  /\ UNCHANGED << position, statusLog >>

ReadNext ==
  /\ replay = "reading" /\ position < Len(file)
  /\ position' = position + 1
  /\ replay' = "pacing"
  /\ UNCHANGED statusLog

EndOfFile ==
  /\ replay = "reading" /\ position = Len(file)
  /\ EndReplay("Complete")

FailRead ==
  /\ replay = "reading"
  /\ EndReplay("ReadFailed")

ReplayStep ==
  /\ \/ PushMessage \/ Overflow \/ MessagePushed
     \/ /\ \/ FailSetup \/ ReadFirst \/ StopWaiting \/ StartRunning
           \/ RejectTimestamp \/ StopPacing \/ ReadNext \/ EndOfFile \/ FailRead
        /\ UNCHANGED ring
  /\ UNCHANGED << file, time, statusSeen, signals, hostThread, gateway, network,
                  handled, decided >>

-----------------------------------------------------------------------------
(* main, on the host thread                                                *)
SeenStatus == statusLog[statusSeen].status

(* Mutant: the load of replayStatus does not acquire. *)
PublishedWritesRelaxed == writeSeen

(* An acquiring load makes the pushes before the store visible.            *)
PublishedWrites ==
  IF statusLog[statusSeen].writes > writeSeen THEN statusLog[statusSeen].writes ELSE writeSeen

LoadReplayStatus ==
  /\ writeSeen' = PublishedWrites
  /\ UNCHANGED << ringBuffer, ringProducer, readSeen, ringConsumer >>

ReplayFailed(status) ==
  status \in {"AffinityFailed", "FileOpenFailed", "ReadFailed", "InvalidTimestamp",
              "QueueOverflow"}

Quiet == UNCHANGED << gateway, stream, inbound, handled, decided >>

Goto(place) == main' = place /\ UNCHANGED << nowNs, downstreamFlushed, exitCode >>

InterruptSetup ==
  /\ main = "setup" /\ SeenStatus = "Starting" /\ interruptRequested
  /\ stopRequested' = TRUE
  /\ Goto("setup") /\ UNCHANGED startReplay

SetupDone ==
  /\ main = "setup" /\ SeenStatus # "Starting"
  /\ Goto("check") /\ UNCHANGED << startReplay, stopRequested >>

CheckReady ==
  /\ main = "check"
  /\ IF SeenStatus = "Ready"
       THEN startReplay' = TRUE /\ Goto("service") /\ UNCHANGED stopRequested
       ELSE stopRequested' = TRUE /\ Goto("setupFailed") /\ UNCHANGED startReplay

(* Mutant: the loop goes on until the replay is over. *)
InterruptPolledNever == FALSE

InterruptPolled == interruptRequested

Interrupted ==
  /\ main = "service" /\ InterruptPolled
  /\ Goto("stopping") /\ UNCHANGED << startReplay, stopRequested >>

(* The gateway after one of its handlers, and where its status leads.      *)
Settle(g, place) ==
  /\ gateway' = Gateway!Settled(g)
  /\ stream' = stream \o g.sent
  /\ main' = IF g.status = "Ok" THEN place ELSE "stopping"
  /\ UNCHANGED exitCode

ServiceGateway ==
  /\ main = "service" /\ ~InterruptPolled
  /\ nowNs' = time
  /\ \E failing \in 0 .. 1 :
       LET packets == IF inbound = << >> THEN << >> ELSE << Head(inbound) >>
           g == Gateway!Service([gateway EXCEPT !.failing = failing], packets, time)
       IN  /\ Settle(g, "pop")
           /\ inbound' = SubSeq(inbound, 2, Len(inbound))
           /\ decided' = IF g.status = "UnexpectedOrderDecision" THEN decided
                                                                 ELSE decided \o packets
  /\ UNCHANGED << ring, downstreamFlushed, handled >>

ReceiveFails ==
  /\ main = "service" /\ ~InterruptPolled
  /\ nowNs' = time
  /\ Settle(Gateway!Fails(gateway, "UpstreamReceiveFailed"), "pop")
  /\ UNCHANGED << ring, downstreamFlushed, inbound, handled, decided >>

PopMessage ==
  /\ main = "pop"
  /\ \/ Ring!StartPop /\ Goto("taking")
     \/ Ring!RefusePop /\ Goto("status")
  /\ UNCHANGED << startReplay, stopRequested >>

ProcessMessage ==
  /\ main = "taking"
  /\ Ring!FinishPop
  /\ handled' = Append(handled, item')
  /\ \E failing \in 0 .. 2 :
       Settle(Gateway!ProcessRawMessage([gateway EXCEPT !.failing = failing],
                                        file[item'].kind, nowNs), "status")
  /\ UNCHANGED << nowNs, downstreamFlushed, inbound, decided >>

CheckStatus ==
  /\ main = "status"
  /\ Goto(CASE ReplayFailed(SeenStatus)   -> "stopping"
            [] SeenStatus = "Complete"    -> "drained"
            [] OTHER                      -> "service")
  /\ UNCHANGED << startReplay, stopRequested >>

NotDrained ==
  /\ main = "drained" /\ ~Ring!Empty
  /\ Goto("service") /\ UNCHANGED << startReplay, stopRequested >>

Drained ==
  /\ main = "drained" /\ Ring!Empty
  /\ \E failing \in 0 .. 1 :
       LET g == IF downstreamFlushed THEN gateway
                ELSE Gateway!Flush([gateway EXCEPT !.failing = failing])
       IN  /\ Settle(g, IF g.pending = << >> THEN "stopping" ELSE "service")
           /\ downstreamFlushed' = (g.status = "Ok")
  /\ UNCHANGED << ring, nowNs, inbound, handled, decided >>

RequestStop ==
  /\ main = "stopping"
  /\ stopRequested' = TRUE
  /\ Goto("join") /\ UNCHANGED startReplay

(* replayThread.join(), and the exit code of the run.                      *)
ExitCode ==
  IF main = "setupFailed" THEN 1
  ELSE IF interruptRequested THEN 130
  ELSE IF gateway.status # "Ok" \/ ReplayFailed(statusLog[Len(statusLog)].status) THEN 1
  ELSE 0

Join ==
  /\ main \in {"join", "setupFailed"} /\ replay = "ended"
  /\ main' = "exited" /\ exitCode' = ExitCode
  /\ UNCHANGED << startReplay, stopRequested, nowNs, downstreamFlushed >>

MainStep ==
  /\ \/ (InterruptSetup \/ SetupDone \/ CheckReady \/ CheckStatus) /\ LoadReplayStatus /\ Quiet
     \/ (Interrupted \/ NotDrained \/ RequestStop \/ Join) /\ UNCHANGED ring /\ Quiet
     \/ PopMessage /\ Quiet
     \/ /\ ServiceGateway \/ ReceiveFails \/ ProcessMessage \/ Drained
        /\ UNCHANGED << startReplay, stopRequested >>
  /\ UNCHANGED << file, time, replayThread, statusSeen, interruptRequested,
                  carried, lossFree >>

-----------------------------------------------------------------------------
(* What happens around the two threads.                                    *)
hostAndReplay == << file, replayThread, startReplay, stopRequested, hostThread, gateway,
                    stream, handled, decided >>

Running == main # "exited"

(* Before the replay starts nothing depends on the clock.                  *)
Tick ==
  /\ Running /\ replay \notin {"setup", "waiting"} /\ time < MaxTime
  /\ time' = time + 1
  /\ UNCHANGED << hostAndReplay, ring, statusSeen, interruptRequested, network >>

HandleInterrupt ==
  /\ Running /\ ~interruptRequested
  /\ interruptRequested' = TRUE
  /\ UNCHANGED << hostAndReplay, time, ring, statusSeen, network >>

StatusBecomesVisible ==
  /\ Running /\ statusSeen < Len(statusLog)
  /\ statusSeen' = statusSeen + 1
  /\ UNCHANGED << hostAndReplay, time, ring, interruptRequested, network >>

IndexBecomesVisible ==
  /\ Running
  /\ Ring!WriteBecomesVisible \/ Ring!ReadBecomesVisible
  /\ UNCHANGED << hostAndReplay, time, statusSeen, interruptRequested, network >>

(* The FPGA answers each ORDER_INTENT it receives once: after a loss too,  *)
(* when it rejects it with STREAM_FAULT.                                   *)
IntentsOf(datagram) == {j \in DOMAIN datagram : datagram[j].kind = "intent"}

DecisionsFor(datagram) ==
  LET intents == IntentsOf(datagram)
      Nth(n)  == CHOOSE j \in intents : Cardinality({k \in intents : k < j}) = n - 1
  IN  [n \in 1 .. Cardinality(intents) |-> datagram[Nth(n)].number]

Answer ==
  /\ Running /\ carried < Len(stream)
  /\ carried' = carried + 1
  /\ inbound' = inbound \o DecisionsFor(stream[carried'])
  /\ UNCHANGED << hostAndReplay, time, ring, statusSeen, interruptRequested, lossFree >>

LoseDatagram ==
  /\ Running /\ carried < Len(stream)
  /\ carried' = carried + 1 /\ lossFree' = FALSE
  /\ UNCHANGED << hostAndReplay, time, ring, statusSeen, interruptRequested, inbound >>

LoseDecision ==
  /\ Running /\ inbound # << >>
  /\ inbound' = Tail(inbound) /\ lossFree' = FALSE
  /\ UNCHANGED << hostAndReplay, time, ring, statusSeen, interruptRequested, carried >>

Exited == ~Running /\ UNCHANGED vars

Next ==
  \/ ReplayStep \/ MainStep \/ Tick \/ HandleInterrupt
  \/ StatusBecomesVisible \/ IndexBecomesVisible
  \/ Answer \/ LoseDatagram \/ LoseDecision \/ Exited

(* Both threads are pinned to a processor of their own and keep running;   *)
(* the clock advances, stores become visible, and the link delivers what   *)
(* it does not lose.                                                       *)
Fairness ==
  /\ WF_vars(ReplayStep) /\ WF_vars(MainStep) /\ WF_vars(Tick)
  /\ WF_vars(StatusBecomesVisible) /\ WF_vars(IndexBecomesVisible) /\ WF_vars(Answer)

Spec == Init /\ [][Next]_vars /\ Fairness

-----------------------------------------------------------------------------
IntentsSent ==
  UNION {{stream[i][j].number : j \in IntentsOf(stream[i])} : i \in DOMAIN stream}

Increasing(seq) == \A i, j \in DOMAIN seq : i < j => seq[i] < seq[j]

(***************************************************************************)
(* "Full-day replay completed" is true: every message of the file has been *)
(* processed in order, nothing waits in the batch, and every order sent    *)
(* got its own decision, in the order of the orders.  The end of the       *)
(* replay is seen through another variable than the queue (main.cpp, the   *)
(* loop's exit on Complete).                                               *)
(***************************************************************************)
CleanExitIsComplete ==
  exitCode = 0 =>
    /\ handled = [n \in 1 .. Len(file) |-> n]
    /\ gateway.batch = << >>
    /\ Increasing(decided) /\ {decided[i] : i \in DOMAIN decided} = IntentsSent

(***************************************************************************)
(* What is sent is numbered without a gap or a repetition whatever fails,  *)
(* within a datagram and from one to the next, and an ORDER_INTENT ends    *)
(* its datagram (host_architecture_v0.md, Host Flush Policy;               *)
(* outbound_sequencer.cpp, udp_batcher.hpp).                               *)
(***************************************************************************)
NumberAfter(datagram) == datagram[Len(datagram)].number + 1

StreamIsSequenced ==
  \A i \in DOMAIN stream :
    /\ stream[i] # << >>
    /\ stream[i][1].number = IF i = 1 THEN StartupCommands + 1 ELSE NumberAfter(stream[i - 1])
    /\ \A j \in 2 .. Len(stream[i]) : stream[i][j].number = stream[i][j - 1].number + 1
    /\ IntentsOf(stream[i]) \subseteq {Len(stream[i])}

(***************************************************************************)
(* On a link that loses nothing every decision is the expected one: the    *)
(* intent is recorded as pending before its answer can be looked at, and   *)
(* in the order of the answers (HostGateway::sendOrderIntent).             *)
(***************************************************************************)
DecisionsExpected == lossFree => gateway.status # "UnexpectedOrderDecision"

(***************************************************************************)
(* Every run ends, unless the link has lost something and nobody has       *)
(* interrupted the wait for the decision that will not come: an interrupt  *)
(* ends the program at any point of either thread, and neither waits for   *)
(* the other in a loop that does not look at it (main.cpp, the loop's      *)
(* exits and replayThread.join()).                                         *)
(***************************************************************************)
RunEnds == <>[](main = "exited" \/ (~lossFree /\ ~interruptRequested))
=============================================================================
