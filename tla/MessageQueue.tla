---------------------------- MODULE MessageQueue ----------------------------
(***************************************************************************)
(* What src/host/include/normalizer/runtime/spsc_ringbuffer.hpp promises   *)
(* its two threads: a bounded first-in first-out queue.                    *)
(***************************************************************************)
EXTENDS Naturals, Sequences

CONSTANTS Items, Capacity

VARIABLES
  queue,
  item      \* the item the consumer took last

vars == << queue, item >>

Init == queue = << >> /\ item \in Items

Push(i) ==
  /\ Len(queue) < Capacity
  /\ queue' = Append(queue, i)
  /\ UNCHANGED item

Pop ==
  /\ queue # << >>
  /\ item' = Head(queue)
  /\ queue' = Tail(queue)

Next == (\E i \in Items : Push(i)) \/ Pop

Spec == Init /\ [][Next]_vars
=============================================================================
