------------------------ MODULE FixedCapacityHashMap ------------------------
(***************************************************************************)
(* fixed_capacity_hash_map.hpp: buckets of chained nodes taken from one    *)
(* array, whose unused nodes form a free list.  A map is a record, an      *)
(* operation that changes it returns the new one.                          *)
(***************************************************************************)
EXTENDS Naturals, FiniteSets

CONSTANTS
  MaximumEntries,
  Buckets,
  BucketFor(_),     \* mix(key) & (BucketCount - 1); keys may share a bucket
  NoValue           \* Value{}

Index == 0 .. MaximumEntries - 1

InvalidIndex == MaximumEntries      \* 2^32 - 1 in the code

(* The key and the value of a free node are never read.                    *)
FreeNode(next) == [key |-> 0, value |-> NoValue, nextIndex |-> next]

EmptyMap ==
  [buckets  |-> [b \in Buckets |-> InvalidIndex],
   nodes    |-> [i \in Index |-> FreeNode(IF i = MaximumEntries - 1 THEN InvalidIndex ELSE i + 1)],
   freeHead |-> 0,
   size     |-> 0]

Full(map) == map.size = MaximumEntries

(* The node that find stops at, InvalidIndex when the key is absent.       *)
NodeOf(map, key) ==
  LET from[i \in Index \cup {InvalidIndex}] ==
        IF i = InvalidIndex \/ map.nodes[i].key = key THEN i ELSE from[map.nodes[i].nextIndex]
  IN  from[map.buckets[BucketFor(key)]]

Contains(map, key) == NodeOf(map, key) # InvalidIndex

Find(map, key) == map.nodes[NodeOf(map, key)].value

UpdateExisting(map, key, value) == [map EXCEPT !.nodes[NodeOf(map, key)].value = value]

(* The key is absent and the map not full. *)
Insert(map, key, value) ==
  LET new == map.freeHead
  IN  [map EXCEPT
         !.freeHead = map.nodes[new].nextIndex,
         !.nodes[new] = [key |-> key, value |-> value, nextIndex |-> map.buckets[BucketFor(key)]],
         !.buckets[BucketFor(key)] = new,
         !.size = @ + 1]

(* The link that leads to the node, a bucket or the node before it, is led *)
(* past it.                                                                *)
Unlinked(map, key) ==
  LET index == NodeOf(map, key)
      Past(link) == IF link = index THEN map.nodes[index].nextIndex ELSE link
  IN  [map EXCEPT
         !.buckets[BucketFor(key)] = Past(@),
         !.nodes = [i \in Index |-> [@[i] EXCEPT !.nextIndex = Past(@)]]]

(* Mutant: only a node at the head of its bucket is unlinked. *)
EraseHead(map, key) ==
  LET index == NodeOf(map, key)
  IN  IF index = InvalidIndex THEN map
      ELSE [map EXCEPT !.buckets[BucketFor(key)] = IF @ = index THEN map.nodes[index].nextIndex ELSE @,
                       !.nodes[index] = FreeNode(map.freeHead),
                       !.freeHead = index,
                       !.size = @ - 1]

Erase(map, key) ==
  LET index == NodeOf(map, key)
  IN  IF index = InvalidIndex THEN map
      ELSE [Unlinked(map, key) EXCEPT !.nodes[index] = FreeNode(map.freeHead),
                                      !.freeHead = index,
                                      !.size = @ - 1]

-----------------------------------------------------------------------------
(* The nodes on the chain that starts at a link.                           *)
Chain(map, link) ==
  LET from[i \in Index \cup {InvalidIndex}] ==
        IF i = InvalidIndex THEN {} ELSE {i} \cup from[map.nodes[i].nextIndex]
  IN  from[link]

(***************************************************************************)
(* Every node is on the free list or on the chain of its key's bucket,     *)
(* never on both, and no key is there twice: what find, insert and erase   *)
(* take for granted.                                                       *)
(***************************************************************************)
WellFormed(map) ==
  LET free    == Chain(map, map.freeHead)
      used(b) == Chain(map, map.buckets[b])
  IN  /\ Cardinality(Index \ free) = map.size
      /\ UNION {used(b) : b \in Buckets} = Index \ free
      /\ \A b \in Buckets : \A i \in used(b) :
           /\ BucketFor(map.nodes[i].key) = b
           /\ NodeOf(map, map.nodes[i].key) = i
=============================================================================
