---------------------------------- MODULE Map ----------------------------------
(***************************************************************************)
(* map/map.c: functions from keys to values, kept as red-black trees.  A   *)
(* map that was made with functions to deallocate them owns its keys and   *)
(* values; these are counted when they are given up.                       *)
(***************************************************************************)
EXTENDS RedBlackTree

CONSTANTS
  Objects,
  MapKeys,
  MapValues

VARIABLES
  map,
  call

vars == <<map, call>>

\* map_create, with either comparison and with functions to deallocate
MapCreate(compare) == TreeCreate(compare, TRUE)

Init ==
  /\ map \in [Objects -> {MapCreate(1), MapCreate(-1)}]
  /\ call = NoCall

Size(o) == map[o].size
Plenty == Cardinality(MapKeys)   \* slabs enough for every key
Count(m, key) == IF Find(m, key) = Null THEN 0 ELSE 1
At(m, key) == IF Find(m, key) = Null THEN Nothing ELSE m.node[Find(m, key)].value

\* What is deallocated below n: children first, of a node the key and then the value
RECURSIVE DeallocLive(_, _)
DeallocLive(m, n) ==
  IF n = Null \/ ~m.owns THEN NULL
  ELSE LET node == m.node[n]
       IN  DeallocLive(m, node.left) \o DeallocLive(m, node.right)
             \o <<<<"key", node.key>>, <<"value", node.value>>>>

\* map_insert, copy where the key is another pointer than the one in the map
Insert(m, key, value) ==
  IF Find(m, key) # Null THEN [m EXCEPT !.node[Find(m, key)].value = value]
  ELSE AddNode(m, key, value)

\* Mutant: the key that was given is deallocated also where the map goes on using it.
InsertReleasesKey(m, key, copy) ==
  IF Find(m, key) = Null \/ ~m.owns THEN NULL
  ELSE <<<<"value", At(m, key)>>, <<"key", key>>>>

InsertReleases(m, key, copy) ==
  IF Find(m, key) = Null \/ ~m.owns THEN NULL
  ELSE <<<<"value", At(m, key)>>>> \o (IF copy THEN <<<<"key", key>>>> ELSE <<>>)

\* A node is had first, and given back where the key is there.
EmplaceHint(m, key, value) ==
  IF Find(m, key) = Null THEN AddNode(m, key, value)
  ELSE PoolFree(CreateNode(m, key, value), TakenNode(m))

Clear(m) == [PoolDestroy(m) EXCEPT !.root = Null, !.size = 0]

\* map_copy, where there is memory for so many slabs: what does not fit is left out.
Copy(m, slabs) ==
  LET walk == Forwards(m)
      copied(step, i) ==
        LET taken == step.tree
            slab == taken.free = <<>> /\ taken.room = 0
        IN  IF slab /\ step.slabs = 0 THEN step
            ELSE [tree |-> Insert(taken, KeyAt(m, walk[i]), m.node[walk[i]].value),
                  slabs |-> IF slab THEN step.slabs - 1 ELSE step.slabs]
  IN  FoldLeft(copied, [tree |-> TreeCreate(m.compare, FALSE), slabs |-> slabs],
               [i \in 1..Len(walk) |-> i]).tree

-----------------------------------------------------------------------------

Becomes(o, m) == map' = [map EXCEPT ![o] = m]

CallInsert(o, key, value, copy, memory) ==
  LET m == map[o]
      can == Find(m, key) # Null \/ CanAlloc(m, memory)
  IN  /\ Becomes(o, IF can THEN Insert(m, key, value) ELSE m)
      /\ call' = Call("insert", o, <<key, value, copy>>, memory, can,
                      IF can THEN InsertReleases(m, key, copy) ELSE NULL)

CallEmplace(o, key, value, memory) ==
  LET m == map[o]
      new == Find(m, key) = Null /\ CanAlloc(m, memory)
  IN  /\ Becomes(o, IF new THEN AddNode(m, key, value) ELSE m)
      /\ call' = Call("emplace", o, <<key, value>>, memory, new, NULL)

CallEmplaceHint(o, key, value, memory) ==
  LET m == map[o]
      can == CanAlloc(m, memory)
  IN  /\ Becomes(o, IF can THEN EmplaceHint(m, key, value) ELSE m)
      /\ call' = Call("emplace", o, <<key, value>>, memory, can /\ Find(m, key) = Null, NULL)

CallErase(o, key) ==
  LET m == map[o]
      z == Find(m, key)
  IN  /\ Becomes(o, IF z # Null THEN RemoveNode(m, z) ELSE m)
      /\ call' = Call("erase", o, <<key>>, TRUE, z # Null,
                      IF z # Null /\ m.owns THEN <<<<"key", m.node[z].key>>, <<"value", At(m, key)>>>>
                      ELSE NULL)

CallClear(o) ==
  /\ Becomes(o, Clear(map[o]))
  /\ call' = Call("clear", o, <<>>, TRUE, TRUE, DeallocLive(map[o], map[o].root))

CallSwap(o, p) ==
  /\ map' = [map EXCEPT ![o] = map[p], ![p] = map[o]]
  /\ call' = CallOf("swap", o, p, <<>>, TRUE, TRUE, NULL)

\* The copy takes the place of the map o, which is deallocated.
CallCopy(o, p, slabs) ==
  /\ o # p
  /\ Becomes(o, Copy(map[p], slabs))
  /\ call' = CallOf("copy", o, p, <<>>, slabs = Plenty, TRUE, DeallocLive(map[o], map[o].root))

Next ==
  \E o \in Objects :
    \/ \E key \in MapKeys, value \in MapValues, memory \in BOOLEAN :
         \/ \E copy \in BOOLEAN : CallInsert(o, key, value, copy, memory)
         \/ CallEmplace(o, key, value, memory)
         \/ CallEmplaceHint(o, key, value, memory)
    \/ \E key \in MapKeys : CallErase(o, key)
    \/ CallClear(o)
    \/ \E p \in Objects : CallSwap(o, p) \/ \E slabs \in {0, 1, Plenty} : CallCopy(o, p, slabs)

Spec == Init /\ [][Next]_vars

-----------------------------------------------------------------------------

MapsWellFormed == \A o \in Objects : Balanced(map[o]) /\ InOrder(map[o], MapKeys)

MapFunction ==
  INSTANCE ItemMap WITH
    entries <- [o \in Objects |-> Entries(map[o])],
    owns <- [o \in Objects |-> map[o].owns],
    Owners <- Objects

MapIsFunction == MapFunction!SpecButPartial

\* A map is the function its calls say, and deallocates what leaves it once.
\* Iterators: an entry keeps its node until it is erased, whatever goes on around it.
KeepsNodes(before, after, kept) ==
  \A n \in NodesBelow(before, before.root) :
    LET key == KeyAt(before, n)
    IN  key \in kept => n \in NodesBelow(after, after.root) /\ KeyAt(after, n) = key

MapNodesStay ==
  \A o \in Objects :
    /\ call'.op \in {"insert", "emplace"} => KeepsNodes(map[o], map'[o], MapKeys)
    /\ call'.op = "erase" => KeepsNodes(map[o], map'[o], MapKeys \ {call'.args[1]})
===============================================================================
