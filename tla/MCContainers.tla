------------------------------ MODULE MCContainers ------------------------------
(***************************************************************************)
(* The containers, one at a time: kind says which one a behaviour is of,   *)
(* the others stay as they were made.                                      *)
(***************************************************************************)
EXTENDS Vector

CONSTANTS
  BlockSize,    \* of a deque
  MaxNodes,     \* of all lists
  MoreItems,    \* of a priority queue or a list
  MaxLonger,    \* MaxLength of a priority queue or a deque
  MaxTogether,  \* items that two of these have for there to be further calls
  HeapSizeMax,  \* SizeMax of a priority queue
  FirstSlabCap, \* of maps and sets
  MaxSlabCap,
  Elements,     \* of a set
  MapKeys,
  MapValues,
  HashKeys,
  HashValues,
  Counts,       \* of buckets that may be asked for
  MaxBuckets    \* for there to be further calls

VARIABLES
  kind,
  pq, pqCall,
  deque, dequeCall,
  heap, listCall,
  fheap, forwardCall,
  map, mapCall,
  set, setCall,
  hmap, hmapCall

\* For the lists 1 and 2 are equal, for the priority queues no two items are.
K(x) == (x + 1) \div 2
Cmp(c, x, y) == IF c = "max" THEN x - y ELSE y - x
Loads == {<<2000, 1000>>}

P == INSTANCE PriorityQueue WITH
       call <- pqCall, Items <- MoreItems, MaxLength <- MaxLonger, SizeMax <- HeapSizeMax,
       Orders <- {"max", "min"}, Compare3 <- Cmp
D == INSTANCE Deque WITH call <- dequeCall, MaxLength <- MaxLonger
\* A deque of items above 1024 bytes: the code gives a block to each.
W == INSTANCE Deque WITH call <- dequeCall, BlockSize <- 1
L == INSTANCE List WITH call <- listCall, Items <- MoreItems, MaxLength <- MaxLength - 1, Key <- K
F == INSTANCE ForwardList WITH
       heap <- fheap, call <- forwardCall, MaxLength <- MaxLength - 1, AnyCall <- FALSE
M == INSTANCE Map WITH call <- mapCall
T == INSTANCE SetTree WITH call <- setCall, FirstSlabCap <- MaxSlabCap
H == INSTANCE HashMap WITH call <- hmapCall, LoadFactors <- Loads, FirstSlabCap <- MaxSlabCap

\* Both comparison functions of the priority queues put the items in an order.
ASSUME OrderingAssumption == P!Ordering

\* A deque whose last block no item is in: where a block is one item, that is what the
\* first push to the front leaves (deque.c:130). deque_back then reads before the block,
\* so that a behaviour of the run ends before it; MCLibrary shows it.
EndsUnused(d) == d.size > 0 /\ d.backIndex = SizeMax

MCInit ==
  /\ kind \in {"vector", "queue", "stack", "pq", "deque", "wide deque", "list", "forward_list", "map", "set", "hashmap"}
  /\ kind = "pq" \/ pq = [o \in Objects |-> [vec |-> P!VectorCreate, compare |-> "max"]]
  /\ kind = "map" \/ map = [o \in Objects |-> M!MapCreate(1)]
  /\ IF kind = "wide deque" THEN W!Init ELSE D!Init
  /\ Init /\ QueueInit /\ StackInit /\ P!Init /\ L!Init /\ F!Init /\ M!Init /\ T!Init /\ H!Init

OthersStill ==
  /\ UNCHANGED kind
  /\ IF kind = "vector" THEN TRUE ELSE UNCHANGED <<vector, call>>
  /\ IF kind = "queue" THEN TRUE ELSE UNCHANGED <<queue, queueCall>>
  /\ IF kind = "stack" THEN TRUE ELSE UNCHANGED <<stack, stackCall>>
  /\ IF kind = "pq" THEN TRUE ELSE UNCHANGED <<pq, pqCall>>
  /\ IF kind \in {"deque", "wide deque"} THEN TRUE ELSE UNCHANGED <<deque, dequeCall>>
  /\ IF kind = "list" THEN TRUE ELSE UNCHANGED <<heap, listCall>>
  /\ IF kind = "forward_list" THEN TRUE ELSE UNCHANGED <<fheap, forwardCall>>
  /\ IF kind = "map" THEN TRUE ELSE UNCHANGED <<map, mapCall>>
  /\ IF kind = "set" THEN TRUE ELSE UNCHANGED <<set, setCall>>
  /\ IF kind = "hashmap" THEN TRUE ELSE UNCHANGED <<hmap, hmapCall>>

MCNext ==
  /\ \/ kind = "vector" /\ Next
     \/ kind = "queue" /\ QueueNext
     \/ kind = "stack" /\ StackNext
     \/ kind = "pq" /\ P!Next
     \/ kind = "deque" /\ D!Next
     \/ kind = "wide deque" /\ W!Next /\ \A o \in Objects : ~EndsUnused(deque'[o])
     \/ kind = "list" /\ L!Next
     \/ kind = "forward_list" /\ F!Next
     \/ kind = "map" /\ M!Next
     \/ kind = "set" /\ T!Next
     \/ kind = "hashmap" /\ H!Next
  /\ OthersStill

allVars == <<kind, vars, queueVars, stackVars, P!vars, D!vars, L!vars, F!vars, M!vars, T!vars, H!vars>>

MCSpec == MCInit /\ [][MCNext]_allVars

\* A large tree or table only where the other one is as it was made
FewItems ==
  \A o, p \in Objects : o # p =>
    CASE kind = "pq" -> P!Size(pq[o].vec) + P!Size(pq[p].vec) <= MaxTogether
      [] kind \in {"deque", "wide deque"} -> deque[o].size + deque[p].size <= MaxTogether
      [] kind = "set" -> \/ \E q \in {o, p} : set[q] = T!SetCreate
                         \/ Len(set[o].node) + Len(set[p].node) <= 3
      [] kind = "map" -> \/ \E q \in {o, p} : map[q] \in {M!MapCreate(1), M!MapCreate(-1)}
                         \/ Len(map[o].node) + Len(map[p].node) <= 2
      [] kind = "hashmap" ->
           /\ H!BucketCount(hmap[o]) <= MaxBuckets
           /\ \/ \E q \in {o, p} : hmap[q] = H!CreateWithBuckets(TRUE, 1)
              \/ \A q \in {o, p} : hmap[q].used <= 1 /\ hmap[q].load = <<3, 4>>
      [] OTHER -> TRUE

\* The last call plays no part in what can happen next, and neither do the nodes that
\* trees, and lists that are well linked, are made of.
Linked(wellFormed, content(_), h) == IF wellFormed THEN [o \in Objects |-> content(o)] ELSE h
State ==
  CASE kind = "vector" -> vector
    [] kind = "queue" -> queue
    [] kind = "stack" -> stack
    [] kind = "pq" -> pq
    [] kind \in {"deque", "wide deque"} -> deque
    [] kind = "list" -> Linked(L!ListsWellLinked, LAMBDA o : L!Content(heap, o), heap)
    [] kind = "forward_list" -> Linked(F!ForwardListsLinked, LAMBDA o : F!Content(fheap, o), fheap)
    [] kind = "map" -> [o \in Objects |-> M!View(map[o])]
    [] kind = "set" -> [o \in Objects |-> T!View(set[o])]
    [] OTHER -> hmap

View == <<kind, State>>

-----------------------------------------------------------------------------

\* What each container keeps between two calls.  A vector's capacity can be counted
\* in bytes; a queue's dead slots are in front of live ones; no item of a heap comes
\* before its parent; a deque never shows what a dead slot holds, and shows the same
\* items from both ends, by index and by either iterator; every node is in one list,
\* that is the same from both ends and as long as it says; the trees of maps and sets
\* are red-black, in order, and with the free list make up the pool; a key of a hash
\* map is in the one chain where it is looked for, and iterators come by all of them.
WellFormed ==
  CASE kind = "vector" -> VectorFits
    [] kind = "queue" -> QueueWellFormed
    [] kind = "pq" -> P!HeapOrder
    [] kind = "deque" -> D!DequeWellFormed
    [] kind = "wide deque" -> W!DequeWellFormed
    [] kind = "list" -> L!ListsWellLinked
    [] kind = "forward_list" -> F!ForwardListsLinked
    [] kind = "map" -> M!MapsWellFormed
    [] kind = "set" -> T!SetsWellFormed
    [] kind = "hashmap" -> H!HashMapsWellFormed
    [] OTHER -> TRUE

\* Containers compare by what they hold: as sequences, wherever these begin in memory,
\* as sets, whatever the shape of the trees, and hash maps by their keys.
ComparesByContent ==
  CASE kind = "vector" -> VectorOrder
    [] kind = "queue" -> QueueOrder
    [] kind = "deque" -> D!DequeOrder
    [] kind = "wide deque" -> W!DequeOrder
    [] kind = "forward_list" -> F!ForwardListOrder
    [] kind = "set" -> T!SetsCompare
    [] kind = "hashmap" -> H!HashMapsCompare
    [] OTHER -> TRUE

\* The containers of items in a row do what their calls say.  A queue is first in, first
\* out past any compaction, a stack gives back what was pushed last, a deque does both
\* at both ends and in the middle, lists are sorted and merged stably, spliced without
\* loss.
ContainersAreSequences ==
  /\ VectorIsSequence /\ QueueIsSequence /\ StackIsSequence
  /\ D!DequeIsSequence /\ L!ListIsSequence /\ F!ForwardListIsSequence

\* A priority queue takes out what comes first in the order it has, and that order goes
\* where swap, assign and copy say.
PriorityQueueIsBag == P!PriorityQueueIsBag

\* Maps, sets and hash maps are the functions their calls say, whatever is rotated or
\* hashed anew; what they own is deallocated once, when it leaves them; for want of
\* memory a call does nothing. Left out, since the code does not keep what its comments
\* (map.c:1648, hashmap.c:1389, set.c:1092, 1119, 1147, 1176) say: a copy or combination
\* that memory fails for in between is not NULL but lacks entries.
ContainersAreFunctions == M!MapIsFunction /\ T!SetIsFunction /\ H!HashMapIsFunction

\* Each container implements the abstract one its functions promise.
ContainersImplement ==
  ContainersAreSequences /\ PriorityQueueIsBag /\ ContainersAreFunctions

\* Iterators stay valid: an entry of a map or a set is in its node, and an item of a list
\* in its own, until it is erased, whatever is inserted, erased, sorted or spliced.
IteratorsSurvive ==
  [][CASE kind = "list" -> L!ListNodesStay
       [] kind = "forward_list" -> F!ForwardNodesStay
       [] kind = "map" -> M!MapNodesStay
       [] kind = "set" -> T!SetNodesStay
       [] OTHER -> TRUE]_allVars
===============================================================================
