----------------------------- MODULE PriorityQueue -----------------------------
(***************************************************************************)
(* priority_queue/priority_queue.c: a binary heap in a vector.  The slots  *)
(* are numbered from 0: slot h is item h + 1.                              *)
(***************************************************************************)
EXTENDS VectorOps

CONSTANTS
  Objects,
  Items,
  MaxLength,     \* bounds the items of a queue
  Orders,        \* the comparison functions that are used
  Compare3(_, _, _)  \* Compare3(order, x, y) > 0: x comes before y

VARIABLES
  pq,            \* the struct of each object
  call

vars == <<pq, call>>

Init ==
  /\ pq \in [Objects -> {[vec |-> VectorCreate, compare |-> c] : c \in Orders}]
  /\ call = NoCall

Becomes(o, q) == pq' = [pq EXCEPT ![o] = q]

Parent(h) == (h - 1) \div 2

\* A comparison function is one of qsort: it puts the items in an order, and some may be
\* equal in it (priority_queue.h).
Ordering ==
  \A c \in Orders : \A x, y, z \in Items :
    /\ Compare3(c, x, y) \in Int
    /\ Compare3(c, x, y) > 0 <=> Compare3(c, y, x) < 0
    /\ Compare3(c, x, y) <= 0 /\ Compare3(c, y, z) <= 0 => Compare3(c, x, z) <= 0

-----------------------------------------------------------------------------
(* The hole: an item is held aside while others move past its slot.        *)

Hole(s, h) == [items |-> s, hole |-> h]

\* An item moves into the hole, and leaves one where it was.
Moved(q, h) == [items |-> [q.items EXCEPT ![q.hole + 1] = q.items[h + 1]], hole |-> h]
Filled(q, x) == [q.items EXCEPT ![q.hole + 1] = x]

\* A turn of the way up: the item goes past a parent that it comes before, not past top.
Up(q, x, top, c) ==
  IF q.hole > top /\ Compare3(c, x, q.items[Parent(q.hole) + 1]) > 0
  THEN Moved(q, Parent(q.hole)) ELSE q

LargerChild(s, h, c) ==
  LET left == 2 * h + 1
  IN  IF left + 1 < Len(s) /\ Compare3(c, s[left + 2], s[left + 1]) > 0 THEN left + 1 ELSE left

\* A turn of the way down: by swaps, where there is no room to hold an item aside, the
\* item stops at the first child it need not let past.
Down(q, x, c, memory) ==
  LET child == LargerChild(q.items, q.hole, c)
  IN  IF 2 * q.hole + 1 < Len(q.items) /\ (memory \/ Compare3(c, q.items[child + 1], x) > 0)
      THEN Moved(q, child) ELSE q

\* No loop has more turns than there are slots.
GoneUp(q, x, top, c) ==
  LET turn[k \in 0..Len(q.items)] == IF k = 0 THEN q ELSE Up(turn[k - 1], x, top, c)
  IN  turn[Len(q.items)]

GoneDown(q, x, c, memory) ==
  LET turn[k \in 0..Len(q.items)] == IF k = 0 THEN q ELSE Down(turn[k - 1], x, c, memory)
  IN  turn[Len(q.items)]

\* pq_sift_up; bubbling up by swaps ends in the same slots.
SiftUp(s, index, c) == Filled(GoneUp(Hole(s, index), s[index + 1], 0, c), s[index + 1])

\* pq_sift_down: the hole goes down to a leaf, then the item up from there.
SiftDown(s, top, c, memory) ==
  LET x == s[top + 1]
      down == GoneDown(Hole(s, top), x, c, memory)
  IN  IF s = <<>> THEN s
      ELSE Filled(IF memory THEN GoneUp(down, x, top, c) ELSE down, x)

\* From the last parent down to the root; held[k]: the k-th finds memory for its item.
Heapify(s, c, held) ==
  LET n == Len(s) \div 2
      heap[k \in 0..n] == IF k = 0 THEN s ELSE SiftDown(heap[k - 1], n - k, c, held[k])
  IN  heap[n]

-----------------------------------------------------------------------------

\* priority_queue_push and priority_queue_emplace
CallPush(o, x, memory) ==
  LET v == PushBack(pq[o].vec, x, memory)
      pushed == Size(v) > Size(pq[o].vec)
  IN  /\ Size(pq[o].vec) < MaxLength
      /\ Becomes(o, [pq[o] EXCEPT !.vec =
           IF pushed THEN [v EXCEPT !.items = SiftUp(@, Size(v) - 1, pq[o].compare)] ELSE v])
      /\ \E op \in {"push_back", "emplace_back"} :
           call' = Call(op, o, <<x>>, memory, pushed, NULL)

\* The last item is put at the root and sinks.
CallPop(o, memory) ==
  LET s == pq[o].vec.items
      moved == Front([s EXCEPT ![1] = Last(s)])
  IN  /\ IF s = <<>> THEN UNCHANGED pq
         ELSE Becomes(o, [pq[o] EXCEPT !.vec.items = SiftDown(moved, 0, pq[o].compare, memory)])
      /\ call' = Call("pop_front", o, <<>>, memory, TRUE, NULL)

CallReserve(o, n, memory) ==
  LET v == Reserve(pq[o].vec, n, memory)
  IN  /\ Becomes(o, [pq[o] EXCEPT !.vec = v])
      /\ call' = Call("reserve", o, <<n>>, memory, Reserved(v, n), NULL)

CallClear(o) ==
  /\ Becomes(o, [pq[o] EXCEPT !.vec = Clear(@)])
  /\ call' = Call("clear", o, <<>>, TRUE, TRUE, NULL)

CallSwap(o, p) ==
  /\ pq' = [pq EXCEPT ![o] = pq[p], ![p] = pq[o]]
  /\ call' = CallOf("swap", o, p, <<>>, TRUE, TRUE, NULL)

\* The heap is made anew in the order of the destination.
CallAssign(o, src, memory) ==
  LET v == AssignItems(pq[o].vec, pq[src].vec.items, memory)
      ok == Size(v) = Size(pq[src].vec)
  IN  /\ IF o = src THEN UNCHANGED pq
         ELSE \E held \in [1..Size(v) \div 2 -> BOOLEAN] :
                Becomes(o, [pq[o] EXCEPT !.vec =
                  IF ok THEN [v EXCEPT !.items = Heapify(@, pq[o].compare, held)] ELSE v])
      /\ call' = CallOf("assign", o, src, <<>>, memory, o = src \/ ok, NULL)

\* priority_queue_copy into an object that was deallocated: slot by slot
CallCopy(o, src, memory) ==
  LET v == AssignItems(VectorCreate, pq[src].vec.items, memory)
      ok == memory /\ Size(v) = Size(pq[src].vec)
  IN  /\ o # src
      /\ IF ok THEN Becomes(o, [pq[src] EXCEPT !.vec = v]) ELSE UNCHANGED pq
      /\ call' = CallOf("copy", o, src, <<>>, memory, ok, NULL)

Next ==
  \E o \in Objects, memory \in BOOLEAN :
    \/ \E x \in Items : CallPush(o, x, memory)
    \/ CallPop(o, memory)
    \/ CallClear(o)
    \/ \E n \in {0, MaxLength} : CallReserve(o, n, memory)
    \/ \E p \in Objects : CallSwap(o, p) \/ CallAssign(o, p, memory) \/ CallCopy(o, p, memory)

Spec == Init /\ [][Next]_vars

-----------------------------------------------------------------------------

\* No item comes before its parent, whatever items compare equal: so the one that
\* priority_queue_top hands out comes after no other.
HeapOrder ==
  \A o \in Objects :
    LET s == pq[o].vec.items
    IN  \A h \in 1..Len(s) - 1 : Compare3(pq[o].compare, s[h + 1], s[Parent(h) + 1]) <= 0

PriorityQueueBag ==
  INSTANCE PriorityBag WITH
    count <- [o \in Objects |-> [x \in Items |->
                Cardinality({i \in 1..Size(pq[o].vec) : pq[o].vec.items[i] = x})]],
    order <- [o \in Objects |-> pq[o].compare],
    Before <- LAMBDA c, x, y : Compare3(c, x, y) > 0

\* A priority queue is the bag its calls say: pop takes out what comes first, and
\* swap, assign and copy leave each queue in the order of its function.
PriorityQueueIsBag == PriorityQueueBag!Spec
===============================================================================
