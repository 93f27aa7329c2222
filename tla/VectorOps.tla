------------------------------- MODULE VectorOps -------------------------------
(***************************************************************************)
(* The functions of vector/vector.c on a struct Vector, for Vector and for *)
(* the containers that keep their items in one: Queue, Stack and           *)
(* PriorityQueue.                                                          *)
(*                                                                         *)
(* A vector is its live items, those in the slots below size, and the      *)
(* number of its slots.  What a slot beyond size holds is of no interest:  *)
(* nothing reads it before it is written.  Sizes are size_t, of SizeMax+1  *)
(* values.                                                                 *)
(***************************************************************************)
EXTENDS Calls, SequencesExt

CONSTANTS
  InitialCapacity,  \* 32
  EmptyCapacity,    \* 8, the first capacity of a vector without a buffer
  ItemSize,
  SizeMax,          \* (size_t)-1
  Zero              \* the item whose bytes are 0

ASSUME VectorAssumption ==
  /\ InitialCapacity \in 1..SizeMax
  /\ EmptyCapacity \in 1..InitialCapacity
  /\ ItemSize \in 1..SizeMax
  /\ SizeMax \in Nat
  /\ InitialCapacity * ItemSize <= SizeMax

VectorCreate == [items |-> <<>>, capacity |-> InitialCapacity]

Size(v) == Len(v.items)

\* vecbuf_realloc_to: one that fails leaves the vector as it was.
Realloc(v, capacity, memory) ==
  IF capacity = 0 \/ (capacity <= SizeMax \div ItemSize /\ memory)
  THEN [v EXCEPT !.capacity = capacity]
  ELSE v

\* Doubled, or the largest there can be where doubling wraps, but minNeeded at least
NextCapacity(v, minNeeded) ==
  LET doubled == IF v.capacity = 0 THEN EmptyCapacity ELSE (v.capacity * 2) % (SizeMax + 1)
      wrapped == v.capacity # 0 /\ doubled \div 2 # v.capacity
      next == IF wrapped THEN SizeMax \div ItemSize ELSE doubled
  IN  IF next < minNeeded THEN minNeeded ELSE next

HasRoom(v) == Size(v) < v.capacity

EnsureOneMore(v, memory) ==
  IF HasRoom(v) THEN v ELSE Realloc(v, NextCapacity(v, Size(v) + 1), memory)

\* vector_push_back with vecbuf_push_back_grow, and vector_emplace_back
PushBack(v, x, memory) ==
  LET w == EnsureOneMore(v, memory)
  IN  IF HasRoom(w) THEN [w EXCEPT !.items = Append(@, x)] ELSE w

\* vector_insert and vector_emplace: the tail is moved up by one slot.
Insert(v, pos, x, memory) ==
  LET w == EnsureOneMore(v, memory)
  IN  IF pos <= Size(v) /\ HasRoom(w)
      THEN [w EXCEPT !.items = InsertAt(@, pos + 1, x)]
      ELSE IF pos <= Size(v) THEN w ELSE v

\* The test of the range wraps where pos + len does; the callers keep below that.
Erase(v, pos, len) ==
  IF pos < Size(v) /\ (pos + len) % (SizeMax + 1) <= Size(v)
  THEN [v EXCEPT !.items = SubSeq(@, 1, pos) \o SubSeq(@, pos + len + 1, Size(v))]
  ELSE v

Replace(v, pos, x) ==
  IF pos < Size(v) THEN [v EXCEPT !.items[pos + 1] = x] ELSE v

PopBack(v) == IF Size(v) = 0 THEN v ELSE [v EXCEPT !.items = Front(@)]

Clear(v) == [v EXCEPT !.items = <<>>]

\* Exactly what was asked for, and never less than there is
Reserve(v, size, memory) ==
  IF v.capacity >= size THEN v ELSE Realloc(v, size, memory)

Reserved(v, size) == v.capacity >= size

Resize(v, size, memory) ==
  LET w == Reserve(v, size, memory)
  IN  IF Reserved(w, size)
      THEN [w EXCEPT !.items = [i \in 1..size |-> IF i <= Size(v) THEN v.items[i] ELSE Zero]]
      ELSE w

ShrinkToFit(v, memory) ==
  IF Size(v) = v.capacity THEN v ELSE Realloc(v, Size(v), memory)

\* The items are pushed one by one.
PushAll(v, s, memory) ==
  LET pushed[n \in 0..Len(s)] ==
        IF n = 0 THEN v ELSE PushBack(pushed[n - 1], s[n], memory)
  IN  pushed[Len(s)]

\* How the containers over a vector are assigned and copied: it is emptied, whether
\* or not there turns out to be room, and the items are pushed.
AssignItems(v, s, memory) ==
  LET room == IF s = <<>> THEN Clear(v) ELSE Reserve(Clear(v), Len(s), memory)
  IN  IF s = <<>> \/ Reserved(room, Len(s)) THEN PushAll(room, s, memory) ELSE room

At(v, pos) == IF pos < Size(v) THEN <<v.items[pos + 1]>> ELSE NULL
FrontItem(v) == IF Size(v) = 0 THEN NULL ELSE <<v.items[1]>>
BackItem(v) == IF Size(v) = 0 THEN NULL ELSE <<v.items[Size(v)]>>

\* memcmp of the live bytes, then the sizes
IsEqual(v, w) == v.items = w.items

Compare(v, w) ==
  LET n == IF Size(v) < Size(w) THEN Size(v) ELSE Size(w)
      differing == {i \in 1..n : v.items[i] # w.items[i]}
      first == CHOOSE i \in differing : \A j \in differing : i <= j
  IN  IF differing = {} THEN 0 ELSE v.items[first] - w.items[first]

IsLess(v, w) == Compare(v, w) < 0 \/ (Compare(v, w) = 0 /\ Size(v) < Size(w))
IsGreater(v, w) == Compare(v, w) > 0 \/ (Compare(v, w) = 0 /\ Size(v) > Size(w))
IsNotEqual(v, w) == Size(v) # Size(w) \/ v.items # w.items
IsLessOrEqual(v, w) == ~IsGreater(v, w)
IsGreaterOrEqual(v, w) == ~IsLess(v, w)

\* The six comparisons are those of one total order.
ComparesAsOneOrder(v, w) ==
  /\ IsLess(v, w) <=> LexLess(v.items, w.items)
  /\ IsGreater(v, w) <=> IsLess(w, v)
  /\ IsEqual(v, w) <=> ~IsLess(v, w) /\ ~IsGreater(v, w)
  /\ IsNotEqual(v, w) <=> ~IsEqual(v, w)
  /\ IsLessOrEqual(v, w) <=> IsLess(v, w) \/ IsEqual(v, w)
  /\ IsGreaterOrEqual(v, w) <=> IsGreater(v, w) \/ IsEqual(v, w)

\* The items fit into the slots, whose bytes can be counted.
Fits(v) == Size(v) <= v.capacity /\ v.capacity * ItemSize <= SizeMax
===============================================================================
