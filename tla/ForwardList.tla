------------------------------ MODULE ForwardList ------------------------------
(***************************************************************************)
(* forward_list/forward_list.c: singly linked lists.  The nodes of all     *)
(* lists are in one heap, where a node that is not in use has the value    *)
(* Nothing.  before_begin hands out the sentinel in a list's struct, whose *)
(* next is what the head was then.                                         *)
(***************************************************************************)
EXTENDS Calls, SequencesExt

CONSTANTS
  Objects,
  Items,
  Zero,        \* the item whose bytes are 0
  MaxNodes,    \* bounds the nodes in use
  MaxLength,   \* bounds what a list is resized to or assigned
  AnyCall      \* whether also calls are made in which before_begin loses items

VARIABLES
  heap,
  call

vars == <<heap, call>>

Null == 0
Sentinel == -1
Nodes == 1..MaxNodes
Free == [value |-> Nothing, next |-> Null]
ListCreate == [head |-> Null, size |-> 0]

Init ==
  /\ heap = [node |-> [n \in Nodes |-> Free], list |-> [o \in Objects |-> ListCreate]]
  /\ call = NoCall

InUse(h) == {n \in Nodes : h.node[n] # Free}
NewNode(h) == CHOOSE n \in Nodes \ InUse(h) : \A m \in Nodes \ InUse(h) : n <= m
MakeNode(h, n, x, next) == [h EXCEPT !.node[n] = [value |-> x, next |-> next]]
Release(h, n) == [h EXCEPT !.node[n] = Free]
Grow(h, o, by) == [h EXCEPT !.list[o].size = @ + by]

\* The nodes that are come by from n: of a ring, more than there are
RECURSIVE Steps(_, _, _)
Steps(h, n, most) == IF n = Null \/ most = 0 THEN <<>> ELSE <<n>> \o Steps(h, h.node[n].next, most - 1)

Chain(h, o) == Steps(h, h.list[o].head, MaxNodes + 1)
Content(h, o) == LET chain == Chain(h, o) IN [i \in 1..Len(chain) |-> h.node[chain[i]].value]

\* The next of a position: the sentinel's is the head, as before_begin was just called.
Next1(h, o, pos) == IF pos = Sentinel THEN h.list[o].head ELSE h.node[pos].next

\* pos->next = n, and the head with it where pos is the sentinel
LinkAfter(h, o, pos, n) ==
  IF pos = Sentinel THEN [h EXCEPT !.list[o].head = n] ELSE [h EXCEPT !.node[pos].next = n]

\* The one way a sequence of nodes is the list
Relink(h, o, s) ==
  [h EXCEPT
    !.node = [n \in Nodes |->
      IF \A i \in 1..Len(s) : s[i] # n THEN h.node[n]
      ELSE LET i == CHOOSE j \in 1..Len(s) : s[j] = n
           IN  [h.node[n] EXCEPT !.next = IF i = Len(s) THEN Null ELSE s[i + 1]]],
    !.list[o].head = IF s = <<>> THEN Null ELSE Head(s)]

-----------------------------------------------------------------------------

\* forward_list_push_front and forward_list_emplace_front
PushFront(h, o, x) ==
  LET n == NewNode(h)
  IN  Grow([MakeNode(h, n, x, h.list[o].head) EXCEPT !.list[o].head = n], o, 1)

PopFront(h, o) ==
  LET first == h.list[o].head
  IN  IF first = Null THEN h
      ELSE Grow(Release([h EXCEPT !.list[o].head = h.node[first].next], first), o, -1)

\* After a position that is not NULL
EmplaceAfter(h, o, pos, x) ==
  LET n == NewNode(h)
  IN  Grow(LinkAfter(MakeNode(h, n, x, Next1(h, o, pos)), o, pos, n), o, 1)

EraseAfter(h, o, pos) ==
  LET n == Next1(h, o, pos)
  IN  IF n = Null THEN h
      ELSE Grow(Release(LinkAfter(h, o, pos, h.node[n].next), n), o, -1)

\* One after the other; the head is only set when all were had.
RECURSIVE InsertNodes(_, _, _, _)
InsertNodes(h, o, pos, s) ==
  LET n == NewNode(h)
      made == MakeNode(h, n, Head(s), Next1(h, o, pos))
      linked == IF pos = Sentinel THEN made ELSE [made EXCEPT !.node[pos].next = n]
  IN  IF s = <<>> THEN h ELSE InsertNodes(Grow(linked, o, 1), o, n, Tail(s))

\* forward_list_insert_after where only so many nodes can be had
InsertAfter(h, o, pos, s, nodes) ==
  LET had == SubSeq(s, 1, IF nodes < Len(s) THEN nodes ELSE Len(s))
      inserted == InsertNodes(h, o, pos, had)
  IN  IF pos = Sentinel /\ had # <<>> /\ had = s
      THEN [inserted EXCEPT !.list[o].head = NewNode(h)] ELSE inserted

\* Where pos is NULL each item goes to the front, so that the last one comes first.
PushAll(h, o, s, nodes) ==
  FoldLeft(LAMBDA g, i : IF i <= nodes THEN PushFront(g, o, s[i]) ELSE g, h, [i \in 1..Len(s) |-> i])

Clear(h, o) == [FoldLeft(Release, h, Chain(h, o)) EXCEPT !.list[o] = ListCreate]

ReverseNodes(h, o) == Relink(h, o, Reverse(Chain(h, o)))

\* forward_list_assign
Assign(h, o, s, nodes) == ReverseNodes(PushAll(Clear(h, o), o, s, nodes), o)

\* The last node goes, or a zero item comes after it
RECURSIVE Resize(_, _, _, _)
Resize(h, o, n, nodes) ==
  LET chain == Chain(h, o)
      size == h.list[o].size
      new == NewNode(h)
      pos == IF chain = <<>> THEN Sentinel ELSE Last(chain)
  IN  CASE size > n /\ size = 1 -> Resize(PopFront(h, o), o, n, nodes)
        [] size > n /\ size > 1 -> Resize(EraseAfter(h, o, chain[Len(chain) - 1]), o, n, nodes)
        [] size < n /\ nodes > 0 ->
             Resize(Grow(LinkAfter(MakeNode(h, new, Zero, Null), o, pos, new), o, 1), o, n, nodes - 1)
        [] OTHER -> h

\* flist_merge_two
RECURSIVE MergeTwo(_, _, _)
MergeTwo(h, s, t) ==
  IF s = <<>> \/ t = <<>> THEN s \o t
  ELSE IF h.node[Head(s)].value <= h.node[Head(t)].value
       THEN <<Head(s)>> \o MergeTwo(h, Tail(s), t)
       ELSE <<Head(t)>> \o MergeTwo(h, s, Tail(t))

\* flist_split and flist_merge_sort: the second half is the longer one.
RECURSIVE MergeSort(_, _)
MergeSort(h, s) ==
  LET half == Len(s) \div 2
  IN  IF Len(s) < 2 THEN s
      ELSE MergeTwo(h, MergeSort(h, SubSeq(s, 1, half)), MergeSort(h, SubSeq(s, half + 1, Len(s))))

Sort(h, o) == Relink(h, o, MergeSort(h, Chain(h, o)))

\* forward_list_remove, and forward_list_remove_if with the condition to be x
RemoveItem(h, o, x) ==
  LET chain == Chain(h, o)
      gone == SelectSeq(chain, LAMBDA n : h.node[n].value = x)
      kept == SelectSeq(chain, LAMBDA n : h.node[n].value # x)
  IN  Grow(FoldLeft(Release, Relink(h, o, kept), gone), o, 0 - Len(gone))

\* The node after current goes as long as it is equal.
RECURSIVE UniqueFrom(_, _, _)
UniqueFrom(h, o, current) ==
  LET next == h.node[current].next
  IN  IF current = Null \/ next = Null THEN h
      ELSE IF h.node[next].value = h.node[current].value
      THEN UniqueFrom(EraseAfter(h, o, current), o, current)
      ELSE UniqueFrom(h, o, next)

Unique(h, o) == UniqueFrom(h, o, h.list[o].head)

\* Another list after a position.  After the sentinel the head is that of the other
\* list, also where that is empty: then the list has lost what it had.
SpliceAfter(h, o, pos, p) ==
  LET first == h.list[p].head
      last == Last(Chain(h, p))
      joined == Grow([h EXCEPT !.node[last].next = Next1(h, o, pos)], o, h.list[p].size)
      linked == IF first = Null THEN h
                ELSE IF pos = Sentinel THEN joined ELSE [joined EXCEPT !.node[pos].next = first]
  IN  [linked EXCEPT !.list[o].head = IF pos = Sentinel THEN first ELSE @, !.list[p] = ListCreate]

\* pos is NULL: in front, where there is something to splice
SpliceFront(h, o, p) ==
  IF h.list[p].head = Null THEN [h EXCEPT !.list[p] = ListCreate]
  ELSE SpliceAfter(h, o, Sentinel, p)

Merge(h, o, p) ==
  IF h.list[p].head = Null THEN h
  ELSE [Grow(Relink(h, o, MergeTwo(h, Chain(h, o), Chain(h, p))), o, h.list[p].size)
          EXCEPT !.list[p] = ListCreate]

\* The functions that compare go along both lists.
RECURSIVE LessFrom(_, _, _)
LessFrom(h, m, n) ==
  IF m # Null /\ n # Null
  THEN IF h.node[m].value # h.node[n].value THEN h.node[m].value < h.node[n].value
       ELSE LessFrom(h, h.node[m].next, h.node[n].next)
  ELSE m = Null /\ n # Null

RECURSIVE EqualFrom(_, _, _)
EqualFrom(h, m, n) ==
  IF m # Null /\ n # Null
  THEN h.node[m].value = h.node[n].value /\ EqualFrom(h, h.node[m].next, h.node[n].next)
  ELSE m = Null /\ n = Null

IsLess(o, p) == LessFrom(heap, heap.list[o].head, heap.list[p].head)
IsGreater(o, p) == IsLess(p, o)
IsEqual(o, p) == EqualFrom(heap, heap.list[o].head, heap.list[p].head)

-----------------------------------------------------------------------------

Becomes(h) == heap' = h
RoomFor(n) == Cardinality(InUse(heap)) + n <= MaxNodes
Length(o) == heap.list[o].size
SetMin(n, m) == IF n < m THEN n ELSE m

\* The node at index i; of index 0 before_begin
Position(o, i) == (<<Sentinel>> \o Chain(heap, o))[i + 1]

\* No function reports anything, or hands out an item that it takes away.
Called(op, o, args, memory) == call' = Call(op, o, args, memory, TRUE, NULL)

CallPushFront(o, x, memory) ==
  /\ RoomFor(1)
  /\ Becomes(IF memory THEN PushFront(heap, o, x) ELSE heap)
  /\ \E op \in {"push_front", "emplace_front"} : Called(op, o, <<x>>, memory)

CallPop(o) ==
  /\ Becomes(PopFront(heap, o))
  /\ Called("pop_front", o, <<>>, TRUE)

\* pos is NULL, before_begin or a node of the list.
CallEmplaceAfter(o, i, x, memory) ==
  /\ RoomFor(1)
  /\ \E h \in {EmplaceAfter(heap, o, Position(o, i), x)}
              \cup (IF i = 0 THEN {PushFront(heap, o, x)} ELSE {}) :
       Becomes(IF memory THEN h ELSE heap)
  /\ Called("insert", o, <<i, x>>, memory)

CallInsertAfter(o, i, s, nodes) ==
  /\ RoomFor(Len(s))
  /\ \/ /\ i > 0 \/ nodes >= Len(s) \/ AnyCall
        /\ Becomes(InsertAfter(heap, o, Position(o, i), s, nodes))
        /\ Called("insert_first", o, <<i, s>>, nodes >= Len(s))
     \/ /\ i = 0
        /\ Becomes(PushAll(heap, o, s, nodes))
        /\ Called("insert_last", o, <<0, Reverse(s)>>, nodes >= Len(s))

CallEraseAfter(o, i) ==
  /\ Becomes(EraseAfter(heap, o, Position(o, i)))
  /\ Called("erase", o, <<i, 1>>, TRUE)

CallResize(o, n, nodes) ==
  /\ RoomFor(n - Length(o))
  /\ Becomes(Resize(heap, o, n, nodes))
  /\ Called("resize_some", o, <<n>>, n <= Length(o) + nodes)

CallAssign(o, s, nodes) ==
  /\ RoomFor(Len(s) - Length(o))
  /\ Becomes(Assign(heap, o, s, nodes))
  /\ Called("fill", o, s, nodes >= Len(s))

CallReorder(o) ==
  \/ Becomes(Clear(heap, o)) /\ Called("clear", o, <<>>, TRUE)
  \/ Becomes(ReverseNodes(heap, o)) /\ Called("reverse", o, <<>>, TRUE)
  \/ Becomes(Sort(heap, o)) /\ Called("sort", o, <<>>, TRUE)
  \/ Becomes(Unique(heap, o)) /\ Called("unique", o, <<>>, TRUE)

CallRemove(o, x) ==
  /\ Becomes(RemoveItem(heap, o, x))
  /\ Called("remove", o, <<x>>, TRUE)

\* A list is not joined with itself: no function looks whether it is.
CallJoin(o, p) ==
  /\ o # p
  /\ \/ /\ Becomes([heap EXCEPT !.list[o] = heap.list[p], !.list[p] = heap.list[o]])
        /\ call' = CallOf("swap", o, p, <<>>, TRUE, TRUE, NULL)
     \/ \E i \in 0..Length(o) :
          /\ \/ /\ i > 0 \/ heap.list[p].head # Null \/ AnyCall
                /\ Becomes(SpliceAfter(heap, o, Position(o, i), p))
             \/ i = 0 /\ Becomes(SpliceFront(heap, o, p))
          /\ call' = CallOf("splice", o, p, <<i>>, TRUE, TRUE, NULL)
     \/ /\ Becomes(Merge(heap, o, p))
        /\ call' = CallOf("merge", o, p, <<>>, TRUE, TRUE, NULL)

Next ==
  \E o \in Objects :
    \/ \E x \in Items, memory \in BOOLEAN : CallPushFront(o, x, memory)
    \/ CallPop(o)
    \/ \E i \in 0..Length(o) :
         \/ \E x \in Items, memory \in BOOLEAN : CallEmplaceAfter(o, i, x, memory)
         \/ \E s \in [1..2 -> Items], nodes \in 0..2 : CallInsertAfter(o, i, s, nodes)
         \/ CallEraseAfter(o, i)
    \/ \E n \in 0..MaxLength, nodes \in 0..MaxLength :
         \/ CallResize(o, n, nodes)
         \/ \E s \in [1..n -> Items] : CallAssign(o, s, nodes)
    \/ CallReorder(o)
    \/ \E x \in Items : CallRemove(o, x)
    \/ \E p \in Objects : CallJoin(o, p)

Spec == Init /\ [][Next]_vars

-----------------------------------------------------------------------------

\* Each list is as long as it says; no node is in two lists, and every node that was
\* not freed is in one.
ForwardListsLinked ==
  /\ \A o \in Objects : Len(Chain(heap, o)) = Length(o)
  /\ \A o, p \in Objects : o # p => ToSet(Chain(heap, o)) \cap ToSet(Chain(heap, p)) = {}
  /\ InUse(heap) = UNION {ToSet(Chain(heap, o)) : o \in Objects}

ForwardListOrder ==
  \A o, p \in Objects :
    LET s == Content(heap, o)  t == Content(heap, p)
    IN  /\ IsLess(o, p) = LexLess(s, t) /\ IsGreater(o, p) = LexLess(t, s)
        /\ IsEqual(o, p) = (s = t)

\* Positions: a node keeps its item as long as it is in a list.
ForwardNodesStay ==
  call'.op # "fill" => \A n \in InUse(heap) \cap InUse(heap') : heap'.node[n].value = heap.node[n].value

Same(x) == x

ForwardListSequence ==
  INSTANCE ItemSequence WITH
    items <- [o \in Objects |-> Content(heap, o)],
    Key <- Same,
    Silent <- {"push_front", "emplace_front", "insert", "pop_front", "erase"}

\* A list is the sequence its calls say: the items that go in after a position are
\* there, and splicing or merging loses none of either list.
ForwardListIsSequence == ForwardListSequence!Spec
===============================================================================
