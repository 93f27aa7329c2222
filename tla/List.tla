---------------------------------- MODULE List ----------------------------------
(***************************************************************************)
(* list/list.c: doubly linked lists.  The nodes of all lists are in one    *)
(* heap, where a node that is not in use has the value Nothing; a heap is  *)
(* the nodes and the struct of each list.  Functions that walk a list take *)
(* its nodes in the order of the walk.                                     *)
(***************************************************************************)
EXTENDS Calls, SequencesExt

CONSTANTS
  Objects,
  Items,
  Zero,      \* the item whose bytes are 0
  Key(_),    \* what the comparison function compares
  MaxNodes,  \* bounds the nodes in use
  MaxLength  \* bounds what a list is resized to or assigned

VARIABLES
  heap,
  call

vars == <<heap, call>>

Null == 0
Nodes == 1..MaxNodes
Free == [value |-> Nothing, next |-> Null, prev |-> Null]
ListCreate == [head |-> Null, tail |-> Null, size |-> 0]

Init ==
  /\ heap = [node |-> [n \in Nodes |-> Free], list |-> [o \in Objects |-> ListCreate]]
  /\ call = NoCall

InUse(h) == {n \in Nodes : h.node[n] # Free}
NewNode(h) == CHOOSE n \in Nodes \ InUse(h) : \A m \in Nodes \ InUse(h) : n <= m

SetNext(h, n, to) == IF n = Null THEN h ELSE [h EXCEPT !.node[n].next = to]
SetPrev(h, n, to) == IF n = Null THEN h ELSE [h EXCEPT !.node[n].prev = to]
Release(h, n) == [h EXCEPT !.node[n] = Free]

\* A link before next, or the head; a link after prev, or the tail
LinkFrom(h, o, prev, to) == IF prev = Null THEN [h EXCEPT !.list[o].head = to] ELSE SetNext(h, prev, to)
LinkBack(h, o, next, to) == IF next = Null THEN [h EXCEPT !.list[o].tail = to] ELSE SetPrev(h, next, to)

\* The nodes that are come by from n, following next or prev: of a ring, more than there are
RECURSIVE Steps(_, _, _, _)
Steps(h, n, link, most) ==
  IF n = Null \/ most = 0 THEN <<>> ELSE <<n>> \o Steps(h, h.node[n][link], link, most - 1)

Walk(h, n, link) == Steps(h, n, link, MaxNodes + 1)
Chain(h, o) == Walk(h, h.list[o].head, "next")

Values(h, s) == [i \in 1..Len(s) |-> h.node[s[i]].value]
Content(h, o) == Values(h, Chain(h, o))

-----------------------------------------------------------------------------

\* list_push_front and list_emplace_front
PushFront(h, o, x) ==
  LET n == NewNode(h)
      first == h.list[o].head
      linked == SetPrev(h, first, n)
  IN  [linked EXCEPT !.node[n] = [value |-> x, next |-> first, prev |-> Null],
                     !.list[o].head = n, !.list[o].size = @ + 1,
                     !.list[o].tail = IF @ = Null THEN n ELSE @]

\* list_push_back and list_emplace_back
PushBack(h, o, x) ==
  LET n == NewNode(h)
      last == h.list[o].tail
      linked == SetNext(h, last, n)
  IN  [linked EXCEPT !.node[n] = [value |-> x, next |-> Null, prev |-> last],
                     !.list[o].tail = n, !.list[o].size = @ + 1,
                     !.list[o].head = IF @ = Null THEN n ELSE @]

\* In the middle: after the node at index - 1
InsertAfter(h, o, index, x) ==
  LET n == NewNode(h)
      before == Chain(h, o)[index]
      after == h.node[before].next
      linked == SetPrev(h, after, n)
  IN  [linked EXCEPT !.node[n] = [value |-> x, next |-> after, prev |-> before],
                     !.node[before].next = n, !.list[o].size = @ + 1]

PopFront(h, o) ==
  LET first == h.list[o].head
      second == h.node[first].next
  IN  IF first = Null THEN h
      ELSE [Release(LinkBack([h EXCEPT !.list[o].head = second], o, second, Null), first)
              EXCEPT !.list[o].size = @ - 1]

PopBack(h, o) ==
  LET last == h.list[o].tail
      before == h.node[last].prev
  IN  IF h.list[o].head = Null THEN h
      ELSE [Release(LinkFrom([h EXCEPT !.list[o].tail = before], o, before, Null), last)
              EXCEPT !.list[o].size = @ - 1]

\* A node goes; what was next to it on either side is joined. list_erase keeps the
\* links of the node it is about to free: the ends come out the same.
Unlink(h, o, n) ==
  LET next == h.node[n].next
      prev == h.node[n].prev
  IN  [Release(LinkBack(LinkFrom(h, o, prev, next), o, next, prev), n)
         EXCEPT !.list[o].size = @ - 1]

Clear(h, o) ==
  [FoldLeft(Release, h, Chain(h, o)) EXCEPT !.list[o] = ListCreate]

RECURSIVE Resize(_, _, _, _)
Resize(h, o, n, x) ==
  CASE h.list[o].size > n -> Resize(PopBack(h, o), o, n, x)
    [] h.list[o].size < n -> Resize(PushBack(h, o, x), o, n, x)
    [] OTHER -> h

PushAll(h, o, s) == FoldLeft(LAMBDA g, x : PushBack(g, o, x), h, s)

ReverseLinks(h, o) ==
  LET turn(g, n) == [g EXCEPT !.node[n].next = h.node[n].prev, !.node[n].prev = h.node[n].next]
  IN  [FoldLeft(turn, h, Chain(h, o)) EXCEPT !.list[o].head = h.list[o].tail,
                                             !.list[o].tail = h.list[o].head]

\* The one way a sequence of nodes is the list
Relink(h, o, s) ==
  [h EXCEPT
    !.node = [n \in Nodes |->
      IF \A i \in 1..Len(s) : s[i] # n THEN h.node[n]
      ELSE LET i == CHOOSE j \in 1..Len(s) : s[j] = n
           IN  [value |-> h.node[n].value,
                next |-> IF i = Len(s) THEN Null ELSE s[i + 1],
                prev |-> IF i = 1 THEN Null ELSE s[i - 1]]],
    !.list[o].head = Head(s), !.list[o].tail = Last(s)]

\* Mutant: of two that are equal, the one of the second half goes first.
RECURSIVE MergeUnstable(_, _, _)
MergeUnstable(h, s, t) ==
  IF s = <<>> \/ t = <<>> THEN s \o t
  ELSE IF Key(h.node[Head(s)].value) < Key(h.node[Head(t)].value)
       THEN <<Head(s)>> \o MergeUnstable(h, Tail(s), t)
       ELSE <<Head(t)>> \o MergeUnstable(h, s, Tail(t))

\* dll_merge
RECURSIVE MergeNodes(_, _, _)
MergeNodes(h, s, t) ==
  IF s = <<>> \/ t = <<>> THEN s \o t
  ELSE IF Key(h.node[Head(s)].value) <= Key(h.node[Head(t)].value)
       THEN <<Head(s)>> \o MergeNodes(h, Tail(s), t)
       ELSE <<Head(t)>> \o MergeNodes(h, s, Tail(t))

\* dll_merge_sort, the first half the longer one
RECURSIVE SortNodes(_, _)
SortNodes(h, s) ==
  LET half == (Len(s) + 1) \div 2
  IN  IF Len(s) < 2 THEN s
      ELSE MergeNodes(h, SortNodes(h, SubSeq(s, 1, half)),
                         SortNodes(h, SubSeq(s, half + 1, Len(s))))

Sort(h, o) == IF h.list[o].size < 2 THEN h ELSE Relink(h, o, SortNodes(h, Chain(h, o)))

\* list_remove, and list_remove_if with the condition that a key is that of x
RemoveKey(h, o, x) ==
  FoldLeft(LAMBDA g, n : IF Key(g.node[n].value) = Key(x) THEN Unlink(g, o, n) ELSE g,
           h, Chain(h, o))

\* A node goes whose key is that of the node before it.
Unique(h, o) ==
  FoldLeft(LAMBDA g, n :
             LET prev == g.node[n].prev
             IN  IF prev # Null /\ Key(g.node[prev].value) = Key(g.node[n].value)
                 THEN Unlink(g, o, n) ELSE g,
           h, Chain(h, o))

\* All of p before the node pos of o, or at the end of o
Splice(h, o, p, pos) ==
  LET first == h.list[p].head
      last == h.list[p].tail
      prev == IF pos = Null THEN h.list[o].tail ELSE h.node[pos].prev
      front == SetPrev(LinkFrom(h, o, prev, first), first, prev)
      \* at the end the last node of p is the tail, and its next is NULL already
      back == LinkBack(IF pos = Null THEN front ELSE SetNext(front, last, pos), o, pos, last)
  IN  IF o = p \/ first = Null THEN h
      ELSE [back EXCEPT !.list[o].size = @ + h.list[p].size, !.list[p] = ListCreate]

\* The nodes of p before the first of o with a larger key; c and d go along o and p.
RECURSIVE MergeFrom(_, _, _, _, _)
MergeFrom(h, o, p, c, d) ==
  LET next == h.node[d].next
      prev == h.node[c].prev
      moved == [LinkFrom([h EXCEPT !.node[d].prev = prev, !.node[d].next = c], o, prev, d)
                  EXCEPT !.node[c].prev = d, !.list[p].size = @ - 1, !.list[o].size = @ + 1]
  IN  IF c # Null /\ d # Null
      THEN IF Key(h.node[c].value) > Key(h.node[d].value)
           THEN MergeFrom(moved, o, p, c, next)
           ELSE MergeFrom(h, o, p, h.node[c].next, d)
      ELSE IF d = Null THEN h
      ELSE [SetPrev(SetNext(h, h.list[o].tail, d), d, h.list[o].tail)
              EXCEPT !.list[o].tail = h.list[p].tail, !.list[o].size = @ + h.list[p].size]

Merge(h, o, p) ==
  IF o = p \/ h.list[p].size = 0 THEN h
  ELSE IF h.list[o].size = 0
  THEN [h EXCEPT !.list[o] = h.list[p], !.list[p] = ListCreate]
  ELSE [MergeFrom(h, o, p, h.list[o].head, h.list[p].head) EXCEPT !.list[p] = ListCreate]

-----------------------------------------------------------------------------

Becomes(h) == heap' = h
RoomFor(n) == Cardinality(InUse(heap)) + n <= MaxNodes
Length(o) == heap.list[o].size

\* No function but list_insert and list_erase hands anything out, or reports.
CallPush(o, x, memory) ==
  LET Done(op, args, h) ==
        /\ Becomes(IF memory THEN h ELSE heap)
        /\ call' = Call(op, o, args, memory, TRUE, NULL)
  IN  /\ RoomFor(1)
      /\ \/ \E op \in {"push_front", "emplace_front"} : Done(op, <<x>>, PushFront(heap, o, x))
         \/ \E op \in {"push_back", "emplace_back"} : Done(op, <<x>>, PushBack(heap, o, x))

\* Without memory list_insert follows a head or a tail that may be NULL: no such call.
CallInsert(o, index, x) ==
  /\ RoomFor(1)
  /\ Becomes(CASE index > Length(o) -> heap
               [] index = 0 -> PushFront(heap, o, x)
               [] index = Length(o) /\ index # 0 -> PushBack(heap, o, x)
               [] OTHER -> InsertAfter(heap, o, index, x))
  /\ call' = Call("insert", o, <<index, x>>, TRUE, TRUE, NULL)

CallPop(o) ==
  \/ Becomes(PopFront(heap, o)) /\ call' = Call("pop_front", o, <<>>, TRUE, TRUE, NULL)
  \/ Becomes(PopBack(heap, o)) /\ call' = Call("drop_back", o, <<>>, TRUE, TRUE, NULL)

\* list_erase hands out a copy of what it takes out, where there is memory for one.
CallErase(o, index, memory) ==
  LET n == Chain(heap, o)[index + 1]
  IN  /\ Becomes(IF index < Length(o) THEN Unlink(heap, o, n) ELSE heap)
      /\ call' = Call("extract", o, <<index>>, memory, TRUE,
                      IF index < Length(o) /\ memory THEN <<heap.node[n].value>> ELSE NULL)

\* As in Deque, a list that has no memory for a node only after it had some for an
\* item is resized for ever.
CallResize(o, n, x, memory) ==
  /\ RoomFor(n - Length(o))
  /\ Becomes(IF n > Length(o) /\ ~memory THEN heap ELSE Resize(heap, o, n, x))
  /\ call' = Call("resize", o, <<n, x>>, memory, TRUE, NULL)

\* list_assign
CallFill(o, s, memory) ==
  LET cleared == Clear(heap, o)
  IN  /\ RoomFor(Len(s) - Length(o))
      /\ Becomes(IF memory THEN PushAll(cleared, o, s) ELSE cleared)
      /\ call' = Call("fill", o, s, memory, TRUE, NULL)

CallReorder(o) ==
  \/ Becomes(Clear(heap, o)) /\ call' = Call("clear", o, <<>>, TRUE, TRUE, NULL)
  \/ Becomes(ReverseLinks(heap, o)) /\ call' = Call("reverse", o, <<>>, TRUE, TRUE, NULL)
  \/ Becomes(Sort(heap, o)) /\ call' = Call("sort", o, <<>>, TRUE, TRUE, NULL)
  \/ Becomes(Unique(heap, o)) /\ call' = Call("unique", o, <<>>, TRUE, TRUE, NULL)

CallRemove(o, x) ==
  /\ Becomes(RemoveKey(heap, o, x))
  /\ call' = Call("remove", o, <<x>>, TRUE, TRUE, NULL)

\* Two lists: p is emptied into o, or they change places.
CallJoin(o, p) ==
  \/ /\ Becomes([heap EXCEPT !.list[o] = heap.list[p], !.list[p] = heap.list[o]])
     /\ call' = CallOf("swap", o, p, <<>>, TRUE, TRUE, NULL)
  \/ \E i \in 0..Length(o) :
       /\ Becomes(Splice(heap, o, p, Append(Chain(heap, o), Null)[i + 1]))
       /\ call' = CallOf("splice", o, p, <<i>>, TRUE, TRUE, NULL)
  \/ /\ Becomes(Merge(heap, o, p))
     /\ call' = CallOf("merge", o, p, <<>>, TRUE, TRUE, NULL)

Next ==
  \E o \in Objects :
    \/ \E x \in Items, memory \in BOOLEAN : CallPush(o, x, memory)
    \/ \E x \in Items, index \in 0..Length(o) + 1 : CallInsert(o, index, x)
    \/ CallPop(o)
    \/ \E index \in 0..Length(o), memory \in BOOLEAN : CallErase(o, index, memory)
    \/ \E n \in 0..MaxLength, x \in Items, memory \in BOOLEAN : CallResize(o, n, x, memory)
    \/ \E n \in 0..MaxLength, memory \in BOOLEAN : \E s \in [1..n -> Items] : CallFill(o, s, memory)
    \/ CallReorder(o)
    \/ \E x \in Items : CallRemove(o, x)
    \/ \E p \in Objects : CallJoin(o, p)

Spec == Init /\ [][Next]_vars

-----------------------------------------------------------------------------

\* Each list is the same from both ends and as long as it says; no node is in two
\* lists, and every node that was not freed is in one: none leaks, none is freed twice.
ListsWellLinked ==
  /\ \A o \in Objects :
       /\ Walk(heap, heap.list[o].tail, "prev") = Reverse(Chain(heap, o))
       /\ Len(Chain(heap, o)) = Length(o)
       /\ heap.list[o].tail # Null => heap.node[heap.list[o].tail].next = Null
       /\ heap.list[o].head # Null => heap.node[heap.list[o].head].prev = Null
  /\ \A o, p \in Objects : o # p => ToSet(Chain(heap, o)) \cap ToSet(Chain(heap, p)) = {}
  /\ InUse(heap) = UNION {ToSet(Chain(heap, o)) : o \in Objects}

\* Iterators: a node keeps its item as long as it is in a list.
ListNodesStay ==
  call'.op # "fill" => \A n \in InUse(heap) \cap InUse(heap') : heap'.node[n].value = heap.node[n].value

ListSequence ==
  INSTANCE ItemSequence WITH
    items <- [o \in Objects |-> Content(heap, o)],
    Silent <- {"push_front", "push_back", "emplace_front", "emplace_back", "insert",
               "pop_front", "drop_back", "extract", "resize", "fill"}

\* A list is the sequence its calls say: sorting keeps equal items in order, merging
\* and splicing lose none, and no call touches another list than its own.
ListIsSequence == ListSequence!Spec
===============================================================================
