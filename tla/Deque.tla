--------------------------------- MODULE Deque ---------------------------------
(***************************************************************************)
(* deque/deque.c: items in blocks of BlockSize slots.  The slots of the    *)
(* blocks are numbered through, from 0; the first item is in slot          *)
(* frontIndex, the last in slot backIndex of the last block.  A slot       *)
(* outside of these holds Nothing: nothing may read it.                    *)
(***************************************************************************)
EXTENDS Calls, SequencesExt

CONSTANTS
  Objects,
  Items,
  BlockSize,  \* the power of two of items that 2048 bytes hold, 1 of an item above 1024 bytes
  SizeMax,    \* (size_t)-1
  Zero,       \* the item whose bytes are 0
  MaxLength   \* bounds the items of a deque

VARIABLES
  deque,      \* the struct of each object
  call

vars == <<deque, call>>

Blocks(n) == [i \in 1..n * BlockSize |-> Nothing]
BlockCount(d) == Len(d.slots) \div BlockSize

\* One block, used from its middle: backIndex is one below frontIndex, in size_t.
DequeCreate ==
  [slots |-> Blocks(1),
   frontIndex |-> BlockSize \div 2,
   backIndex |-> (BlockSize \div 2 + SizeMax) % (SizeMax + 1),
   size |-> 0]

Init ==
  /\ deque = [o \in Objects |-> DequeCreate]
  /\ call = NoCall

Becomes(o, d) == deque' = [deque EXCEPT ![o] = d]

\* What is read at a slot, or outside of the blocks
Peek(d, slot) == IF slot \in 0..Len(d.slots) - 1 THEN d.slots[slot + 1] ELSE Nothing

At(d, index) == IF index >= d.size THEN NULL ELSE <<Peek(d, d.frontIndex + index)>>
DequeFront(d) == IF d.size = 0 THEN NULL ELSE <<Peek(d, d.frontIndex)>>
DequeBack(d) ==
  IF d.size = 0 THEN NULL ELSE <<Peek(d, (BlockCount(d) - 1) * BlockSize + d.backIndex)>>

Content(d) == [i \in 1..d.size |-> Peek(d, d.frontIndex + i - 1)]

-----------------------------------------------------------------------------

PushFront(d, x, memory) ==
  LET full == d.frontIndex = 0
      e == IF full THEN [d EXCEPT !.slots = Blocks(1) \o @, !.frontIndex = BlockSize] ELSE d
  IN  IF full /\ ~memory THEN d
      ELSE [e EXCEPT !.frontIndex = @ - 1, !.slots[e.frontIndex] = x, !.size = @ + 1]

\* deque_push_back and deque_emplace_back
PushBack(d, x, memory) ==
  LET full == d.backIndex = BlockSize - 1
      e == IF full THEN [d EXCEPT !.slots = @ \o Blocks(1), !.backIndex = SizeMax] ELSE d
      back == (e.backIndex + 1) % (SizeMax + 1)
  IN  IF full /\ ~memory THEN d
      ELSE [e EXCEPT !.backIndex = back, !.size = @ + 1,
                     !.slots[(BlockCount(e) - 1) * BlockSize + back + 1] = x]

\* Mutant: the blocks go, the index of the front stays.
ReclaimBlocksOnly(d) ==
  LET dead == d.frontIndex \div BlockSize
  IN  IF dead > 0 /\ dead * 2 >= BlockCount(d)
      THEN [d EXCEPT !.slots = SubSeq(@, dead * BlockSize + 1, Len(@))]
      ELSE d

\* The dead blocks in front are let go of when they are half of the blocks.
Reclaim(d) ==
  LET dead == d.frontIndex \div BlockSize
  IN  IF dead > 0 /\ dead * 2 >= BlockCount(d)
      THEN [d EXCEPT !.slots = SubSeq(@, dead * BlockSize + 1, Len(@)),
                     !.frontIndex = @ - dead * BlockSize]
      ELSE d

PopFront(d) ==
  IF d.size = 0 THEN d
  ELSE IF d.size = 1 THEN DequeCreate
  ELSE Reclaim([d EXCEPT !.frontIndex = @ + 1, !.size = @ - 1,
                         !.slots[d.frontIndex + 1] = Nothing])

\* A last block that is empty is let go of, and the one before it ends with the last item.
PopBack(d) ==
  IF d.size = 0 THEN d
  ELSE IF d.size = 1 THEN DequeCreate
  ELSE IF d.backIndex > 0
  THEN [d EXCEPT !.backIndex = @ - 1, !.size = @ - 1,
                 !.slots[(BlockCount(d) - 1) * BlockSize + d.backIndex + 1] = Nothing]
  ELSE [d EXCEPT !.backIndex = BlockSize - 1, !.size = @ - 1,
                 !.slots = IF BlockCount(d) > 1 THEN SubSeq(@, 1, Len(@) - BlockSize) ELSE @]

LastBlock(d) == (d.frontIndex + d.size - 1) \div BlockSize

\* backIndex anew from where the last item is
FromLayout(d) == [d EXCEPT !.backIndex = (d.frontIndex + d.size - 1) % BlockSize]

ShrinkToFit(d) ==
  LET first == d.frontIndex \div BlockSize
      live == LastBlock(d) - first + 1
  IN  IF d.size = 0 \/ (first = 0 /\ live = BlockCount(d)) THEN d
      ELSE FromLayout([d EXCEPT
             !.slots = SubSeq(@, first * BlockSize + 1, (first + live) * BlockSize),
             !.frontIndex = @ % BlockSize])

\* Mutant: the first item moves first, over those that are still to be moved.
MoveUpFromFirst(slots, slot, n) ==
  [i \in DOMAIN slots |-> IF i \in slot + 2..slot + n + 1 THEN slots[slot + 1] ELSE slots[i]]

\* The items from slot on, of which there are n, move by one.
MoveUp(slots, slot, n) ==
  [i \in DOMAIN slots |-> IF i \in slot + 2..slot + n + 1 THEN slots[i - 1] ELSE slots[i]]
MoveDown(slots, slot, n) ==
  [i \in DOMAIN slots |-> CASE i \in slot..slot + n - 1 -> slots[i + 1]
                            [] i = slot + n -> Nothing
                            [] OTHER -> slots[i]]

\* deque_insert and deque_emplace
Insert(d, index, x, memory) ==
  LET at == d.frontIndex + index
      full == d.frontIndex + d.size >= BlockSize * BlockCount(d)
      e == IF full THEN [d EXCEPT !.slots = @ \o Blocks(1)] ELSE d
  IN  CASE index > d.size -> d
        [] index = 0 -> PushFront(d, x, memory)
        [] index = d.size /\ index # 0 -> PushBack(d, x, memory)
        [] index \in 1..d.size - 1 /\ full /\ ~memory -> d
        [] OTHER -> FromLayout([e EXCEPT !.size = @ + 1,
                      !.slots = [MoveUp(@, at, d.size - index) EXCEPT ![at + 1] = x]])

Erase(d, index) ==
  LET e == FromLayout([d EXCEPT !.size = @ - 1,
             !.slots = MoveDown(@, d.frontIndex + index + 1, d.size - index - 1)])
  IN  CASE index >= d.size -> d
        [] index < d.size /\ d.size = 1 -> DequeCreate
        [] OTHER -> [e EXCEPT !.slots = SubSeq(@, 1, (LastBlock(e) + 1) * BlockSize)]

PushAll(d, s, memory) == FoldLeft(LAMBDA e, x : PushBack(e, x, memory), d, s)

RECURSIVE Resize(_, _)
Resize(d, n) ==
  CASE d.size < n -> Resize(PushBack(d, Zero, TRUE), n)
    [] d.size > n -> Resize(PopBack(d), n)
    [] OTHER -> d

-----------------------------------------------------------------------------

\* No function of a deque reports whether it went well.
CallPush(o, x, memory) ==
  LET n == deque[o].size
      Done(op, args, d) == Becomes(o, d) /\ call' = Call(op, o, args, memory, TRUE, NULL)
  IN  /\ n < MaxLength
      /\ \/ \E op \in {"push_front", "emplace_front"} :
              Done(op, <<x>>, PushFront(deque[o], x, memory))
         \/ \E op \in {"push_back", "emplace_back"} :
              Done(op, <<x>>, PushBack(deque[o], x, memory))
         \/ \E op \in {"insert", "emplace"}, index \in 0..n + 1 :
              Done(op, <<index, x>>, Insert(deque[o], index, x, memory))

\* A pop hands nothing out.
CallPop(o) ==
  \/ Becomes(o, PopFront(deque[o])) /\ call' = Call("pop_front", o, <<>>, TRUE, TRUE, NULL)
  \/ Becomes(o, PopBack(deque[o])) /\ call' = Call("drop_back", o, <<>>, TRUE, TRUE, NULL)

CallErase(o, index) ==
  /\ Becomes(o, Erase(deque[o], index))
  /\ call' = Call("erase", o, <<index, 1>>, TRUE, TRUE, NULL)

\* Without memory for the item that is zero nothing is done. Where there is that
\* but none for a block, deque_resize does not return: there is no such step.
CallResize(o, n, memory) ==
  /\ Becomes(o, IF n > deque[o].size /\ ~memory THEN deque[o] ELSE Resize(deque[o], n))
  /\ call' = Call("resize", o, <<n>>, memory, TRUE, NULL)

\* deque_assign
CallFill(o, n, x, memory) ==
  LET s == [i \in 1..n |-> x]
  IN  /\ Becomes(o, PushAll(DequeCreate, s, memory))
      /\ call' = Call("fill", o, s, memory, TRUE, NULL)

CallClear(o) ==
  /\ Becomes(o, DequeCreate)
  /\ call' = Call("clear", o, <<>>, TRUE, TRUE, NULL)

CallShrinkToFit(o) ==
  /\ Becomes(o, ShrinkToFit(deque[o]))
  /\ call' = Call("shrink_to_fit", o, <<>>, TRUE, TRUE, NULL)

CallSwap(o, p) ==
  /\ deque' = [deque EXCEPT ![o] = deque[p], ![p] = deque[o]]
  /\ call' = CallOf("swap", o, p, <<>>, TRUE, TRUE, NULL)

Next ==
  \E o \in Objects, memory \in BOOLEAN :
    \/ \E x \in Items : CallPush(o, x, memory)
    \/ CallPop(o)
    \/ \E index \in 0..MaxLength : CallErase(o, index)
    \/ \E n \in 0..MaxLength : CallResize(o, n, memory)
    \/ \E n \in 0..MaxLength, x \in Items : CallFill(o, n, x, memory)
    \/ CallClear(o)
    \/ CallShrinkToFit(o)
    \/ \E p \in Objects : CallSwap(o, p)

Spec == Init /\ [][Next]_vars

-----------------------------------------------------------------------------
(* The iterators, by the slot they are at: what they come by until they    *)
(* point nowhere                                                           *)

IsPastEnd(d, slot) ==
  LET block == slot \div BlockSize
  IN  block >= BlockCount(d) \/ (block = BlockCount(d) - 1 /\ slot % BlockSize > d.backIndex)

\* deque_begin and iterator_increment
Forward(d) ==
  LET from[slot \in 0..Len(d.slots)] ==
        <<Peek(d, slot)>> \o (IF IsPastEnd(d, slot + 1) THEN <<>> ELSE from[slot + 1])
  IN  IF d.size = 0 THEN <<>> ELSE from[d.frontIndex]

\* deque_rbegin and iterator_increment, or iterator_decrement from the last item
Backward(d) ==
  LET from[slot \in 0..Len(d.slots)] ==
        <<Peek(d, slot)>> \o (IF slot <= d.frontIndex THEN <<>> ELSE from[slot - 1])
  IN  IF d.size = 0 THEN <<>> ELSE from[d.frontIndex + d.size - 1]

\* Mutant: what one deque has more than the other is left out.
CompareCommon(d, e) ==
  LET n == IF d.size < e.size THEN d.size ELSE e.size
      differing == {i \in 0..n - 1 : At(d, i) # At(e, i)}
      first == CHOOSE i \in differing : \A j \in differing : i <= j
  IN  IF differing = {} THEN 0 ELSE At(d, first)[1] - At(e, first)[1]

\* dq_lex_compare
Compare(d, e) ==
  LET n == IF d.size < e.size THEN d.size ELSE e.size
      differing == {i \in 0..n - 1 : At(d, i) # At(e, i)}
      first == CHOOSE i \in differing : \A j \in differing : i <= j
  IN  IF differing = {} THEN d.size - e.size ELSE At(d, first)[1] - At(e, first)[1]

\* deque_back is the last item.
BackIsLast ==
  \A o \in Objects :
    deque[o].size > 0 => DequeBack(deque[o]) = At(deque[o], deque[o].size - 1)

\* Every item of a deque is an item that was put in, never what a dead slot holds.
\* From both ends, by index and by either iterator the same items are found.
DequeWellFormed ==
  /\ \A o \in Objects :
       LET d == deque[o]
       IN  /\ \A i \in 1..d.size : Content(d)[i] \in Items
           /\ Forward(d) = Content(d)
           /\ Backward(d) = Reverse(Content(d))
           /\ DequeFront(d) = At(d, 0)
  /\ BackIsLast

\* Deques compare as the sequences they hold, wherever these are in the blocks.
DequeOrder ==
  \A o, p \in Objects :
    /\ Compare(deque[o], deque[p]) < 0 <=> LexLess(Content(deque[o]), Content(deque[p]))
    /\ Compare(deque[o], deque[p]) = 0 <=> Content(deque[o]) = Content(deque[p])

DequeSequence ==
  INSTANCE ItemSequence WITH
    items <- [o \in Objects |-> Content(deque[o])],
    Silent <- {"push_front", "push_back", "emplace_front", "emplace_back", "insert", "emplace",
               "pop_front", "drop_back", "erase", "resize", "fill", "clear",
               "shrink_to_fit", "swap"},
    Key <- LAMBDA x : x

\* A deque is the sequence its calls say, at both ends and in the middle, and a call
\* that finds no memory for a block leaves it alone.
DequeIsSequence == DequeSequence!Spec
===============================================================================
