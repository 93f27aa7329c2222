--------------------------------- MODULE Vector ---------------------------------
(***************************************************************************)
(* Vectors, and the queues and stacks that are a vector inside, called in  *)
(* any order, each call with or without memory to be had.  vector/vector.c *)
(* is used as it is; queue/queue.c: a vector whose first frontIndex slots  *)
(* are dead; what was popped is forgotten: a dead slot holds Nothing;      *)
(* stack/stack.c: a vector that is used at its back.                       *)
(***************************************************************************)
EXTENDS VectorOps

CONSTANTS
  Objects,
  Items,
  MaxLength   \* bounds the items of an object: no memory holds SizeMax of them

ASSUME VectorClientAssumption ==
  /\ Items \subseteq Nat
  /\ Zero \in Items
  /\ MaxLength \in 0..SizeMax \div ItemSize

VARIABLES
  vector,     \* the struct of each vector
  call,
  queue,      \* the struct of each queue
  queueCall,
  stack,      \* the vector of each stack
  stackCall

vars == <<vector, call>>
queueVars == <<queue, queueCall>>
stackVars == <<stack, stackCall>>

-----------------------------------------------------------------------------
(* The vector                                                              *)

Init ==
  /\ vector = [o \in Objects |-> VectorCreate]
  /\ call = NoCall

Becomes(o, v) == vector' = [vector EXCEPT ![o] = v]
Grew(o, v) == Size(v) = Size(vector[o]) + 1

CallPushBack(o, op, x, memory) ==
  LET v == PushBack(vector[o], x, memory)
  IN  /\ Size(vector[o]) < MaxLength
      /\ Becomes(o, v)
      /\ call' = Call(op, o, <<x>>, memory, Grew(o, v), NULL)

CallInsert(o, op, pos, x, memory) ==
  /\ Size(vector[o]) < MaxLength
  /\ Becomes(o, Insert(vector[o], pos, x, memory))
  /\ call' = Call(op, o, <<pos, x>>, memory, TRUE, NULL)

CallErase(o, pos, len) ==
  /\ pos + len <= SizeMax
  /\ Becomes(o, Erase(vector[o], pos, len))
  /\ call' = Call("erase", o, <<pos, len>>, TRUE, TRUE, NULL)

\* vector_assign
CallReplace(o, pos, x) ==
  /\ Becomes(o, Replace(vector[o], pos, x))
  /\ call' = Call("replace", o, <<pos, x>>, TRUE, TRUE, NULL)

\* The item handed out is in the slot past the end.
CallPopBack(o) ==
  /\ Becomes(o, PopBack(vector[o]))
  /\ call' = Call("pop_back", o, <<>>, TRUE, Size(vector[o]) > 0, BackItem(vector[o]))

CallClear(o) ==
  /\ Becomes(o, Clear(vector[o]))
  /\ call' = Call("clear", o, <<>>, TRUE, TRUE, NULL)

\* There is no memory for more than can be addressed.
CallReserve(o, size, memory) ==
  LET v == Reserve(vector[o], size, memory)
  IN  /\ Becomes(o, v)
      /\ call' = Call("reserve", o, <<size>>, memory /\ size <= SizeMax \div ItemSize,
                      Reserved(v, size), NULL)

CallResize(o, size, memory) ==
  /\ Becomes(o, Resize(vector[o], size, memory))
  /\ call' = Call("resize", o, <<size>>, memory, TRUE, NULL)

CallShrinkToFit(o, memory) ==
  /\ Becomes(o, ShrinkToFit(vector[o], memory))
  /\ call' = Call("shrink_to_fit", o, <<>>, memory, TRUE, NULL)

CallSwap(o, p) ==
  /\ vector' = [vector EXCEPT ![o] = vector[p], ![p] = vector[o]]
  /\ call' = CallOf("swap", o, p, <<>>, TRUE, TRUE, NULL)

Next ==
  \E o \in Objects, memory \in BOOLEAN :
    \/ \E x \in Items, op \in {"push_back", "emplace_back"} : CallPushBack(o, op, x, memory)
    \/ \E x \in Items, op \in {"insert", "emplace"}, pos \in 0..Size(vector[o]) + 1 :
         CallInsert(o, op, pos, x, memory)
    \/ \E pos, len \in 0..MaxLength : CallErase(o, pos, len)
    \/ \E x \in Items, pos \in 0..MaxLength : CallReplace(o, pos, x)
    \/ CallPopBack(o)
    \/ CallClear(o)
    \/ \E size \in 0..SizeMax : CallReserve(o, size, memory)
    \/ \E size \in 0..MaxLength : CallResize(o, size, memory)
    \/ CallShrinkToFit(o, memory)
    \/ \E p \in Objects : CallSwap(o, p)

Spec == Init /\ [][Next]_vars

-----------------------------------------------------------------------------

\* No vector has more items than slots, whatever failed, wrapped or was shrunk.
VectorFits == \A o \in Objects : Fits(vector[o])

\* Vectors compare as sequences do.
VectorOrder == \A o, p \in Objects : ComparesAsOneOrder(vector[o], vector[p])

-----------------------------------------------------------------------------

VectorSequence ==
  INSTANCE ItemSequence WITH
    items <- [o \in Objects |-> vector[o].items],
    Silent <- {"insert", "emplace", "erase", "replace", "clear", "resize", "shrink_to_fit", "swap"},
    Key <- LAMBDA x : x

\* A vector is the sequence its calls say, and a call without memory leaves it alone.
VectorIsSequence == VectorSequence!Spec

-----------------------------------------------------------------------------
(* The queue                                                               *)

QueueCreate == [vec |-> VectorCreate, frontIndex |-> 0]

QueueInit ==
  /\ queue = [o \in Objects |-> QueueCreate]
  /\ queueCall = NoCall

QueueBecomes(o, q) == queue' = [queue EXCEPT ![o] = q]

Live(q) == SubSeq(q.vec.items, q.frontIndex + 1, Size(q.vec))
Length(q) == Size(q.vec) - q.frontIndex

QueueFront(q) == IF Length(q) = 0 THEN NULL ELSE At(q.vec, q.frontIndex)
QueueBack(q) == IF Length(q) = 0 THEN NULL ELSE At(q.vec, Size(q.vec) - 1)

QueueAt(q, index) == IF index >= Length(q) THEN NULL ELSE At(q.vec, q.frontIndex + index)

\* qbuf_compact
Compact(q) == [q EXCEPT !.vec.items = Live(q), !.frontIndex = 0]

\* The dead slots are reclaimed when the buffer is full, instead of growing it.
MakeRoom(q) == IF ~HasRoom(q.vec) /\ q.frontIndex > 0 THEN Compact(q) ELSE q

\* queue_push and queue_emplace, which hands out the item it has put at the back
QueuePush(o, x, memory) ==
  LET made == MakeRoom(queue[o])
      v == PushBack(made.vec, x, memory)
  IN  /\ Length(queue[o]) < MaxLength
      /\ QueueBecomes(o, [made EXCEPT !.vec = v])
      /\ \E op \in {"push_back", "emplace_back"} :
           queueCall' = Call(op, o, <<x>>, memory, Size(v) > Size(made.vec), NULL)

\* The last pop starts the buffer anew.
QueuePop(o) ==
  LET q == queue[o]
      popped == [q EXCEPT !.frontIndex = @ + 1, !.vec.items[q.frontIndex + 1] = Nothing]
  IN  /\ QueueBecomes(o, CASE Length(q) = 0 -> q
                           [] Length(q) = 1 -> [q EXCEPT !.vec.items = <<>>, !.frontIndex = 0]
                           [] OTHER -> popped)
      /\ queueCall' = Call("pop_front", o, <<>>, TRUE, TRUE, NULL)

QueueReserve(o, n, memory) ==
  LET v == Reserve(queue[o].vec, n, memory)
  IN  /\ QueueBecomes(o, [queue[o] EXCEPT !.vec = v])
      /\ queueCall' = Call("reserve", o, <<n>>, memory, Reserved(v, n), NULL)

QueueSwap(o, p) ==
  /\ queue' = [queue EXCEPT ![o] = queue[p], ![p] = queue[o]]
  /\ queueCall' = CallOf("swap", o, p, <<>>, TRUE, TRUE, NULL)

\* algorithm_sort puts the live items in the order of comp.
QueueSort(o) ==
  /\ \E s \in [1..Length(queue[o]) -> Items] :
       /\ \A i \in 1..Len(s) - 1 : s[i] <= s[i + 1]
       /\ \A x \in Items : Cardinality({i \in 1..Len(s) : s[i] = x}) =
                           Cardinality({i \in 1..Len(s) : Live(queue[o])[i] = x})
       /\ QueueBecomes(o, [Compact(queue[o]) EXCEPT !.vec.items = s])
  /\ queueCall' = Call("sort", o, <<>>, TRUE, TRUE, NULL)

QueueAssign(o, src, memory) ==
  LET v == AssignItems(queue[o].vec, Live(queue[src]), memory)
  IN  /\ IF o = src THEN UNCHANGED queue ELSE QueueBecomes(o, [vec |-> v, frontIndex |-> 0])
      /\ queueCall' = CallOf("assign", o, src, <<>>, memory,
                             o = src \/ Size(v) = Length(queue[src]), NULL)

\* queue_copy into an object that was deallocated
QueueCopy(o, src, memory) ==
  LET v == AssignItems(VectorCreate, Live(queue[src]), memory)
      ok == memory /\ Size(v) = Length(queue[src])
  IN  /\ o # src
      /\ IF ok THEN QueueBecomes(o, [vec |-> v, frontIndex |-> 0]) ELSE UNCHANGED queue
      /\ queueCall' = CallOf("copy", o, src, <<>>, memory, ok, NULL)

QueueNext ==
  \E o \in Objects, memory \in BOOLEAN :
    \/ \E x \in Items : QueuePush(o, x, memory)
    \/ QueuePop(o)
    \/ \E n \in 0..MaxLength : QueueReserve(o, n, memory)
    \/ \E p \in Objects : QueueSwap(o, p) \/ QueueAssign(o, p, memory) \/ QueueCopy(o, p, memory)
    \/ QueueSort(o)

QueueSpec == QueueInit /\ [][QueueNext]_queueVars

-----------------------------------------------------------------------------

\* queue_is_equal and qbuf_lex_compare, item by item from the two fronts
QueueCompare(q, r) ==
  LET n == IF Length(q) < Length(r) THEN Length(q) ELSE Length(r)
      differing == {i \in 0..n - 1 : QueueAt(q, i) # QueueAt(r, i)}
      first == CHOOSE i \in differing : \A j \in differing : i <= j
  IN  IF differing = {} THEN Length(q) - Length(r)
      ELSE QueueAt(q, first)[1] - QueueAt(r, first)[1]

QueueIsEqual(q, r) == Length(q) = Length(r) /\ QueueCompare(q, r) = 0
QueueIsLess(q, r) == QueueCompare(q, r) < 0
QueueIsGreater(q, r) == QueueCompare(q, r) > 0

\* A queue fits its buffer, and its dead slots are in front of live ones: an empty
\* queue has none. What can be looked at is what is queued, in its order.
QueueWellFormed ==
  \A o \in Objects :
    LET q == queue[o]
    IN  /\ Fits(q.vec)
        /\ q.frontIndex < Size(q.vec) \/ (q.frontIndex = 0 /\ Size(q.vec) = 0)
        /\ \A i \in 0..MaxLength : QueueAt(q, i) = IF i < Length(q) THEN <<Live(q)[i + 1]>> ELSE NULL
        /\ QueueFront(q) = QueueAt(q, 0)
        /\ Length(q) > 0 => QueueBack(q) = QueueAt(q, Length(q) - 1)

\* Queues compare as the sequences they hold, wherever these begin.
QueueOrder ==
  \A o, p \in Objects :
    LET q == queue[o] r == queue[p]
    IN  /\ QueueIsLess(q, r) <=> LexLess(Live(q), Live(r))
        /\ QueueIsGreater(q, r) <=> LexLess(Live(r), Live(q))
        /\ QueueIsEqual(q, r) <=> Live(q) = Live(r)

QueueSequence ==
  INSTANCE ItemSequence WITH
    items <- [o \in Objects |-> Live(queue[o])],
    call <- queueCall,
    Silent <- {"pop_front", "swap", "sort"},
    Key <- LAMBDA x : x

\* A queue is the sequence its calls say: first in, first out.
QueueIsSequence == QueueSequence!Spec

-----------------------------------------------------------------------------
(* The stack                                                               *)

StackInit ==
  /\ stack = [o \in Objects |-> VectorCreate]
  /\ stackCall = NoCall

StackBecomes(o, v) == stack' = [stack EXCEPT ![o] = v]

\* stack_top
Top(v) == BackItem(v)

\* stack_push and stack_emplace
StackPush(o, x, memory) ==
  LET v == PushBack(stack[o], x, memory)
  IN  /\ Size(stack[o]) < MaxLength
      /\ StackBecomes(o, v)
      /\ \E op \in {"push_back", "emplace_back"} :
           stackCall' = Call(op, o, <<x>>, memory, Size(v) > Size(stack[o]), NULL)

\* stack_pop and stack_pop_value hand out the item, stack_pop_void does not.
StackPop(o) ==
  LET popped == Size(stack[o]) > 0
  IN  /\ StackBecomes(o, PopBack(stack[o]))
      /\ \/ stackCall' = Call("pop_back", o, <<>>, TRUE, popped, Top(stack[o]))
         \/ stackCall' = Call("drop_back", o, <<>>, TRUE, popped, NULL)

StackClear(o) ==
  /\ StackBecomes(o, Clear(stack[o]))
  /\ stackCall' = Call("clear", o, <<>>, TRUE, TRUE, NULL)

StackReserve(o, n, memory) ==
  LET v == Reserve(stack[o], n, memory)
  IN  /\ StackBecomes(o, v)
      /\ stackCall' = Call("reserve", o, <<n>>, memory, Reserved(v, n), NULL)

StackSwap(o, p) ==
  /\ stack' = [stack EXCEPT ![o] = stack[p], ![p] = stack[o]]
  /\ stackCall' = CallOf("swap", o, p, <<>>, TRUE, TRUE, NULL)

StackAssign(o, src, memory) ==
  LET v == AssignItems(stack[o], stack[src].items, memory)
  IN  /\ IF o = src THEN UNCHANGED stack ELSE StackBecomes(o, v)
      /\ stackCall' = CallOf("assign", o, src, <<>>, memory,
                             o = src \/ Size(v) = Size(stack[src]), NULL)

\* stack_copy into an object that was deallocated
StackCopy(o, src, memory) ==
  LET v == AssignItems(VectorCreate, stack[src].items, memory)
      ok == memory /\ Size(v) = Size(stack[src])
  IN  /\ o # src
      /\ IF ok THEN StackBecomes(o, v) ELSE UNCHANGED stack
      /\ stackCall' = CallOf("copy", o, src, <<>>, memory, ok, NULL)

StackNext ==
  \E o \in Objects, memory \in BOOLEAN :
    \/ \E x \in Items : StackPush(o, x, memory)
    \/ StackPop(o)
    \/ StackClear(o)
    \/ \E n \in 0..MaxLength : StackReserve(o, n, memory)
    \/ \E p \in Objects : StackSwap(o, p) \/ StackAssign(o, p, memory) \/ StackCopy(o, p, memory)

StackSpec == StackInit /\ [][StackNext]_stackVars

-----------------------------------------------------------------------------

StackSequence ==
  INSTANCE ItemSequence WITH
    items <- [o \in Objects |-> stack[o].items],
    call <- stackCall,
    Silent <- {"clear", "swap"},
    Key <- LAMBDA x : x

\* A stack is the sequence its calls say: what is popped is what was pushed last.
StackIsSequence == StackSequence!Spec
=================================================================================
