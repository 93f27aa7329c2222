-------------------------------- MODULE SetTree --------------------------------
(***************************************************************************)
(* set/set.c: sets of elements, kept as the red-black trees of             *)
(* RedBlackTree, which the code has a second time here.                    *)
(***************************************************************************)
EXTENDS RedBlackTree

CONSTANTS
  Objects,
  Elements

VARIABLES
  set,
  call

vars == <<set, call>>

SetCreate == TreeCreate(1, FALSE)

Init ==
  /\ set = [o \in Objects |-> SetCreate]
  /\ call = NoCall

Size(o) == set[o].size
Plenty == Cardinality(Elements)   \* slabs enough for every element
Has(s, x) == Find(s, x) # Null
Insert(s, x) == IF Has(s, x) THEN s ELSE AddNode(s, x, Nothing)
Erase(s, x) == IF Has(s, x) THEN RemoveNode(s, Find(s, x)) ELSE s
Clear(s) == [PoolDestroy(s) EXCEPT !.root = Null, !.size = 0]

\* What a sequence of allocations comes to, where memory is had for so many slabs; made
\* is FALSE once a node could not be had.
Grow(step, x) ==
  LET s == step.tree
      slab == s.free = <<>> /\ s.room = 0 /\ ~Has(s, x)
  IN  IF slab /\ step.slabs = 0 THEN [step EXCEPT !.made = FALSE]
      ELSE [tree |-> Insert(s, x), made |-> step.made, slabs |-> step.slabs - (IF slab THEN 1 ELSE 0)]

Grown(s, slabs, elements) == FoldLeft(Grow, [tree |-> s, made |-> TRUE, slabs |-> slabs], elements)
Fresh(s) == TreeCreate(s.compare, FALSE)

\* rbset_clone_subtree: node by node from the root, left before right, in the same
\* shape; nothing once a node cannot be had
RECURSIVE PreOrder(_, _)
PreOrder(s, n) ==
  IF n = Null THEN <<>> ELSE <<n>> \o PreOrder(s, s.node[n].left) \o PreOrder(s, s.node[n].right)

Copy(s, slabs) ==
  LET order == PreOrder(s, s.root)
      new(n) == IF n = Null THEN Null ELSE CHOOSE i \in 1..Len(order) : order[i] = n
      pool == Grown(Fresh(s), slabs, [i \in 1..Len(order) |-> KeyAt(s, order[i])])
      node(i) == LET old == s.node[order[i]]
                 IN  [old EXCEPT !.left = new(@), !.right = new(@), !.parent = new(@)]
  IN  [made |-> pool.made, slabs |-> pool.slabs,
       tree |-> [pool.tree EXCEPT !.root = new(s.root), !.node = [i \in 1..Len(order) |-> node(i)]]]

\* set_union: what cannot be inserted into the copy of a is left out.
Union(a, b, slabs) ==
  LET copy == Copy(a, slabs)
  IN  IF ~copy.made THEN copy
      ELSE [tree |-> Grown(copy.tree, copy.slabs, Keys(b)).tree, made |-> TRUE]

Kept(a, slabs, elements) == [tree |-> Grown(Fresh(a), slabs, elements).tree, made |-> TRUE]

\* The smaller set is gone through, the other one asked.
Smaller(a, b) == IF a.size <= b.size THEN a ELSE b
Larger(a, b) == IF a.size <= b.size THEN b ELSE a

Intersection(a, b, slabs) ==
  Kept(a, slabs, SelectSeq(Keys(Smaller(a, b)), LAMBDA x : Has(Larger(a, b), x)))

Minus(a, b) == SelectSeq(Keys(a), LAMBDA x : ~Has(b, x))
Difference(a, b, slabs) == Kept(a, slabs, Minus(a, b))
SymmetricDifference(a, b, slabs) == Kept(a, slabs, Minus(a, b) \o Minus(b, a))

\* The functions that compare two sets; they go through one or both in order.
IsSubset(a, b) == a.size <= b.size /\ \A i \in 1..Len(Keys(a)) : Has(b, Keys(a)[i])
IsSuperset(a, b) == IsSubset(b, a)
IsDisjoint(a, b) == \A i \in 1..Len(Keys(Smaller(a, b))) : ~Has(Larger(a, b), Keys(Smaller(a, b))[i])

RECURSIVE LexCompare(_, _, _, _)
LexCompare(a, b, m, n) ==
  IF m # Null /\ n # Null
  THEN LET c == Cmp(a, KeyAt(a, m), KeyAt(b, n))
       IN  IF c # 0 THEN (IF c < 0 THEN -1 ELSE 1)
           ELSE LexCompare(a, b, Increment(a, m), Increment(b, n))
  ELSE IF m # Null THEN 1 ELSE IF n # Null THEN -1 ELSE 0

Compare(a, b) == LexCompare(a, b, Begin(a), Begin(b))
IsEqual(a, b) == a.size = b.size /\ Compare(a, b) = 0
IsNotEqual(a, b) == ~IsEqual(a, b)
IsLess(a, b) == Compare(a, b) < 0
IsLessOrEqual(a, b) == Compare(a, b) <= 0
IsGreater(a, b) == Compare(a, b) > 0
IsGreaterOrEqual(a, b) == Compare(a, b) >= 0

-----------------------------------------------------------------------------

Becomes(o, s) == set' = [set EXCEPT ![o] = s]

CallInsert(o, x, memory) ==
  LET s == set[o]
      new == ~Has(s, x) /\ CanAlloc(s, memory)
  IN  /\ Becomes(o, IF new THEN Insert(s, x) ELSE s)
      /\ call' = Call("emplace", o, <<x, Nothing>>, memory, new, NULL)

CallErase(o, x) ==
  /\ Becomes(o, Erase(set[o], x))
  /\ call' = Call("erase", o, <<x>>, TRUE, Has(set[o], x), NULL)

CallClear(o) ==
  /\ Becomes(o, Clear(set[o]))
  /\ call' = Call("clear", o, <<>>, TRUE, TRUE, NULL)

CallSwap(o, p) ==
  /\ set' = [set EXCEPT ![o] = set[p], ![p] = set[o]]
  /\ call' = CallOf("swap", o, p, <<>>, TRUE, TRUE, NULL)

\* The set that is made takes the place of o, unless there was none for want of memory.
CallMake(o, p, slabs) ==
  LET Made(op, new) ==
        /\ Becomes(o, IF new.made THEN new.tree ELSE set[o])
        /\ call' = CallOf(op, o, p, <<>>, slabs = Plenty, new.made, NULL)
  IN  \/ Made("copy", Copy(set[p], slabs))
      \/ Made("union", Union(set[o], set[p], slabs))
      \/ Made("intersection", Intersection(set[o], set[p], slabs))
      \/ Made("difference", Difference(set[o], set[p], slabs))
      \/ Made("symmetric_difference", SymmetricDifference(set[o], set[p], slabs))

Next ==
  \E o \in Objects :
    \/ \E x \in Elements :
         \/ \E memory \in BOOLEAN : CallInsert(o, x, memory)
         \/ CallErase(o, x)
    \/ CallClear(o)
    \/ \E p \in Objects : CallSwap(o, p) \/ \E slabs \in {1, Plenty} : CallMake(o, p, slabs)

Spec == Init /\ [][Next]_vars

-----------------------------------------------------------------------------

SetsWellFormed == \A o \in Objects : Balanced(set[o]) /\ InOrder(set[o], Elements)

SetFunction ==
  INSTANCE ItemMap WITH
    entries <- [o \in Objects |-> Entries(set[o])],
    owns <- [o \in Objects |-> FALSE],
    Owners <- {}

SetIsFunction == SetFunction!SpecButPartial

\* Sets compare as the sets they are, and in the order of their sorted elements.
SetsCompare ==
  \A o, p \in Objects :
    LET a == set[o]  b == set[p]
        x == DOMAIN Entries(a)  y == DOMAIN Entries(b)
        less == LexLess(Keys(a), Keys(b))
    IN  /\ IsSubset(a, b) = (x \subseteq y) /\ IsSuperset(a, b) = (y \subseteq x)
        /\ IsDisjoint(a, b) = (x \cap y = {})
        /\ IsEqual(a, b) = (x = y) /\ IsNotEqual(a, b) = (x # y)
        /\ IsLess(a, b) = less /\ IsGreaterOrEqual(a, b) = ~less
        /\ IsGreater(a, b) = LexLess(Keys(b), Keys(a))
        /\ IsLessOrEqual(a, b) = ~LexLess(Keys(b), Keys(a))

\* Iterators: an element keeps its node until it is erased.
SetNodesStay ==
  \A o \in Objects :
    call'.op \in {"emplace", "erase"} =>
      \A n \in NodesBelow(set[o], set[o].root) :
        LET x == KeyAt(set[o], n)
        IN  (call'.op = "erase" => x # call'.args[1]) =>
              n \in NodesBelow(set'[o], set'[o].root) /\ KeyAt(set'[o], n) = x
===============================================================================
