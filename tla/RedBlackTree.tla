----------------------------- MODULE RedBlackTree -----------------------------
(***************************************************************************)
(* The red-black trees of map/map.c; set/set.c has the same code again.    *)
(* Nodes come from slabs and go to a free list.  A tree is the record of a *)
(* struct Map: node is what has been handed out of its slabs, in order, a  *)
(* node is its index there; room is what the newest slab has left.  What a *)
(* node of the free list holds is not looked at.                           *)
(***************************************************************************)
EXTENDS Calls, SequencesExt

CONSTANTS
  FirstSlabCap,  \* RBMAP_FIRST_SLAB_CAP
  MaxSlabCap     \* RBMAP_MAX_SLAB_CAP

Null == 0
RED == 1
BLACK == 0

\* compare: 1 where smaller keys come first, -1 where larger ones do.  owns: whether
\* there are functions to deallocate keys and values.
TreeCreate(compare, owns) ==
  [root |-> Null, node |-> <<>>, free |-> <<>>, room |-> 0, slabCap |-> FirstSlabCap,
   size |-> 0, compare |-> compare, owns |-> owns]

Cmp(t, j, k) == t.compare * (j - k)

Color(t, n) == IF n = Null THEN BLACK ELSE t.node[n].color
Link(t, n, side, to) == [t EXCEPT !.node[n][side] = to]
SetParent(t, n, to) == IF n = Null THEN t ELSE [t EXCEPT !.node[n].parent = to]
Paint(t, n, color) == IF n = Null THEN t ELSE [t EXCEPT !.node[n].color = color]
Opposite(side) == IF side = "left" THEN "right" ELSE "left"
SideOf(t, n) == IF n = t.node[t.node[n].parent].left THEN "left" ELSE "right"

-----------------------------------------------------------------------------
(* The pool                                                                *)

\* Whether a node can be had: another slab only where there is memory
CanAlloc(t, memory) == t.free # <<>> \/ t.room > 0 \/ memory

\* rbmap_pool_alloc and rbmap_create_node: the node is TakenNode, and red.
TakenNode(t) == IF t.free # <<>> THEN Head(t.free) ELSE Len(t.node) + 1

CreateNode(t, key, value) ==
  LET fresh == [key |-> key, value |-> value,
                left |-> Null, right |-> Null, parent |-> Null, color |-> RED]
      slab == IF t.room > 0 THEN t
              ELSE [t EXCEPT !.room = t.slabCap,
                             !.slabCap = IF 2 * @ > MaxSlabCap THEN MaxSlabCap ELSE 2 * @]
  IN  IF t.free # <<>>
      THEN [t EXCEPT !.free = Tail(@), !.node[Head(t.free)] = fresh]
      ELSE [slab EXCEPT !.room = @ - 1, !.node = Append(@, fresh)]

PoolFree(t, n) == [t EXCEPT !.free = <<n>> \o @]

PoolDestroy(t) == [t EXCEPT !.node = <<>>, !.free = <<>>, !.room = 0]

-----------------------------------------------------------------------------
(* The shape                                                               *)

\* v in the place of u, below the parent of u
Transplant(t, u, v) ==
  LET parent == t.node[u].parent
      linked == IF parent = Null THEN [t EXCEPT !.root = v] ELSE Link(t, parent, SideOf(t, u), v)
  IN  SetParent(linked, v, parent)

\* rbmap_left_rotate where side is left: x goes down on that side, its child on the
\* other side comes up.
Rotate(t, x, side) ==
  LET y == t.node[x][Opposite(side)]
      inner == t.node[y][side]
      handed == SetParent(Link(t, x, Opposite(side), inner), inner, x)
  IN  IF y = Null THEN t
      ELSE SetParent(Link(Transplant(handed, x, y), y, side, x), x, y)

RECURSIVE Extreme(_, _, _)
Extreme(t, n, side) ==
  IF n = Null \/ t.node[n][side] = Null THEN n ELSE Extreme(t, t.node[n][side], side)

Minimum(t, n) == Extreme(t, n, "left")

\* Mutant: the grandparent stays black when the colours are moved up.
RECURSIVE InsertFixupPale(_, _)
InsertFixupPale(t, n) ==
  LET parent == t.node[n].parent
      grand == t.node[parent].parent
      side == SideOf(t, parent)
      uncle == t.node[grand][Opposite(side)]
      inner == n = t.node[parent][Opposite(side)]
      straight == IF inner THEN Rotate(t, parent, side) ELSE t
      turned == Rotate(Paint(straight, IF inner THEN n ELSE parent, BLACK), grand, Opposite(side))
  IN  IF n = t.root \/ Color(t, parent) # RED THEN Paint(t, t.root, BLACK)
      ELSE IF Color(t, uncle) = RED
      THEN InsertFixupPale(Paint(Paint(Paint(t, parent, BLACK), uncle, BLACK), grand, RED), grand)
      ELSE Paint(turned, turned.root, BLACK)

RECURSIVE InsertFixup(_, _)
InsertFixup(t, n) ==
  LET parent == t.node[n].parent
      grand == t.node[parent].parent
      side == SideOf(t, parent)
      uncle == t.node[grand][Opposite(side)]
      inner == n = t.node[parent][Opposite(side)]
      straight == IF inner THEN Rotate(t, parent, side) ELSE t
      painted == Paint(Paint(straight, IF inner THEN n ELSE parent, BLACK), grand, RED)
      turned == Rotate(painted, grand, Opposite(side))
  IN  IF n = t.root \/ Color(t, parent) # RED THEN Paint(t, t.root, BLACK)
      ELSE IF Color(t, uncle) = RED
      THEN InsertFixup(Paint(Paint(Paint(t, parent, BLACK), uncle, BLACK), grand, RED), grand)
      ELSE Paint(turned, turned.root, BLACK)

\* Below xParent on the side of x one black node is missing.
RECURSIVE EraseFixup(_, _, _)
EraseFixup(t, x, xParent) ==
  LET parent == IF x # Null THEN t.node[x].parent ELSE xParent
      side == IF x = t.node[parent].left THEN "left" ELSE "right"
      far == Opposite(side)
      redSibling == Color(t, t.node[parent][far]) = RED
      u == IF redSibling
           THEN Rotate(Paint(Paint(t, t.node[parent][far], BLACK), parent, RED), parent, side)
           ELSE t
      w == u.node[parent][far]
      near == u.node[w][side]
      v == IF Color(u, u.node[w][far]) = BLACK
           THEN Rotate(Paint(Paint(u, near, BLACK), w, RED), w, far)
           ELSE u
      sibling == v.node[parent][far]
      done == Rotate(Paint(Paint(Paint(v, sibling, v.node[parent].color), parent, BLACK),
                           v.node[sibling][far], BLACK),
                     parent, side)
  IN  IF x = t.root \/ Color(t, x) = RED \/ parent = Null THEN Paint(t, x, BLACK)
      ELSE IF w = Null THEN Paint(u, x, BLACK)
      ELSE IF Color(u, near) = BLACK /\ Color(u, u.node[w][far]) = BLACK
      THEN EraseFixup(Paint(u, w, RED), parent, u.node[parent].parent)
      ELSE Paint(done, done.root, BLACK)

-----------------------------------------------------------------------------
(* By key                                                                  *)

\* The way down from n to a key: where it is, and what the last node was
RECURSIVE Descend(_, _, _, _)
Descend(t, n, parent, key) ==
  IF n = Null \/ Cmp(t, key, t.node[n].key) = 0 THEN [at |-> n, parent |-> parent]
  ELSE Descend(t, IF Cmp(t, key, t.node[n].key) < 0 THEN t.node[n].left ELSE t.node[n].right, n, key)

Search(t, key) == Descend(t, t.root, Null, key)
Find(t, key) == Search(t, key).at

\* What insertions do where the key is not there
AddNode(t, key, value) ==
  LET parent == Search(t, key).parent
      n == TakenNode(t)
      made == CreateNode(t, key, value)
      side == IF Cmp(t, key, t.node[parent].key) < 0 THEN "left" ELSE "right"
      linked == IF parent = Null THEN [made EXCEPT !.root = n]
                ELSE SetParent(Link(made, parent, side, n), n, parent)
  IN  InsertFixup([linked EXCEPT !.size = @ + 1], n)

\* Mutant: the successor's entry is copied into z and the successor's node freed.
RemoveNodeByCopy(t, z) ==
  LET y == Minimum(t, t.node[z].right)
      two == t.node[z].left # Null /\ t.node[z].right # Null
      gone == IF two THEN y ELSE z
      child == IF t.node[gone].left = Null THEN t.node[gone].right ELSE t.node[gone].left
      copied == IF two THEN [t EXCEPT !.node[z].key = t.node[y].key, !.node[z].value = t.node[y].value] ELSE t
      out == Transplant(copied, gone, child)
      fixed == IF t.node[gone].color = BLACK THEN EraseFixup(out, child, t.node[gone].parent) ELSE out
  IN  [PoolFree(fixed, gone) EXCEPT !.size = @ - 1]

\* The node z out of the tree, its successor in its place where it has two children
RemoveNode(t, z) ==
  LET node == t.node[z]
      y == Minimum(t, node.right)
      x == t.node[y].right
      below == t.node[y].parent # z
      lifted == IF below
                THEN LET up == Transplant(t, y, x)
                     IN  SetParent(Link(up, y, "right", node.right), node.right, y)
                ELSE t
      moved == Transplant(lifted, z, y)
      joined == Paint(SetParent(Link(moved, y, "left", node.left), node.left, y), y, node.color)
      one == IF node.left = Null THEN node.right ELSE node.left
      fixed == IF node.left # Null /\ node.right # Null
               THEN IF t.node[y].color = BLACK
                    THEN EraseFixup(joined, x, IF below THEN t.node[y].parent ELSE y)
                    ELSE joined
               ELSE IF node.color = BLACK
                    THEN EraseFixup(Transplant(t, z, one), one, node.parent)
                    ELSE Transplant(t, z, one)
  IN  [PoolFree(fixed, z) EXCEPT !.size = @ - 1]

\* The first node whose key comes after (or is) the key; n goes down, last is the best yet
RECURSIVE BoundFrom(_, _, _, _, _)
BoundFrom(t, n, last, key, least) ==
  IF n = Null THEN last
  ELSE IF Cmp(t, t.node[n].key, key) >= least
       THEN BoundFrom(t, t.node[n].left, n, key, least)
       ELSE BoundFrom(t, t.node[n].right, last, key, least)

LowerBound(t, key) == BoundFrom(t, t.root, Null, key, 0)
UpperBound(t, key) == BoundFrom(t, t.root, Null, key, 1)
EqualRange(t, key) == <<LowerBound(t, key), UpperBound(t, key)>>

-----------------------------------------------------------------------------
(* Iterators: a node, and Null past either end                             *)

Begin(t) == Extreme(t, t.root, "left")
RBegin(t) == Extreme(t, t.root, "right")

\* Up from n, as long as it is the child on that side
RECURSIVE Climb(_, _, _)
Climb(t, n, side) ==
  LET parent == t.node[n].parent
  IN  IF parent # Null /\ t.node[parent][side] = n THEN Climb(t, parent, side) ELSE parent

StepTo(t, n, side) ==
  IF n = Null THEN Null
  ELSE IF t.node[n][side] # Null THEN Extreme(t, t.node[n][side], Opposite(side))
  ELSE Climb(t, n, side)

Increment(t, n) == StepTo(t, n, "right")
Decrement(t, n) == StepTo(t, n, "left")

\* The nodes that an iterator comes by; of a tree that is broken, at most one more than there are
RECURSIVE WalkFrom(_, _, _, _)
WalkFrom(t, n, side, most) ==
  IF n = Null \/ most = 0 THEN <<>>
  ELSE <<n>> \o WalkFrom(t, StepTo(t, n, side), side, most - 1)

Forwards(t) == WalkFrom(t, Begin(t), "right", Len(t.node) + 1)
Backwards(t) == WalkFrom(t, RBegin(t), "left", Len(t.node) + 1)

KeyAt(t, n) == t.node[n].key
Keys(t) == LET walk == Forwards(t) IN [i \in 1..Len(walk) |-> KeyAt(t, walk[i])]

\* The tree as a function from keys to values
RECURSIVE EntriesBelow(_, _)
EntriesBelow(t, n) ==
  IF n = Null THEN <<>>
  ELSE EntriesBelow(t, t.node[n].left) @@ (t.node[n].key :> t.node[n].value)
         @@ EntriesBelow(t, t.node[n].right)

Entries(t) == EntriesBelow(t, t.root)

-----------------------------------------------------------------------------
(* What a tree keeps                                                       *)

RECURSIVE NodesBelow(_, _)
NodesBelow(t, n) ==
  IF n = Null THEN {} ELSE {n} \cup NodesBelow(t, t.node[n].left) \cup NodesBelow(t, t.node[n].right)

\* The shape below n, by keys, whichever nodes these are
RECURSIVE ShapeOf(_, _)
ShapeOf(t, n) ==
  IF n = Null THEN <<>>
  ELSE LET node == t.node[n]
           above == IF node.parent = Null THEN Nothing ELSE t.node[node.parent].key
       IN  <<ShapeOf(t, node.left), node.key, node.value, node.color, above, ShapeOf(t, node.right)>>

\* Two trees alike in this can do the same.
View(t) == [t EXCEPT !.root = Len(t.node), !.node = ShapeOf(t, t.root), !.free = Len(@)]

\* The black nodes on the way down from n, or -1 where that is not one number
RECURSIVE BlackHeight(_, _)
BlackHeight(t, n) ==
  IF n = Null THEN 0
  ELSE LET l == BlackHeight(t, t.node[n].left)
           r == BlackHeight(t, t.node[n].right)
       IN  IF l = r /\ l # -1 THEN l + (IF Color(t, n) = BLACK THEN 1 ELSE 0) ELSE -1

\* Parents and children agree; no red node has a red child, the root is black and every
\* way down has as many black nodes, so that the tree is never more than twice as deep
\* as it needs to be; size counts the nodes, and each slot of the slabs is either in the
\* tree or once in the free list.
Balanced(t) ==
  LET nodes == NodesBelow(t, t.root)
  IN  /\ t.root # Null => t.node[t.root].parent = Null /\ Color(t, t.root) = BLACK
      /\ \A n \in nodes, side \in {"left", "right"} :
           LET child == t.node[n][side]
           IN  child # Null => t.node[child].parent = n /\ ~(Color(t, n) = RED /\ Color(t, child) = RED)
      /\ BlackHeight(t, t.root) # -1
      /\ t.size = Cardinality(nodes)
      /\ nodes \cap ToSet(t.free) = {}
      /\ IsInjective(t.free)
      /\ nodes \cup ToSet(t.free) = 1..Len(t.node)

\* The iterators come by the keys in order, from either end; the searches find what is
\* there and the bounds are the neighbours of the key, also of one that is not there.
InOrder(t, keys) ==
  LET walk == Forwards(t)
      after(k, least) == {i \in 1..Len(walk) : Cmp(t, KeyAt(t, walk[i]), k) >= least}
      first(s) == IF s = {} THEN Null ELSE walk[CHOOSE i \in s : \A j \in s : i <= j]
  IN  /\ \A i \in 1..Len(walk) - 1 : Cmp(t, KeyAt(t, walk[i]), KeyAt(t, walk[i + 1])) < 0
      /\ ToSet(walk) = NodesBelow(t, t.root)
      /\ Backwards(t) = Reverse(walk)
      /\ \A k \in keys :
           /\ EqualRange(t, k) = <<first(after(k, 0)), first(after(k, 1))>>
           /\ Find(t, k) = IF LowerBound(t, k) = UpperBound(t, k) THEN Null ELSE LowerBound(t, k)
===============================================================================
