------------------------------ MODULE Ownership ------------------------------
(***************************************************************************)
(* variant/variant.c: a tagged union that owns the string or the custom    *)
(* value in it, and an array of them. A variant is [type, as]: as is the   *)
(* value of a primitive type, or the block of the string, or that of the   *)
(* custom value. The custom type here is variant_typeinfo_string, whose    *)
(* block holds a string of its own. Operations get the heap and return it; *)
(* room is how many allocations find memory.                               *)
(*                                                                         *)
(* In this order, each with its laws: variant.c, uniqueptr.c, tuple.c.     *)
(***************************************************************************)
EXTENDS Integers, Sequences, FiniteSets

Ext == INSTANCE SequencesExt
Q == INSTANCE Values
J == INSTANCE Json

Types == <<"none", "int", "long", "float", "double", "char", "bool", "pointer", "string", "custom">>
Rank(type) == CHOOSE i \in DOMAIN Types : Types[i] = type
VrtIsTrivial(type) == type \notin {"string", "custom"}

VariantNone == [type |-> "none", as |-> 0]
From(type, value) == [type |-> type, as |-> value]

\* ---------------------------------------------------------------- the heap --
Made(heap, v, done) == [heap |-> heap, v |-> v, done |-> done]
\* the text of a string that is NULL
NULL == <<-1>>
FromString(heap, text, room) ==
  IF text = NULL \/ room = 0 THEN Made(heap, VariantNone, text = NULL)
  ELSE Made(Q!Malloc(heap, [text |-> text]), From("string", Q!FreshBlock(heap)), TRUE)
\* The copy of the string is not looked at: without memory for it the block holds NULL.
FromCustom(heap, text, room) ==
  LET block == Q!FreshBlock(heap)
      bare == Q!Malloc(heap, [string |-> 0])
      whole == [Q!Malloc(bare, [text |-> text]) EXCEPT !.live[block].string = Q!FreshBlock(bare)]
  IN  IF room = 0 THEN Made(heap, VariantNone, FALSE)
      ELSE Made(IF text = NULL \/ room = 1 THEN bare ELSE whole, From("custom", block), TRUE)
CustomDestroy(heap, block) == IF block = 0 THEN heap ELSE Q!Free(Q!Free(heap, heap.live[block].string), block)
VariantDestroy(heap, v) ==
  CASE v.type = "string" -> Q!Free(heap, v.as)
    [] v.type = "custom" -> CustomDestroy(heap, v.as)
    [] OTHER -> heap
TextOf(heap, v) ==
  LET string == IF v.type = "string" THEN v.as ELSE heap.live[v.as].string
  IN  IF string = 0 THEN NULL ELSE heap.live[string].text
Clone(heap, v, room) ==
  CASE v.type = "string" -> FromString(heap, TextOf(heap, v), room)
    [] v.type = "custom" -> FromCustom(heap, TextOf(heap, v), room)
    [] OTHER -> Made(heap, v, TRUE)

\* The value set is copied before the one held goes: it may be the one held.
VariantSet(heap, v, type, value) == Made(VariantDestroy(heap, v), From(type, value), TRUE)
SetString(heap, v, text, room) ==
  LET made == FromString(heap, text, room) IN Made(VariantDestroy(made.heap, v), made.v, made.done)
SetCustom(heap, v, text, room) ==
  LET made == FromCustom(heap, text, room) IN Made(VariantDestroy(made.heap, v), made.v, made.done)
SetNone(heap, v) == Made(VariantDestroy(heap, v), VariantNone, TRUE)

\* Mutant: the source keeps what it owned.
MoveKeepsSource(heap, dst, src) == [heap |-> VariantDestroy(heap, dst), dst |-> src, src |-> src]
\* Of two different variants: what is moved leaves its source empty.
VariantMove(heap, dst, src) == [heap |-> VariantDestroy(heap, dst), dst |-> src, src |-> VariantNone]
VariantSwap(a, b) == <<b, a>>
VariantTake(v) == [v |-> VariantNone, out |-> IF VrtIsTrivial(v.type) THEN 0 ELSE v.as]

\* ----------------------------------------------------------------- reading --
Is(v, type) == v.type = type
IsNone(v) == v.type = "none"
VariantGet(v, type) == IF v.type # type THEN <<>> ELSE <<v.as>>
TypeSize(heap, v) ==
  CASE v.type = "none" -> 0 [] v.type \in {"char", "bool"} -> 1 [] v.type \in {"int", "float"} -> 4
    [] v.type \in {"long", "double", "pointer", "custom"} -> 8
    [] v.type = "string" -> Len(TextOf(heap, v))
CmpPrim(a, b) == IF a < b THEN -1 ELSE IF a > b THEN 1 ELSE 0
\* a string that is NULL before all others
CmpText(a, b) ==
  IF NULL \notin {a, b} THEN J!T!StrCmp(a, b) ELSE IF a = b THEN 0 ELSE IF a = NULL THEN -1 ELSE 1
Compare(heap, a, b) ==
  IF a.type # b.type THEN Rank(a.type) - Rank(b.type)
  ELSE IF VrtIsTrivial(a.type) THEN CmpPrim(a.as, b.as) ELSE CmpText(TextOf(heap, a), TextOf(heap, b))
Equal(heap, a, b) == Compare(heap, a, b) = 0
\* What the hash is taken of, the type and bytes: of a custom value those of
\* its block, which are the address of the string.
Hash(heap, v) ==
  CASE v.type = "none" -> <<"none">>
    [] v.type = "string" -> <<"string", TextOf(heap, v)>>
    [] v.type = "custom" -> <<"custom", heap.live[v.as].string>>
    [] OTHER -> <<v.type, v.as>>

\* --------------------------------------------------------------- the array --
\* An array is [data, cap, block], data the variants in it, block where they are.
ArrayNew(heap, capacity) ==
  [heap |-> IF capacity = 0 THEN heap ELSE Q!Malloc(heap, [variants |-> TRUE]),
   a |-> [data |-> <<>>, cap |-> capacity, block |-> IF capacity = 0 THEN 0 ELSE Q!FreshBlock(heap)]]
RECURSIVE Doubled(_, _)
Doubled(cap, least) == IF cap >= least THEN cap ELSE Doubled(2 * cap, least)
\* A larger array is another block; room is what is left.
ArrayReserve(heap, a, least, room) ==
  IF a.cap >= least THEN [heap |-> heap, a |-> a, done |-> TRUE, room |-> room]
  ELSE IF room = 0 THEN [heap |-> heap, a |-> a, done |-> FALSE, room |-> 0]
  ELSE [heap |-> Q!Free(Q!Malloc(heap, [variants |-> TRUE]), a.block), done |-> TRUE, room |-> room - 1,
        a |-> [a EXCEPT !.cap = Doubled(IF a.cap = 0 THEN 4 ELSE a.cap, least), !.block = Q!FreshBlock(heap)]]
\* v is in the block at, 0 where it is a variable of the caller, and read after the array
\* has grown. A copy for which there is no memory is pushed as none.
ArrayPush(heap, a, v, at, room) ==
  LET grown == ArrayReserve(heap, a, Len(a.data) + 1, room)
      read == [grown.heap EXCEPT !.bad = @ \/ (at # 0 /\ at \notin DOMAIN grown.heap.live)]
      copy == Clone(read, v, grown.room)
  IN  IF ~grown.done THEN [heap |-> heap, a |-> a, done |-> FALSE]
      ELSE [heap |-> copy.heap, a |-> [grown.a EXCEPT !.data = Append(@, copy.v)], done |-> TRUE]
RECURSIVE DestroyAll(_, _)
DestroyAll(heap, vs) == IF vs = <<>> THEN heap ELSE DestroyAll(VariantDestroy(heap, Head(vs)), Tail(vs))
ArrayRemoveAt(heap, a, index) ==
  IF index >= Len(a.data) THEN [heap |-> heap, a |-> a, done |-> FALSE]
  ELSE [heap |-> VariantDestroy(heap, a.data[index + 1]), a |-> [a EXCEPT !.data = Ext!RemoveAt(@, index + 1)], done |-> TRUE]
ArrayPop(heap, a) ==
  IF a.data = <<>> THEN [heap |-> heap, a |-> a, done |-> FALSE]
  ELSE [heap |-> VariantDestroy(heap, Ext!Last(a.data)), a |-> [a EXCEPT !.data = Ext!Front(@)], done |-> TRUE]
ArraySet(heap, a, index, v, room) ==
  LET copy == Clone(heap, v, room)
  IN  IF index >= Len(a.data) THEN [heap |-> heap, a |-> a, done |-> FALSE]
      ELSE [heap |-> VariantDestroy(copy.heap, a.data[index + 1]), a |-> [a EXCEPT !.data[index + 1] = copy.v], done |-> TRUE]
ArrayClear(heap, a) == [heap |-> DestroyAll(heap, a.data), a |-> [a EXCEPT !.data = <<>>], done |-> TRUE]
ArrayFree(heap, a) == Q!Free(DestroyAll(heap, a.data), a.block)

------------------------------------------------------------------------------
(***************************************************************************)
(* uniqueptr/uniqueptr.c: a pointer that is freed with its owner. A        *)
(* UniquePtr is [ptr, deleter], deleter saying whether one is set; a       *)
(* deleter frees the block.                                                *)
(***************************************************************************)

New(ptr) == [ptr |-> ptr, deleter |-> TRUE]
UniqueNone == [ptr |-> 0, deleter |-> FALSE]
UniqueDestroy(heap, up) == [heap |-> IF up.deleter THEN Q!Free(heap, up.ptr) ELSE heap, up |-> UniqueNone]
UniqueGet(up) == up.ptr
GetDeleter(up) == up.deleter
IsNull(up) == up.ptr = 0
Release(up) == [up |-> UniqueNone, out |-> up.ptr]
\* What it has already is kept.
Reset(heap, up, ptr) ==
  [heap |-> IF up.deleter /\ up.ptr # ptr THEN Q!Free(heap, up.ptr) ELSE heap, up |-> [ptr |-> ptr, deleter |-> TRUE]]
UniqueSwap(a, b) == <<b, a>>
UniqueMove(heap, dst, src) == [heap |-> UniqueDestroy(heap, dst).heap, dst |-> src, src |-> UniqueNone]
UniqueTake(src) == [out |-> src, src |-> UniqueNone]

------------------------------------------------------------------------------
(***************************************************************************)
(* tuple/tuple.c: a fixed number of places, each a copy of some bytes. A   *)
(* tuple is a sequence of blocks of the heap, 0 where nothing was set, and *)
(* a block holds a sequence of bytes. Operations get the heap and return   *)
(* it; room says whether malloc finds memory.                              *)
(***************************************************************************)

Create(size) == [i \in 1..size |-> 0]
RECURSIVE FreeAll(_, _)
FreeAll(heap, blocks) == IF blocks = <<>> THEN heap ELSE FreeAll(Q!Free(heap, Head(blocks)), Tail(blocks))
Deallocate(heap, tuple) == FreeAll(heap, tuple)
\* The new copy is made before the old one goes.
TupleSet(heap, tuple, index, bytes, room) ==
  IF index >= Len(tuple) \/ ~room THEN [heap |-> heap, tuple |-> tuple, done |-> FALSE]
  ELSE [heap |-> Q!Free(Q!Malloc(heap, bytes), tuple[index + 1]), tuple |-> [tuple EXCEPT ![index + 1] = Q!FreshBlock(heap)], done |-> TRUE]
Bytes(heap, tuple, i) == IF tuple[i] = 0 THEN <<>> ELSE heap.live[tuple[i]]
\* Nothing for an index past the end
TupleGet(heap, tuple, index) == IF index >= Len(tuple) THEN <<>> ELSE <<Bytes(heap, tuple, index + 1)>>
RECURSIVE SetFrom(_, _, _, _)
SetFrom(heap, tuple, items, index) ==
  IF index = Len(items) THEN [heap |-> heap, tuple |-> tuple]
  ELSE LET made == TupleSet(heap, tuple, index, items[index + 1], TRUE) IN SetFrom(made.heap, made.tuple, items, index + 1)
MakeTuple(heap, items) == SetFrom(heap, Create(Len(items)), items, 0)
TupleSwap(a, b) == <<b, a>>
Size(tuple) == Len(tuple)
IsEmpty(tuple) == tuple = <<>>

IsEqual(heap, a, b) == Len(a) = Len(b) /\ \A i \in DOMAIN a : Bytes(heap, a, i) = Bytes(heap, b, i)
\* memcmp of as many bytes
Memcmp(x, y) ==
  LET i == CHOOSE i \in DOMAIN x : x[i] # y[i] /\ \A j \in 1..i - 1 : x[j] = y[j]
  IN  IF x = y THEN 0 ELSE IF x[i] < y[i] THEN -1 ELSE 1
\* By the sizes of the first elements that differ in size, or by their bytes
RECURSIVE LexFrom(_, _, _, _)
LexFrom(heap, a, b, i) ==
  LET x == Bytes(heap, a, i)
      y == Bytes(heap, b, i)
  IN  IF i > Len(a) \/ i > Len(b) THEN IF Len(a) = Len(b) THEN 0 ELSE IF Len(a) < Len(b) THEN -1 ELSE 1
      ELSE IF Len(x) # Len(y) THEN IF Len(x) < Len(y) THEN -1 ELSE 1
      ELSE IF x # y THEN Memcmp(x, y) ELSE LexFrom(heap, a, b, i + 1)
LexCompare(heap, a, b) == LexFrom(heap, a, b, 1)
IsLess(heap, a, b) == LexCompare(heap, a, b) < 0
IsGreater(heap, a, b) == LexCompare(heap, a, b) > 0
IsNotEqual(heap, a, b) == ~IsEqual(heap, a, b)
IsLessOrEqual(heap, a, b) == LexCompare(heap, a, b) <= 0
IsGreaterOrEqual(heap, a, b) == LexCompare(heap, a, b) >= 0

------------------------------------------------------------------------------
(***************************************************************************)
(* Who owns the blocks of the heap when variants, arrays of them, unique   *)
(* pointers and tuples are made, copied, moved and taken apart: each block *)
(* in use has one owner, and what is freed is freed once. A world is the   *)
(* heap, the owners and what the caller has taken out of them.             *)
(***************************************************************************)

\* Every block of owned is in use, no block in use is missing, none is there twice.
OwnedOnce(heap, owned) ==
  LET blocks == SelectSeq(owned, LAMBDA b : b # 0)
  IN  /\ ~heap.bad
      /\ {blocks[i] : i \in DOMAIN blocks} = DOMAIN heap.live
      /\ Cardinality(DOMAIN heap.live) = Len(blocks)

\* ---------------------------------------------------------------- variants --
\* [heap, a, b: two variants, array, out: the blocks taken]
Variants ==
  LET new == ArrayNew(Q!EmptyHeap, 1) IN [heap |-> new.heap, a |-> VariantNone, b |-> VariantNone, array |-> new.a, out |-> <<>>]
Texts == {<<97>>, <<98, 99>>}
PutA(w, made) == [w EXCEPT !.heap = made.heap, !.a = made.v]
PutArray(w, made) == [w EXCEPT !.heap = made.heap, !.array = made.a]
HeldText(w) == IF VrtIsTrivial(w.a.type) THEN <<>> ELSE TextOf(w.heap, w.a)
\* An item of the array itself is pushed only where the array need not grow: see
\* PushReadsLive.
VariantCalls(w) ==
  {PutA(w, SetString(w.heap, w.a, t, room)) : t \in Texts \union {HeldText(w)}, room \in 0..1}
  \union {PutA(w, SetCustom(w.heap, w.a, t, room)) : t \in Texts \union {HeldText(w)}, room \in 0..2}
  \union {PutA(w, VariantSet(w.heap, w.a, "int", 1)), PutA(w, SetNone(w.heap, w.a))}
  \union {LET made == Clone(w.heap, w.b, room)
          IN  [w EXCEPT !.heap = VariantDestroy(made.heap, w.a), !.a = made.v] : room \in 0..2}
  \union {LET moved == VariantMove(w.heap, w.b, w.a) IN [w EXCEPT !.heap = moved.heap, !.b = moved.dst, !.a = moved.src]}
  \union {[w EXCEPT !.a = VariantSwap(w.a, w.b)[1], !.b = VariantSwap(w.a, w.b)[2]]}
  \union (IF w.a.type # "string" THEN {} ELSE {LET took == VariantTake(w.a) IN [w EXCEPT !.a = took.v, !.out = Append(@, took.out)]})
  \union {PutArray(w, ArrayPush(w.heap, w.array, w.a, 0, room)) : room \in 0..3}
  \union {PutArray(w, ArrayPush(w.heap, w.array, w.array.data[i], w.array.block, room)) :
            i \in {j \in DOMAIN w.array.data : Len(w.array.data) < w.array.cap}, room \in 0..2}
  \union {PutArray(w, ArraySet(w.heap, w.array, i, w.a, room)) : i \in 0..1, room \in 0..2}
  \union {PutArray(w, ArraySet(w.heap, w.array, 0, v, 2)) : v \in {w.array.data[i] : i \in DOMAIN w.array.data}}
  \union {PutArray(w, ArrayRemoveAt(w.heap, w.array, i)) : i \in 0..1}
  \union {PutArray(w, ArrayPop(w.heap, w.array)), PutArray(w, ArrayClear(w.heap, w.array))}
BlocksOf(heap, v) == IF v.type = "string" THEN <<v.as>> ELSE IF v.type = "custom" THEN <<v.as, heap.live[v.as].string>> ELSE <<>>
RECURSIVE BlocksOfAll(_, _)
BlocksOfAll(heap, vs) == IF vs = <<>> THEN <<>> ELSE BlocksOf(heap, Head(vs)) \o BlocksOfAll(heap, Tail(vs))
VariantsOwn(w) ==
  LET copy == Clone(w.heap, w.a, 2)
      all == <<w.a, w.b>> \o w.array.data
  IN  /\ OwnedOnce(w.heap, BlocksOfAll(w.heap, all) \o w.out \o <<w.array.block>>) /\ Len(w.array.data) <= w.array.cap
      /\ Equal(copy.heap, copy.v, w.a) /\ TypeSize(copy.heap, copy.v) = TypeSize(w.heap, w.a)
      /\ w.a.type # "custom" => Hash(copy.heap, copy.v) = Hash(w.heap, w.a)
      /\ \A i, j \in DOMAIN all : LET c == Compare(w.heap, all[i], all[j])
                                      d == Compare(w.heap, all[j], all[i])
                                  IN  /\ (c > 0) = (d < 0) /\ (c = 0) = (d = 0)
                                      /\ c = 0 /\ all[i].type # "custom" => Hash(w.heap, all[i]) = Hash(w.heap, all[j])
      /\ VariantDestroy(VariantDestroy(ArrayFree(w.heap, w.array), w.a), w.b).live = [b \in {w.out[i] : i \in DOMAIN w.out} |-> w.heap.live[b]]

\* What variant/README.md:537 says of variant_array_push: it appends a copy of v, which an
\* item of an array that is full is as well; and, at line 541, false where memory fails.
OneItem == LET new == ArrayNew(Q!EmptyHeap, 1) text == FromString(new.heap, <<97>>, 1) IN ArrayPush(text.heap, new.a, text.v, 0, 1)
PushReadsLive == ~ArrayPush(OneItem.heap, OneItem.a, OneItem.a.data[1], OneItem.a.block, 2).heap.bad
PushReportsFailure ==
  \A room \in 0..2 : LET text == FromString(Q!EmptyHeap, <<97>>, 1)
                         pushed == ArrayPush(text.heap, ArrayNew(text.heap, 0).a, text.v, 0, room)
                     IN  pushed.done => Equal(pushed.heap, pushed.a.data[1], text.v)
\* What variant.c:257 says of variant_from_custom: a copy, or NONE where memory fails
CustomIsWhole ==
  \A room \in 0..2 : LET made == FromCustom(Q!EmptyHeap, <<97>>, room)
                     IN  made.v = VariantNone \/ TextOf(made.heap, made.v) = <<97>>

\* --------------------------------------------------------- unique pointers --
\* [heap, p, q: two unique pointers, out: the blocks taken]
Pointers == [heap |-> Q!EmptyHeap, p |-> UniqueNone, q |-> UniqueNone, out |-> <<>>]
UniqueCalls(w) ==
  {LET h == Q!Malloc(w.heap, "x") reset == Reset(h, w.p, Q!FreshBlock(w.heap)) IN [w EXCEPT !.heap = reset.heap, !.p = reset.up],
   LET reset == Reset(w.heap, w.p, UniqueGet(w.p)) IN [w EXCEPT !.heap = reset.heap, !.p = reset.up],
   LET h == UniqueDestroy(w.heap, w.p).heap IN [w EXCEPT !.heap = Q!Malloc(h, "x"), !.p = New(Q!FreshBlock(h))],
   LET gone == UniqueDestroy(w.heap, w.p) IN [w EXCEPT !.heap = gone.heap, !.p = gone.up],
   LET moved == UniqueMove(w.heap, w.q, w.p) IN [w EXCEPT !.heap = moved.heap, !.q = moved.dst, !.p = moved.src],
   [w EXCEPT !.p = UniqueSwap(w.p, w.q)[1], !.q = UniqueSwap(w.p, w.q)[2]],
   LET took == UniqueTake(w.q) IN [w EXCEPT !.heap = UniqueDestroy(w.heap, w.p).heap, !.p = took.out, !.q = took.src]}
  \union (IF IsNull(w.p) THEN {} ELSE {LET freed == Release(w.p) IN [w EXCEPT !.p = freed.up, !.out = Append(@, freed.out)]})
PointersOwn(w) ==
  /\ OwnedOnce(w.heap, <<UniqueGet(w.p), UniqueGet(w.q)>> \o w.out)
  /\ \A up \in {w.p, w.q} : IsNull(up) \/ GetDeleter(up)

\* ------------------------------------------------------------------ tuples --
\* [heap, s, t: two tuples]
Tuples == [heap |-> Q!EmptyHeap, s |-> Create(2), t |-> Create(1)]
PutS(w, made) == [w EXCEPT !.heap = made.heap, !.s = made.tuple]
TupleCalls(w) ==
  {PutS(w, TupleSet(w.heap, w.s, i, bytes, room)) : i \in 0..2, bytes \in {<<0>>, <<0, 1>>, <<1>>}, room \in BOOLEAN}
  \union {[w EXCEPT !.s = TupleSwap(w.s, w.t)[1], !.t = TupleSwap(w.s, w.t)[2]]}
  \union {PutS(w, MakeTuple(Deallocate(w.heap, w.s), <<<<0>>, <<1, 1>>>>))}
TuplesOwn(w) ==
  /\ OwnedOnce(w.heap, w.s \o w.t)
  /\ IsEqual(w.heap, w.s, w.t) = (LexCompare(w.heap, w.s, w.t) = 0)
  /\ IsLess(w.heap, w.s, w.t) = IsGreater(w.heap, w.t, w.s)
  /\ IsLessOrEqual(w.heap, w.s, w.t) = ~IsGreater(w.heap, w.s, w.t)
  /\ IsGreaterOrEqual(w.heap, w.s, w.t) = ~IsLess(w.heap, w.s, w.t)
  /\ IsNotEqual(w.heap, w.s, w.t) = (IsLess(w.heap, w.s, w.t) \/ IsGreater(w.heap, w.s, w.t))
  /\ \A i \in 0..2 : LET made == TupleSet(w.heap, w.s, i, <<7>>, TRUE)
                     IN  made.done => /\ TupleGet(made.heap, made.tuple, i) = <<<<7>>>>
                                      /\ \A j \in 0..2 \ {i} : TupleGet(made.heap, made.tuple, j) = TupleGet(w.heap, w.s, j)
==============================================================================
