-------------------------------- MODULE HashMap --------------------------------
(***************************************************************************)
(* hashmap/hashmap.c: functions from keys to values, kept in chains of     *)
(* nodes by the hash of the key.  bucket is the sequence of chains, the    *)
(* last node that went in first; of the pool only the numbers of nodes     *)
(* count: used of the slabs, room in the newest one, free on the list.     *)
(***************************************************************************)
EXTENDS Calls, SequencesExt

CONSTANTS
  Objects,
  HashKeys,      \* a key is its hash
  HashValues,    \* the values, NULL (Nothing) apart
  LoadFactors,   \* the maximal load factors that may be set, as pairs
  Counts,        \* the numbers that may be reserved or rehashed for
  FirstSlabCap,  \* HMAP_FIRST_SLAB_CAP
  MaxSlabCap     \* HMAP_MAX_SLAB_CAP

VARIABLES
  hmap,
  call

vars == <<hmap, call>>

IsPrime(n) == n > 1 /\ \A i \in 2..n - 1 : n % i # 0

\* hmap_next_prime: 2, or the first odd number from n that no smaller one divides
NextPrime(n) ==
  IF n <= 2 THEN 2
  ELSE LET odd == IF n % 2 = 0 THEN n + 1 ELSE n
           divided(m) == \E i \in 3..m - 1 : i % 2 = 1 /\ i * i <= m /\ m % i = 0
       IN  CHOOSE m \in odd..2 * odd :
             m % 2 = 1 /\ ~divided(m) /\ \A j \in odd..m - 1 : j % 2 = 0 \/ divided(j)

Empty(n) == [i \in 1..n |-> <<>>]
CreateWithBuckets(owns, count) ==
  [bucket |-> Empty(NextPrime(IF count > 0 THEN count ELSE 1)), size |-> 0, load |-> <<3, 4>>,
   owns |-> owns, used |-> 0, room |-> 0, free |-> 0, slabCap |-> FirstSlabCap]

Init ==
  /\ hmap = [o \in Objects |-> CreateWithBuckets(TRUE, 1)]
  /\ call = NoCall

-----------------------------------------------------------------------------
(* The pool                                                                *)

CanAlloc(m, memory) == m.free > 0 \/ m.room > 0 \/ memory

PoolAlloc(m) ==
  LET slab == IF m.room > 0 THEN m
              ELSE [m EXCEPT !.room = m.slabCap,
                             !.slabCap = IF 2 * @ > MaxSlabCap THEN MaxSlabCap ELSE 2 * @]
  IN  IF m.free > 0 THEN [m EXCEPT !.free = @ - 1]
      ELSE [slab EXCEPT !.room = @ - 1, !.used = @ + 1]

PoolFree(m) == [m EXCEPT !.free = @ + 1]
PoolDestroy(m) == [m EXCEPT !.used = 0, !.room = 0, !.free = 0]

-----------------------------------------------------------------------------
(* The chains                                                              *)

BucketCount(m) == Len(m.bucket)
Bucket(m, key) == (key % BucketCount(m)) + 1
BucketSize(m, b) == IF b > BucketCount(m) THEN 0 ELSE Len(m.bucket[b])

\* The places of a key in its chain: none or one
Places(m, key) == {i \in DOMAIN m.bucket[Bucket(m, key)] : m.bucket[Bucket(m, key)][i].key = key}
Count(m, key) == Cardinality(Places(m, key))
Place(m, key) == CHOOSE i \in Places(m, key) : \A j \in Places(m, key) : i <= j
At(m, key) == IF Count(m, key) = 0 THEN Nothing ELSE m.bucket[Bucket(m, key)][Place(m, key)].value

\* Chain by chain each node goes to the front of its new chain.
Rehash(m, count) ==
  LET nodes == FlattenSeq(m.bucket)
      moved(b, node) == [b EXCEPT ![(node.key % count) + 1] = <<node>> \o @]
  IN  IF count = 0 THEN m ELSE [m EXCEPT !.bucket = FoldLeft(moved, Empty(count), nodes)]

\* size / buckets >= numerator / denominator
Full(m) == m.size * m.load[2] >= m.load[1] * BucketCount(m)

\* table: whether there is memory for a larger table. Without it, or without one for a
\* node afterwards, hashmap_insert goes on.
Widened(m, table) == IF Full(m) /\ table THEN Rehash(m, NextPrime(2 * BucketCount(m))) ELSE m

Insert(m, key, value, table) ==
  LET b == Bucket(m, key)
      wide == Widened(m, table)
      made == PoolAlloc(wide)
  IN  IF Count(m, key) > 0 THEN [m EXCEPT !.bucket[b][Place(m, key)].value = value]
      ELSE [made EXCEPT !.bucket[Bucket(wide, key)] = <<[key |-> key, value |-> value]>> \o @,
                        !.size = @ + 1]

Erase(m, key) ==
  LET b == Bucket(m, key)
  IN  IF Count(m, key) = 0 THEN m
      ELSE [PoolFree(m) EXCEPT !.bucket[b] = RemoveAt(@, Place(m, key)), !.size = @ - 1]

Clear(m) == [PoolDestroy(m) EXCEPT !.bucket = Empty(BucketCount(m)), !.size = 0]

\* The table is made so large that count / load entries fit, as a whole number.
Reserve(m, count) ==
  LET required == (count * m.load[2]) \div m.load[1]
  IN  IF required > BucketCount(m) THEN Rehash(m, NextPrime(required)) ELSE m

\* A node is deallocated: its key, and its value where that is not NULL.
Dealloc(m, node) ==
  IF ~m.owns THEN NULL
  ELSE <<<<"key", node.key>>>> \o (IF node.value = Nothing THEN NULL ELSE <<<<"value", node.value>>>>)

Teardown(m) == FoldLeft(LAMBDA s, node : s \o Dealloc(m, node), NULL, FlattenSeq(m.bucket))

\* hashmap_copy, where there is memory for so many slabs: what does not fit is left out.
Copy(m, slabs) ==
  LET copied(step, node) ==
        LET slab == step.map.free = 0 /\ step.map.room = 0
        IN  IF slab /\ step.slabs = 0 THEN step
            ELSE [map |-> Insert(step.map, node.key, node.value, TRUE),
                  slabs |-> step.slabs - (IF slab THEN 1 ELSE 0)]
  IN  FoldLeft(copied, [map |-> CreateWithBuckets(FALSE, BucketCount(m)), slabs |-> slabs],
               FlattenSeq(m.bucket)).map

-----------------------------------------------------------------------------
(* Iterators: the bucket and the place in its chain, 0 where there is no   *)
(* node                                                                    *)

\* hmap_find_next_occupied_bucket
NextOccupied(m, b) ==
  LET occupied == {c \in b..BucketCount(m) : m.bucket[c] # <<>>}
  IN  IF occupied = {} THEN BucketCount(m) + 1 ELSE CHOOSE c \in occupied : \A d \in occupied : c <= d

Occupied(m, b) == <<b, IF b <= BucketCount(m) THEN 1 ELSE 0>>
Begin(m) == Occupied(m, NextOccupied(m, 1))
End(m) == <<BucketCount(m) + 1, 0>>

Increment(m, it) ==
  IF it[2] = 0 THEN it
  ELSE IF it[2] < Len(m.bucket[it[1]]) THEN <<it[1], it[2] + 1>>
  ELSE Occupied(m, NextOccupied(m, it[1] + 1))

\* The last node of the last chain before b, or it where there is none
Before(m, b, it) ==
  LET occupied == {c \in 1..b - 1 : m.bucket[c] # <<>>}
      last == CHOOSE c \in occupied : \A d \in occupied : d <= c
  IN  IF occupied = {} THEN it ELSE <<last, Len(m.bucket[last])>>

Decrement(m, it) ==
  CASE it[2] > 1 -> <<it[1], it[2] - 1>>
    [] it[2] = 0 /\ it[1] <= BucketCount(m) /\ BucketSize(m, it[1]) > 0 -> <<it[1], BucketSize(m, it[1])>>
    [] OTHER -> Before(m, it[1], it)

Dereference(m, it) == m.bucket[it[1]][it[2]]

FindKey(m, key) == IF Count(m, key) = 0 THEN End(m) ELSE <<Bucket(m, key), Place(m, key)>>
BeginBucket(m, b) == <<b, IF m.bucket[b] # <<>> THEN 1 ELSE 0>>
EndBucket(b) == <<b, 0>>

RECURSIVE WalkOn(_, _, _)
WalkOn(m, it, most) ==
  IF it = End(m) \/ most = 0 THEN <<>> ELSE <<it>> \o WalkOn(m, Increment(m, it), most - 1)

RECURSIVE WalkBack(_, _, _)
WalkBack(m, it, most) ==
  LET to == Decrement(m, it)
  IN  IF to = it \/ most = 0 THEN <<>> ELSE <<to>> \o WalkBack(m, to, most - 1)

\* As many entries, and each key of the one also in the other: values are not looked at.
EqualMaps(m, n) ==
  LET walk == WalkOn(m, Begin(m), m.size + 1)
  IN  m.size = n.size /\ \A i \in 1..Len(walk) : Count(n, Dereference(m, walk[i]).key) > 0

-----------------------------------------------------------------------------

Becomes(o, m) == hmap' = [hmap EXCEPT ![o] = m]
Plenty == Cardinality(HashKeys)

CallInsert(o, key, value, table, memory) ==
  LET m == hmap[o]
      old == At(m, key)
      can == Count(m, key) > 0 \/ CanAlloc(m, memory)
  IN  /\ Becomes(o, IF can THEN Insert(m, key, value, table) ELSE Widened(m, table))
      /\ call' = Call("insert", o, <<key, value, FALSE>>, memory, can,
                      IF m.owns /\ old # Nothing THEN <<<<"value", old>>>> ELSE NULL)

\* hashmap_operator_bracket: a key that is not there gets the value NULL, and so does
\* one that has it already.
CallBracket(o, key, memory) ==
  LET m == hmap[o]
      can == Count(m, key) > 0 \/ CanAlloc(m, memory)
  IN  /\ Becomes(o, IF can /\ At(m, key) = Nothing THEN Insert(m, key, Nothing, memory) ELSE m)
      /\ call' = Call("bracket", o, <<key>>, memory, can, NULL)

CallErase(o, key) ==
  LET m == hmap[o]
  IN  /\ Becomes(o, Erase(m, key))
      /\ call' = Call("erase", o, <<key>>, TRUE, Count(m, key) > 0,
                      IF Count(m, key) > 0 THEN Dealloc(m, [key |-> key, value |-> At(m, key)]) ELSE NULL)

CallClear(o) ==
  /\ Becomes(o, Clear(hmap[o]))
  /\ call' = Call("clear", o, <<>>, TRUE, TRUE, Teardown(hmap[o]))

CallWiden(o, n, memory) ==
  /\ call' = Call("rehash", o, <<n>>, memory, TRUE, NULL)
  /\ \E m \in {Rehash(hmap[o], n), Reserve(hmap[o], n)} : Becomes(o, IF memory THEN m ELSE hmap[o])

CallMaxLoadFactor(o, load) ==
  /\ Becomes(o, [hmap[o] EXCEPT !.load = load])
  /\ call' = Call("max_load_factor", o, <<>>, TRUE, TRUE, NULL)

CallSwap(o, p) ==
  /\ hmap' = [hmap EXCEPT ![o] = hmap[p], ![p] = hmap[o]]
  /\ call' = CallOf("swap", o, p, <<>>, TRUE, TRUE, NULL)

\* The copy takes the place of the map o, which is deallocated.
CallCopy(o, p, slabs) ==
  /\ o # p
  /\ Becomes(o, Copy(hmap[p], slabs))
  /\ call' = CallOf("copy", o, p, <<>>, slabs = Plenty, TRUE, Teardown(hmap[o]))

Next ==
  \E o \in Objects :
    \/ \E key \in HashKeys, memory \in BOOLEAN :
         \/ \E value \in HashValues, table \in BOOLEAN : CallInsert(o, key, value, table, memory)
         \/ CallBracket(o, key, memory)
    \/ \E key \in HashKeys : CallErase(o, key)
    \/ CallClear(o)
    \/ \E n \in Counts, memory \in BOOLEAN : CallWiden(o, n, memory)
    \/ \E load \in LoadFactors : CallMaxLoadFactor(o, load)
    \/ \E p \in Objects : CallSwap(o, p) \/ \E slabs \in {0, 1, Plenty} : CallCopy(o, p, slabs)

Spec == Init /\ [][Next]_vars

-----------------------------------------------------------------------------

Entries(m) ==
  LET nodes == FlattenSeq(m.bucket)
  IN  [k \in {nodes[i].key : i \in DOMAIN nodes} |-> At(m, k)]

\* A key is in one chain, that of its hash, and once; size counts the nodes and the
\* pool the rest of its slots; the iterators come by each node, from either end, and
\* what is found is what they come by; the table that an insertion makes is prime.
HashMapsWellFormed ==
  \A o \in Objects :
    LET m == hmap[o]
        nodes == FlattenSeq(m.bucket)
        walk == WalkOn(m, Begin(m), m.size + 1)
    IN  /\ \A b \in 1..BucketCount(m) : \A i \in DOMAIN m.bucket[b] : Bucket(m, m.bucket[b][i].key) = b
        /\ \A i, j \in DOMAIN nodes : nodes[i].key = nodes[j].key => i = j
        /\ m.size = Len(nodes) /\ m.used = m.size + m.free
        /\ [i \in DOMAIN walk |-> Dereference(m, walk[i])] = nodes
        /\ WalkBack(m, End(m), m.size + 1) = Reverse(walk)
        /\ \A k \in HashKeys :
             FindKey(m, k) \in (IF k \in DOMAIN Entries(m) THEN ToSet(walk) ELSE {End(m)})
        /\ \A b \in 1..BucketCount(m) : Decrement(m, EndBucket(b)) \in
             (IF m.bucket[b] # <<>> THEN {<<b, BucketSize(m, b)>>}
              ELSE {Before(m, b, EndBucket(b))})
        /\ IsPrime(NextPrime(2 * BucketCount(m))) /\ NextPrime(m.size) >= m.size

\* Maps are equal where they have the same keys, whatever the order in their chains.
HashMapsCompare ==
  \A o, p \in Objects : EqualMaps(hmap[o], hmap[p]) = (DOMAIN Entries(hmap[o]) = DOMAIN Entries(hmap[p]))

HashMapFunction ==
  INSTANCE ItemMap WITH
    entries <- [o \in Objects |-> Entries(hmap[o])],
    owns <- [o \in Objects |-> hmap[o].owns],
    Owners <- Objects

HashMapIsFunction == HashMapFunction!SpecButPartial
===============================================================================
