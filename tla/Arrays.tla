------------------------------ MODULE Arrays ------------------------------
(***************************************************************************)
(* algorithm/algorithm.c: the algorithms of C++'s <algorithm> on an array  *)
(* of items.  A pointer into the array is a position from 1, and the end   *)
(* of the array the position after the last.  An item is a pair of a key   *)
(* and the rest: comp compares the keys, and pred holds of odd keys.       *)
(*                                                                         *)
(* In this order: algorithm.c, sort.c and their laws; statistics.c and its *)
(* laws; bitset.c, span.c and theirs.                                      *)
(***************************************************************************)
EXTENDS Values, Integers, Sequences, FiniteSets

Ext == INSTANCE SequencesExt
Tlc == INSTANCE TLC

CONSTANT SRT_ISORT_MAX    \* srt_introsort leaves so many items to the insertion sort

comp(x, y) == x[1] - y[1]
pred(x) == x[1] % 2 = 1
NoPosition == 0
AlgorithmEnd(base) == Len(base) + 1
FirstOf(positions, otherwise) == IF positions = {} THEN otherwise ELSE CHOOSE i \in positions : \A j \in positions : i <= j
LastOf(positions, otherwise) == IF positions = {} THEN otherwise ELSE CHOOSE i \in positions : \A j \in positions : i >= j

Swap(a, i, j) == [a EXCEPT ![i] = a[j], ![j] = a[i]]

\* Both ends of first..last - 1 move inwards, swapping.
RECURSIVE ReverseRange(_, _, _)
ReverseRange(a, first, last) ==
  IF first < last - 1 THEN ReverseRange(Swap(a, first, last - 1), first + 1, last - 1) ELSE a

-----------------------------------------------------------------------------
(* Sorting                                                                 *)

\* srt_isort of the n items from lo: each is moved left past the greater ones
RECURSIVE MoveLeft(_, _, _)
MoveLeft(a, i, lo) == IF i > lo /\ comp(a[i - 1], a[i]) > 0 THEN MoveLeft(Swap(a, i, i - 1), i - 1, lo) ELSE a
SrtIsort(a, lo, n) == Ext!FoldLeft(LAMBDA b, i : MoveLeft(b, lo + i, lo), a, [i \in 1..n - 1 |-> i])

\* The item at i of the heap in the n items from lo sinks to its place.
RECURSIVE SrtSiftdown(_, _, _, _)
SrtSiftdown(a, lo, i, n) ==
  LET left == 2 * i + 1
      child == IF left + 1 < n /\ comp(a[lo + left], a[lo + left + 1]) < 0 THEN left + 1 ELSE left
  IN  IF left >= n \/ comp(a[lo + i], a[lo + child]) >= 0 THEN a
      ELSE SrtSiftdown(Swap(a, lo + i, lo + child), lo, child, n)

SrtHeapsort(a, lo, n) ==
  LET heap == Ext!FoldLeft(LAMBDA b, k : SrtSiftdown(b, lo, (n \div 2) - k, n), a, [k \in 1..n \div 2 |-> k])
  IN  Ext!FoldLeft(LAMBDA b, k : SrtSiftdown(Swap(b, lo, lo + n - k), lo, 0, n - k), heap, [k \in 1..n - 1 |-> k])

\* Hoare's partition around the median of three: where the two scans meet
RECURSIVE HoareScan(_, _, _, _, _)
HoareScan(a, lo, i, j, pivot) ==
  LET up == CHOOSE k \in i + 1..Len(a) - lo : comp(a[lo + k], pivot) >= 0 /\ \A l \in i + 1..k - 1 : comp(a[lo + l], pivot) < 0
      down == CHOOSE k \in 0..j - 1 : comp(a[lo + k], pivot) <= 0 /\ \A l \in k + 1..j - 1 : comp(a[lo + l], pivot) > 0
  IN  IF up >= down THEN [a |-> a, j |-> down] ELSE HoareScan(Swap(a, lo + up, lo + down), lo, up, down, pivot)

MedianOfThree(a, lo, mid, hi) ==
  LET b == IF comp(a[mid], a[lo]) < 0 THEN Swap(a, mid, lo) ELSE a
      c == IF comp(b[hi], b[lo]) < 0 THEN Swap(b, hi, lo) ELSE b
  IN  IF comp(c[hi], c[mid]) < 0 THEN Swap(c, hi, mid) ELSE c

RECURSIVE SrtIntrosort(_, _, _, _)
SrtIntrosort(a, lo, n, depth) ==
  LET mid == lo + (n \div 2)
      three == MedianOfThree(a, lo, mid, lo + n - 1)
      met == HoareScan(three, lo, 0, n - 1, three[mid])
      left == met.j + 1
  IN  IF n <= SRT_ISORT_MAX THEN SrtIsort(a, lo, n)
      ELSE IF depth <= 0 THEN SrtHeapsort(a, lo, n)
      ELSE SrtIntrosort(SrtIntrosort(met.a, lo, left, depth - 1), lo + left, n - left, depth - 1)

RECURSIVE Log2(_)
Log2(n) == IF n > 1 THEN 1 + Log2(n \div 2) ELSE 0
AlgorithmSort(base) == IF Len(base) <= 1 THEN base ELSE SrtIntrosort(base, 1, Len(base), 2 * Log2(Len(base)))

\* Mutant: of equal items, the one of the second array goes first.
RECURSIVE MergeSecondFirst(_, _)
MergeSecondFirst(a, b) ==
  IF a = <<>> THEN b ELSE IF b = <<>> THEN a
  ELSE IF comp(a[1], b[1]) < 0 THEN <<a[1]>> \o MergeSecondFirst(Tail(a), b)
  ELSE <<b[1]>> \o MergeSecondFirst(a, Tail(b))

\* Of equal items, the one of the first array goes first.
RECURSIVE Merge(_, _)
Merge(a, b) ==
  IF a = <<>> THEN b ELSE IF b = <<>> THEN a
  ELSE IF comp(a[1], b[1]) <= 0 THEN <<a[1]>> \o Merge(Tail(a), b) ELSE <<b[1]>> \o Merge(a, Tail(b))

RECURSIVE MergeSortInternal(_)
MergeSortInternal(a) ==
  LET mid == Len(a) \div 2
  IN  IF Len(a) <= 1 THEN a
      ELSE Merge(MergeSortInternal(SubSeq(a, 1, mid)), MergeSortInternal(SubSeq(a, mid + 1, Len(a))))
StableSort(base) == MergeSortInternal(base)

\* An item of the second half is moved before the greater ones of the first.
RECURSIVE InplaceMergeFrom(_, _, _)
InplaceMergeFrom(a, i, middle) ==
  IF i >= middle \/ middle > Len(a) THEN a
  ELSE IF comp(a[i], a[middle]) <= 0 THEN InplaceMergeFrom(a, i + 1, middle)
  ELSE InplaceMergeFrom(SubSeq(a, 1, i - 1) \o <<a[middle]>> \o SubSeq(a, i, middle - 1)
                        \o SubSeq(a, middle + 1, Len(a)), i + 1, middle + 1)
InplaceMerge(a, middle) == InplaceMergeFrom(a, 1, middle)

IsSortedUntil(base) == FirstOf({i \in 2..Len(base) : comp(base[i - 1], base[i]) > 0}, AlgorithmEnd(base))
IsSorted(base) == IsSortedUntil(base) = AlgorithmEnd(base)

-----------------------------------------------------------------------------
(* Searching                                                               *)

Find(base, val) == FirstOf({i \in DOMAIN base : comp(base[i], val) = 0}, NoPosition)
FindIf(base) == FirstOf({i \in DOMAIN base : pred(base[i])}, NoPosition)
FindIfNot(base) == FirstOf({i \in DOMAIN base : ~pred(base[i])}, NoPosition)
MatchesAt(a, b, i) == i + Len(b) - 1 <= Len(a) /\ \A j \in DOMAIN b : comp(a[i + j - 1], b[j]) = 0
FindEnd(a, b) == IF b = <<>> THEN AlgorithmEnd(a) ELSE LastOf({i \in DOMAIN a : MatchesAt(a, b, i)}, NoPosition)
FindFirstOf(a, b) == FirstOf({i \in DOMAIN a : \E j \in DOMAIN b : comp(a[i], b[j]) = 0}, NoPosition)
Search(a, b) == IF b = <<>> THEN 1 ELSE FirstOf({i \in DOMAIN a : MatchesAt(a, b, i)}, AlgorithmEnd(a))
SearchN(a, count, val) ==
  FirstOf({i \in 1..AlgorithmEnd(a) - count : \A k \in i..i + count - 1 : comp(a[k], val) = 0}, AlgorithmEnd(a))
AdjacentFind(a) == FirstOf({i \in 1..Len(a) - 1 : comp(a[i], a[i + 1]) = 0}, NoPosition)
Mismatch(a, b) ==
  LET at == FirstOf({i \in (DOMAIN a) \cap (DOMAIN b) : comp(a[i], b[i]) # 0}, NoPosition) IN <<at, at>>

RECURSIVE BinarySearchFrom(_, _, _, _)
BinarySearchFrom(a, val, low, high) ==
  LET mid == low + ((high - low) \div 2)
  IN  IF low >= high THEN NoPosition
      ELSE IF comp(a[mid], val) < 0 THEN BinarySearchFrom(a, val, mid + 1, high)
      ELSE IF comp(a[mid], val) > 0 THEN BinarySearchFrom(a, val, low, mid)
      ELSE mid
BinarySearch(a, val) == BinarySearchFrom(a, val, 1, AlgorithmEnd(a))

RECURSIVE BoundFrom(_, _, _, _, _)
BoundFrom(a, val, low, high, most) ==
  LET mid == low + ((high - low) \div 2)
  IN  IF low >= high THEN low
      ELSE IF comp(a[mid], val) <= most THEN BoundFrom(a, val, mid + 1, high, most)
      ELSE BoundFrom(a, val, low, mid, most)
LowerBound(a, val) == BoundFrom(a, val, 1, AlgorithmEnd(a), -1)
UpperBound(a, val) == BoundFrom(a, val, 1, AlgorithmEnd(a), 0)
EqualRange(a, val) == <<LowerBound(a, val), UpperBound(a, val)>>

MaxElement(a) == FirstOf({i \in DOMAIN a : \A j \in DOMAIN a : comp(a[i], a[j]) >= 0}, NoPosition)
MinElement(a) == FirstOf({i \in DOMAIN a : \A j \in DOMAIN a : comp(a[i], a[j]) <= 0}, NoPosition)

AllOf(a) == \A i \in DOMAIN a : pred(a[i])
AnyOf(a) == \E i \in DOMAIN a : pred(a[i])
NoneOf(a) == ~\E i \in DOMAIN a : pred(a[i])
AlgorithmCount(a, val) == Cardinality({i \in DOMAIN a : comp(a[i], val) = 0})
CountIf(a) == Cardinality({i \in DOMAIN a : pred(a[i])})
Equal(a, b) == Len(a) = Len(b) /\ \A i \in DOMAIN a : comp(a[i], b[i]) = 0

\* Each item of the second array is found, in order, in the rest of the first.
RECURSIVE Includes(_, _)
Includes(a, b) ==
  \/ b = <<>>
  \/ /\ a # <<>> /\ comp(b[1], a[1]) >= 0
     /\ Includes(Tail(a), IF comp(a[1], b[1]) = 0 THEN Tail(b) ELSE b)

\* Each item takes the first equal one that is not taken yet.
RECURSIVE TakeMatches(_, _)
TakeMatches(a, b) ==
  a = <<>> \/ (Find(b, a[1]) # NoPosition /\ TakeMatches(Tail(a), Ext!RemoveAt(b, Find(b, a[1]))))
IsPermutation(a, b) == Len(a) = Len(b) /\ TakeMatches(a, b)

-----------------------------------------------------------------------------
(* Changing                                                                *)

Accumulate(a, init) == Ext!FoldLeft(LAMBDA r, x : r + x[1], init, a)
Reduce(a, init) == Accumulate(a, init)
Transform(a, add) == [i \in DOMAIN a |-> <<a[i][1] + add, a[i][2]>>]
ForEach(a, add) == Transform(a, add)
Fill(a, first, last, val) == [i \in DOMAIN a |-> IF i \in first..last - 1 THEN val ELSE a[i]]
FillN(a, first, n, val) == Fill(a, first, first + n, val)
Generate(a, first, last, gen) == [i \in DOMAIN a |-> IF i \in first..last - 1 THEN gen[i - first + 1] ELSE a[i]]
GenerateN(a, n, gen) == Generate(a, 1, n + 1, gen)
Iota(a, start) == [i \in DOMAIN a |-> <<start + i - 1, a[i][2]>>]

\* Copies to `result`, over what is there: forward, and from the end backward
\* to where `result` ends
AlgorithmCopy(source, result) == [i \in DOMAIN result |-> IF i \in DOMAIN source THEN source[i] ELSE result[i]]
CopyN(source, n, result) == AlgorithmCopy(SubSeq(source, 1, n), result)
CopyIf(source, result) == AlgorithmCopy(SelectSeq(source, pred), result)
\* Within one array: one item after another, so later ones see the copies.
CopyBackward(a, first, last, result) ==
  Ext!FoldLeft(LAMBDA b, k : [b EXCEPT ![result - k] = b[last - k]], a, [k \in 1..last - first |-> k])

\* An item is kept where it differs from the last one kept.
UniqueCopy(a) ==
  Ext!FoldLeft(LAMBDA acc, x : IF acc # <<>> /\ comp(Ext!Last(acc), x) = 0 THEN acc ELSE acc \o <<x>>, <<>>, a)
RemoveCopy(a, val) == SelectSeq(a, LAMBDA x : comp(x, val) # 0)
RemoveCopyIf(a) == SelectSeq(a, LAMBDA x : ~pred(x))
\* In place: what follows the items kept stays as it was.
Unique(a) == [array |-> AlgorithmCopy(UniqueCopy(a), a), count |-> Len(UniqueCopy(a))]
Remove(a, val) == [array |-> AlgorithmCopy(RemoveCopy(a, val), a), end |-> Len(RemoveCopy(a, val)) + 1]
Replace(a, old, new) == [i \in DOMAIN a |-> IF comp(a[i], old) = 0 THEN new ELSE a[i]]
ReplaceIf(a, new) == [i \in DOMAIN a |-> IF pred(a[i]) THEN new ELSE a[i]]

SwapRanges(a, first1, first2, num) ==
  Ext!FoldLeft(LAMBDA b, k : Swap(b, first1 + k - 1, first2 + k - 1), a, [k \in 1..num |-> k])

\* Swapping from the front; when one part is used up, the rest is rotated on.
RECURSIVE RotateFrom(_, _, _, _)
RotateFrom(a, first, middle, next) ==
  LET moved == Swap(a, first, next)
  IN  IF first = next THEN a
      ELSE RotateFrom(moved, first + 1,
                      IF next + 1 # AlgorithmEnd(a) /\ first + 1 = middle THEN next + 1 ELSE middle,
                      IF next + 1 = AlgorithmEnd(a) THEN middle ELSE next + 1)
Rotate(a, middle) == RotateFrom(a, 1, middle, middle)
RotateCopy(a, middle) == SubSeq(a, middle, Len(a)) \o SubSeq(a, 1, middle - 1)

\* From both ends: an item that fails and one behind it that holds change places.
RECURSIVE PartitionFrom(_, _, _)
PartitionFrom(a, first, last) ==
  LET fails == FirstOf({i \in first..last - 1 : ~pred(a[i])}, last)
      holds == LastOf({i \in fails..last - 1 : pred(a[i])}, fails)
  IN  IF fails = last \/ holds = fails THEN [array |-> a, first |-> fails]
      ELSE PartitionFrom(Swap(a, fails, holds), fails + 1, holds)
Partition(a) == PartitionFrom(a, 1, AlgorithmEnd(a))

\* The last rise is raised as little as possible, and what follows reversed.
NextPermutation(a) ==
  LET i == LastOf({k \in 1..Len(a) - 1 : comp(a[k], a[k + 1]) < 0}, 0)
      k == LastOf({l \in i + 1..Len(a) : comp(a[i], a[l]) < 0}, 0)
  IN  IF Len(a) <= 1 THEN [array |-> a, more |-> FALSE]
      ELSE IF i = 0 THEN [array |-> ReverseRange(a, 1, AlgorithmEnd(a)), more |-> FALSE]
      ELSE [array |-> ReverseRange(Swap(a, i, k), i + 1, AlgorithmEnd(a)), more |-> TRUE]
PrevPermutation(a) ==
  LET i == LastOf({k \in 1..Len(a) - 1 : comp(a[k + 1], a[k]) < 0}, 0)
      k == LastOf({l \in i + 1..Len(a) : comp(a[l], a[i]) < 0}, 0)
  IN  IF Len(a) <= 1 THEN [array |-> a, more |-> FALSE]
      ELSE IF i = 0 THEN [array |-> ReverseRange(a, 1, AlgorithmEnd(a)), more |-> FALSE]
      ELSE [array |-> ReverseRange(Swap(a, i, k), i + 1, AlgorithmEnd(a)), more |-> TRUE]

\* From the last item down, each changes places with one the generator picks.
Shuffle(a, rng) ==
  Ext!FoldLeft(LAMBDA b, k : LET i == Len(a) - k IN Swap(b, i + 1, (rng[k] % (i + 1)) + 1), a, [k \in 1..Len(a) - 1 |-> k])

------------------------------------------------------------------------------
(***************************************************************************)
(* sort/sort.c: the sorts of an array of pointers, and what they are made  *)
(* of.  Positions count from 0, as in the code: array[i + 1] is item i.    *)
(* Items are pairs of a key and the rest, and compare compares the keys.   *)
(***************************************************************************)

CONSTANTS SMALL_SORT,     \* arrays this small are sorted by insertion: 10 in the code,
          INTRO_SORT,     \* by the introspective sort up to this size: 16,
          MEDIUM_SORT     \* and by Shell's sort in the adaptive one: 100

compare(x, y) == x[1] - y[1]
SortAt(a, i) == a[i + 1]
swap(a, i, j) == [a EXCEPT ![i + 1] = a[j + 1], ![j + 1] = a[i + 1]]
Upto(n) == [k \in 1..n |-> k - 1]
NONE == -1

RECURSIVE MoveBack(_, _, _)
MoveBack(a, j, gap) ==
  IF j >= gap /\ compare(SortAt(a, j - gap), SortAt(a, j)) > 0 THEN MoveBack(swap(a, j, j - gap), j - gap, gap) ELSE a
SortInsertion(a) == Ext!FoldLeft(LAMBDA b, i : MoveBack(b, i + 1, 1), a, Upto(Len(a) - 1))

RECURSIVE ShellGaps(_, _)
ShellGaps(a, gap) ==
  IF gap = 0 THEN a
  ELSE ShellGaps(Ext!FoldLeft(LAMBDA b, i : MoveBack(b, gap + i, gap), a, Upto(Len(a) - gap)), gap \div 2)
SortShell(a) == ShellGaps(a, Len(a) \div 2)

\* Lomuto's partition: those not above the last item go before it
SortPartition(a, left, right) ==
  LET Step(r, j) == IF compare(SortAt(r.a, left + j), SortAt(a, right)) <= 0
                    THEN [a |-> swap(r.a, r.i, left + j), i |-> r.i + 1] ELSE r
      done == Ext!FoldLeft(Step, [a |-> a, i |-> left], Upto(right - left))
  IN  [a |-> swap(done.a, done.i, right), p |-> done.i]

RECURSIVE QuicksortRecursive(_, _, _)
QuicksortRecursive(a, left, right) ==
  LET cut == SortPartition(a, left, right)
      first == IF cut.p > 0 THEN QuicksortRecursive(cut.a, left, cut.p - 1) ELSE cut.a
  IN  IF left >= right THEN a ELSE QuicksortRecursive(first, cut.p + 1, right)
SortQuicksort(a) == QuicksortRecursive(a, 0, Len(a) - 1)

InOrder(a, i, j) == IF compare(SortAt(a, i), SortAt(a, j)) > 0 THEN swap(a, i, j) ELSE a
MedianLast(a, left, mid, right) ==
  swap(InOrder(InOrder(InOrder(a, left, mid), left, right), mid, right), mid, right)
SortPartitionMedianOfThree(a, left, right) ==
  SortPartition(MedianLast(a, left, left + ((right - left) \div 2), right), left, right)
SortQuicksortOptimized(a) ==
  IF Len(a) <= SMALL_SORT THEN SortInsertion(a) ELSE SortQuicksort(MedianLast(a, 0, Len(a) \div 2, Len(a) - 1))

RECURSIVE MergeBoth(_, _)
MergeBoth(a, b) ==
  IF a = <<>> THEN b ELSE IF b = <<>> THEN a
  ELSE IF compare(a[1], b[1]) <= 0 THEN <<a[1]>> \o MergeBoth(Tail(a), b) ELSE <<b[1]>> \o MergeBoth(a, Tail(b))
SortMerge(a, left, mid, right) ==
  SubSeq(a, 1, left) \o MergeBoth(SubSeq(a, left + 1, mid + 1), SubSeq(a, mid + 2, right + 1))
  \o SubSeq(a, right + 2, Len(a))
SortMergeSortedArrays(a, b) == MergeBoth(a, b)

RECURSIVE MergesortRecursive(_, _, _)
MergesortRecursive(a, left, right) ==
  LET mid == left + ((right - left) \div 2)
  IN  IF left >= right THEN a
      ELSE SortMerge(MergesortRecursive(MergesortRecursive(a, left, mid), mid + 1, right), left, mid, right)
SortMergesort(a) == MergesortRecursive(a, 0, Len(a) - 1)
SortStableQuicksort(a) == SortMergesort(a)
SortStableHeapsort(a) == SortMergesort(a)
SortMergesortOptimized(a) == IF Len(a) <= SMALL_SORT THEN SortInsertion(a) ELSE SortMergesort(a)

RECURSIVE MergeInplaceFrom(_, _, _, _)
MergeInplaceFrom(a, i, j, right) ==
  IF i >= j \/ j > right THEN a
  ELSE IF compare(SortAt(a, i), SortAt(a, j)) <= 0 THEN MergeInplaceFrom(a, i + 1, j, right)
  ELSE MergeInplaceFrom(SubSeq(a, 1, i) \o <<SortAt(a, j)>> \o SubSeq(a, i + 1, j) \o SubSeq(a, j + 2, Len(a)), i + 1, j + 1, right)
SortMergeInplace(a, left, mid, right) == MergeInplaceFrom(a, left, mid + 1, right)

RECURSIVE SortHeapify(_, _, _)
SortHeapify(a, size, index) ==
  LET Greater(at, child) == IF child < size /\ compare(SortAt(a, child), SortAt(a, at)) > 0 THEN child ELSE at
      largest == Greater(Greater(index, 2 * index + 1), 2 * index + 2)
  IN  IF largest = index THEN a ELSE SortHeapify(swap(a, index, largest), size, largest)
SortBuildHeap(a, size) == Ext!FoldLeft(LAMBDA b, k : SortHeapify(b, size, (size \div 2) - 1 - k), a, Upto(size \div 2))
HeapToSorted(a, size) ==
  Ext!FoldLeft(LAMBDA b, k : SortHeapify(swap(b, 0, size - 1 - k), size - 1 - k, 0), a, Upto(size - 1))
SortHeapsort(a) == HeapToSorted(SortBuildHeap(a, Len(a)), Len(a))

RECURSIVE Rise(_, _)
Rise(a, i) ==
  LET parent == (i - 1) \div 2
  IN  IF i > 0 /\ compare(SortAt(a, i), SortAt(a, parent)) > 0 THEN Rise(swap(a, i, parent), parent) ELSE a
SortHeapInsert(a, element) == Rise(Append(a, element), Len(a))
SortHeapExtractMax(a) ==
  LET rest == SubSeq(a, 1, Len(a) - 1)
  IN  [max |-> a[1], heap |-> IF rest = <<>> THEN rest ELSE SortHeapify([rest EXCEPT ![1] = Ext!Last(a)], Len(rest), 0)]

\* The k least, sorted, kept in a heap while the others are seen
SortPartialSort(a, k) ==
  LET See(b, i) == IF compare(SortAt(b, k + i), SortAt(b, 0)) < 0 THEN SortHeapify(swap(b, 0, k + i), k, 0) ELSE b
  IN  IF k = 0 THEN a
      ELSE IF k >= Len(a) THEN SortQuicksort(a)
      ELSE HeapToSorted(Ext!FoldLeft(See, SortBuildHeap(a, k), Upto(Len(a) - k)), k)

RECURSIVE BubblePasses(_, _)
BubblePasses(a, i) ==
  LET pass == Ext!FoldLeft(LAMBDA b, j : InOrder(b, j, j + 1), a, Upto(Len(a) - i - 1))
  IN  IF i >= Len(a) - 1 \/ pass = a THEN a ELSE BubblePasses(pass, i + 1)
SortBubblesort(a) == BubblePasses(a, 0)

SortSelection(a) ==
  LET Min(b, i) == CHOOSE m \in i..Len(a) - 1 : \A j \in i..Len(a) - 1 :
        compare(SortAt(b, m), SortAt(b, j)) < 0 \/ (compare(SortAt(b, m), SortAt(b, j)) = 0 /\ m <= j)
  IN  Ext!FoldLeft(LAMBDA b, i : swap(b, i, Min(b, i)), a, Upto(Len(a) - 1))

\* The counting sort of small whole keys: each key's count is where its items
\* end, and they are placed from the last one down.
PlaceByKey(a, key(_), keys) ==
  LET upto(k) == Len(SelectSeq(a, LAMBDA x : key(x) <= k))
      Place(r, n) ==
        LET x == a[Len(a) - n] IN [out |-> [r.out EXCEPT ![r.count[key(x)]] = x], count |-> [r.count EXCEPT ![key(x)] = @ - 1]]
  IN  Ext!FoldLeft(Place, [out |-> a, count |-> [k \in keys |-> upto(k)]], Upto(Len(a))).out
KeysOf(a) == {a[i][1] : i \in DOMAIN a}
SortCounting(a) ==
  IF Len(a) <= 1 THEN a
  ELSE PlaceByKey(a, LAMBDA x : x[1], (CHOOSE k \in KeysOf(a) : \A l \in KeysOf(a) : k <= l)..(CHOOSE k \in KeysOf(a) : \A l \in KeysOf(a) : k >= l))

\* Decimal digit after digit, for keys that are not negative
RECURSIVE RadixPasses(_, _)
RadixPasses(a, exp) ==
  IF \A i \in DOMAIN a : a[i][1] \div exp = 0 THEN a
  ELSE RadixPasses(PlaceByKey(a, LAMBDA x : (x[1] \div exp) % 10, 0..9), exp * 10)
SortRadix(a) == RadixPasses(a, 1)

\* As many buckets as items, between the least and the greatest key, which
\* must differ; each is sorted by insertion.
SortBucket(a) ==
  LET min == CHOOSE k \in KeysOf(a) : \A l \in KeysOf(a) : k <= l
      max == CHOOSE k \in KeysOf(a) : \A l \in KeysOf(a) : k >= l
      bucket(x) == ((x[1] - min) * (Len(a) - 1)) \div (max - min)
  IN  Ext!FlattenSeq([b \in 1..Len(a) |-> SortInsertion(SelectSeq(a, LAMBDA x : bucket(x) = b - 1))])

SortIntrospectiveOptimized(a) ==
  IF Len(a) <= INTRO_SORT THEN SortInsertion(a) ELSE SortQuicksortOptimized(a)
SortIntrospective(a) == SortIntrospectiveOptimized(a)
SortAdaptive(a) ==
  IF Len(a) <= SMALL_SORT THEN SortInsertion(a)
  ELSE IF Len(a) <= MEDIUM_SORT THEN SortShell(a) ELSE SortIntrospectiveOptimized(a)
SortTimsort(a) == SortAdaptive(a)

\* sort_generic: the dispatcher
SortGeneric(a, algorithm) ==
  CASE algorithm = "insertion" -> SortInsertion(a) [] algorithm = "mergesort" -> SortMergesort(a)
    [] algorithm = "heapsort" -> SortHeapsort(a) [] algorithm = "bubblesort" -> SortBubblesort(a)
    [] algorithm = "selection" -> SortSelection(a) [] algorithm = "shell" -> SortShell(a)
    [] algorithm = "counting" -> SortCounting(a) [] algorithm = "radix" -> SortRadix(a)
    [] algorithm = "bucket" -> SortBucket(a) [] algorithm = "introspective" -> SortIntrospective(a)
    [] OTHER -> SortQuicksort(a)

SortIsSortedUntil(a) ==
  LET falls == {i \in 1..Len(a) - 1 : compare(SortAt(a, i - 1), SortAt(a, i)) > 0}
  IN  IF falls = {} THEN Len(a) ELSE CHOOSE i \in falls : \A j \in falls : i <= j
SortIsSorted(a) == SortIsSortedUntil(a) = Len(a)
SortUnique(a) ==
  Ext!FoldLeft(LAMBDA acc, x : IF acc # <<>> /\ compare(Ext!Last(acc), x) = 0 THEN acc ELSE Append(acc, x), <<>>, a)
SortReverse(a) == Ext!FoldLeft(LAMBDA b, i : swap(b, i, Len(a) - 1 - i), a, Upto(Len(a) \div 2))

RECURSIVE BoundBetween(_, _, _, _, _)
BoundBetween(a, target, left, right, most) ==
  LET mid == left + ((right - left) \div 2)
  IN  IF left >= right THEN left
      ELSE IF compare(SortAt(a, mid), target) <= most THEN BoundBetween(a, target, mid + 1, right, most)
      ELSE BoundBetween(a, target, left, mid, most)
SortLowerBound(a, target) == BoundBetween(a, target, 0, Len(a), -1)
SortUpperBound(a, target) == BoundBetween(a, target, 0, Len(a), 0)
SortBinarySearchRange(a, target) ==
  LET lo == SortLowerBound(a, target) hi == SortUpperBound(a, target)
  IN  IF lo = hi THEN [first |-> NONE, count |-> 0] ELSE [first |-> lo, count |-> hi - lo]

RECURSIVE SortBinarySearchIn(_, _, _, _)
SortBinarySearchIn(a, target, left, right) ==
  LET mid == left + ((right - left) \div 2)
      cmp == compare(SortAt(a, mid), target)
  IN  IF left >= right THEN NONE ELSE IF cmp = 0 THEN mid
      ELSE IF cmp < 0 THEN SortBinarySearchIn(a, target, mid + 1, right) ELSE SortBinarySearchIn(a, target, left, mid)

\* The Dutch flag: below the pivot, equal to it, above it
RECURSIVE ThreeWay(_, _, _, _, _)
ThreeWay(a, lt, i, gt, pivot) ==
  IF i > gt THEN [a |-> a, lt |-> lt]
  ELSE IF compare(SortAt(a, i), pivot) < 0 THEN ThreeWay(swap(a, lt, i), lt + 1, i + 1, gt, pivot)
  ELSE IF compare(SortAt(a, i), pivot) > 0
       THEN IF gt = 0 THEN [a |-> swap(a, i, gt), lt |-> lt] ELSE ThreeWay(swap(a, i, gt), lt, i, gt - 1, pivot)
  ELSE ThreeWay(a, lt, i + 1, gt, pivot)
SortPartitionThreeWay(a, left, right, pivot) == ThreeWay(a, left, left, right, pivot)

RECURSIVE Select(_, _, _, _)
Select(a, left, right, n) ==
  LET cut == SortPartitionMedianOfThree(a, left, right)
  IN  IF left >= right THEN SortAt(a, n)
      ELSE IF cut.p = n THEN SortAt(cut.a, n)
      ELSE IF cut.p < n THEN Select(cut.a, cut.p + 1, right, n)
      ELSE Select(cut.a, left, cut.p - 1, n)
SortNthElement(a, n) == Select(a, 0, Len(a) - 1, n)
SortMedian(a) == SortNthElement(a, Len(a) \div 2)

------------------------------------------------------------------------------
(***************************************************************************)
(* What algorithm/algorithm.c and sort/sort.c promise of an array, said by *)
(* the positions and the order of its items.                               *)
(***************************************************************************)

Key(x) == x[1]
SameItems(a, b) == Len(a) = Len(b) /\ Ext!ToSet(a) = Ext!ToSet(b)
Ordered(a) == \A i, j \in DOMAIN a : i < j => Key(a[i]) <= Key(a[j])
Stably(a) == \A i, j \in DOMAIN a : i < j => Key(a[i]) < Key(a[j]) \/ (Key(a[i]) = Key(a[j]) /\ a[i][2] < a[j][2])
Sorts(a, b) == SameItems(a, b) /\ Ordered(b)
Below(a, k) == Cardinality({i \in DOMAIN a : Key(a[i]) < k})
Heap(a) == \A i \in 1..Len(a) - 1 : Key(a[((i - 1) \div 2) + 1]) >= Key(a[i + 1])

\* The items of `a` are marked with their places, so all differ.
AlgorithmLaws(a) ==
  LET n == Len(a)
      vals == {<<k, 0>> : k \in 0..3}
      halves == {<<SubSeq(a, 1, m), SubSeq(a, m + 1, n)>> : m \in 0..n}
  IN \A sorted \in {AlgorithmSort(a)}, stable \in {StableSort(a)} :
  /\ Sorts(a, sorted) /\ Sorts(a, stable) /\ Stably(stable) /\ Sorts(a, SrtHeapsort(a, 1, n))
  /\ IsSorted(a) = Ordered(a) /\ Ordered(SubSeq(a, 1, IsSortedUntil(a) - 1))
  /\ IsPermutation(a, sorted) /\ Includes(sorted, stable) /\ (n > 0 => ~Includes(Tail(sorted), sorted))
  /\ \A h \in halves :
       \A l \in {StableSort(h[1])}, r \in {StableSort(h[2])} :
       /\ Merge(l, r) = stable /\ InplaceMerge(l \o r, Len(l) + 1) = stable
       /\ Includes(stable, r)
       /\ n > 0 /\ h[2] # <<>> => /\ Rotate(a, Len(h[1]) + 1) = RotateCopy(a, Len(h[1]) + 1)
                                  /\ RotateCopy(a, Len(h[1]) + 1) = h[2] \o h[1]
       /\ Search(a, h[2]) <= Len(h[1]) + 1 /\ (h[1] # <<>> => FindEnd(a, h[1]) >= 1)
       /\ (h[2] # <<>> /\ FindEnd(a, h[2]) = Search(a, h[2])) =>
            Cardinality({i \in DOMAIN a : MatchesAt(a, h[2], i)}) = 1
       /\ LET k == IF Len(h[1]) < Len(h[2]) THEN Len(h[1]) ELSE Len(h[2]) IN
          /\ SwapRanges(a, 1, Len(h[1]) + 1, k) =
               SubSeq(h[2], 1, k) \o SubSeq(h[1], k + 1, Len(h[1])) \o SubSeq(h[1], 1, k) \o SubSeq(h[2], k + 1, Len(h[2]))
          /\ Equal(SubSeq(h[1], 1, k), SubSeq(h[2], 1, k)) = (Mismatch(h[1], h[2]) = <<0, 0>>)
       /\ SubSeq(CopyBackward(a, 1, Len(h[1]) + 1, n + 1), Len(h[2]) + 1, n) = h[1]
       /\ FindFirstOf(h[1], h[2]) = 0 <=> {Key(x) : x \in Ext!ToSet(h[1])} \cap {Key(x) : x \in Ext!ToSet(h[2])} = {}
  /\ \A v \in vals :
       \A range \in {EqualRange(sorted, v)} :
       /\ range[2] - range[1] = AlgorithmCount(a, v) /\ range[1] = Below(a, v[1]) + 1
       /\ LET at == BinarySearch(sorted, v) IN IF AlgorithmCount(a, v) = 0 THEN at = 0 ELSE at \in range[1]..range[2] - 1
       /\ Find(sorted, v) = (IF AlgorithmCount(a, v) = 0 THEN 0 ELSE range[1])
       /\ SearchN(sorted, 2, v) = (IF AlgorithmCount(a, v) < 2 THEN n + 1 ELSE range[1])
       /\ Remove(a, v).end = n + 1 - AlgorithmCount(a, v)
       /\ SubSeq(Remove(a, v).array, 1, Remove(a, v).end - 1) = RemoveCopy(a, v)
       /\ AlgorithmCount(Replace(a, v, <<7, 7>>), <<7, 7>>) = AlgorithmCount(a, v) /\ AlgorithmCount(Replace(a, v, <<7, 7>>), v) = 0
       /\ Fill(a, 1, n + 1, v) = FillN(a, 1, n, v)
  /\ LET p == Partition(a) IN
     /\ SameItems(a, p.array) /\ p.first = CountIf(a) + 1
     /\ \A i \in 1..n : pred(p.array[i]) = (i < p.first)
  /\ AllOf(a) = (FindIfNot(a) = 0) /\ NoneOf(a) = (FindIf(a) = 0) /\ AnyOf(a) = ~NoneOf(a)
  /\ CopyIf(a, a) = SelectSeq(a, pred) \o SubSeq(a, CountIf(a) + 1, n)
  /\ Len(RemoveCopyIf(a)) + CountIf(a) = n /\ AllOf(ReplaceIf(Transform(a, 1), <<1, 1>>)) = ~AnyOf(a)
  /\ n > 0 => /\ \A i \in 1..n : Key(a[i]) \in Key(a[MinElement(a)])..Key(a[MaxElement(a)])
              /\ Len(UniqueCopy(sorted)) = Cardinality({Key(x) : x \in Ext!ToSet(a)})
              /\ AdjacentFind(UniqueCopy(a)) = 0 /\ Unique(a).count = Len(UniqueCopy(a))
              /\ (AdjacentFind(a) = 0) = (Unique(a).count = n)
  /\ Accumulate(Iota(a, 1), 0) = (n * (n + 1)) \div 2 /\ Accumulate(ForEach(a, 2), 0) = Reduce(a, 2 * n)
  /\ LET next == NextPermutation(a) keys(b) == [i \in DOMAIN b |-> Key(b[i])] IN
     /\ SameItems(a, next.array) /\ next.more = (~\A i \in 1..n - 1 : Key(a[i]) >= Key(a[i + 1]))
     /\ ~next.more => Ordered(next.array)
     /\ next.more => keys(PrevPermutation(next.array).array) = keys(a)
     /\ next.more => LET i == FirstOf({k \in 1..n : Key(a[k]) # Key(next.array[k])}, 0) IN Key(next.array[i]) > Key(a[i])
  /\ NextPermutation(PrevPermutation(sorted).array).more = FALSE \/ n <= 1 \/ Key(sorted[1]) = Key(sorted[n])
       \/ PrevPermutation(sorted).more = FALSE
  /\ SameItems(a, Shuffle(a, [k \in 1..n |-> 7 * k]))

\* All sorts sort; those of sort.c whose comments say "Stable", and the two that are named
\* for it, are stable. sort_timsort is only asked to sort: see TimsortIsStable.
SortLaws(a) ==
  LET n == Len(a)
      kinds == {"insertion", "quicksort", "mergesort", "heapsort", "bubblesort", "selection", "shell", "counting", "radix", "introspective"}
      sorted == SortMergesort(a)
  IN
  /\ \A kind \in kinds : Sorts(a, SortGeneric(a, kind))
  /\ \A kind \in {"insertion", "mergesort", "bubblesort", "counting", "radix"} : Stably(SortGeneric(a, kind))
  /\ SortStableQuicksort(a) = sorted /\ SortStableHeapsort(a) = sorted /\ SortMergesortOptimized(a) = sorted
  /\ Sorts(a, SortAdaptive(a)) /\ Sorts(a, SortTimsort(a)) /\ Sorts(a, SortQuicksortOptimized(a))
  /\ n > 1 /\ Key(sorted[1]) # Key(sorted[n]) =>
       Sorts(a, SortGeneric(a, "bucket")) /\ Stably(SortGeneric(a, "bucket"))
  /\ SortIsSorted(a) = Ordered(a) /\ SortIsSorted(sorted)
  /\ Heap(SortBuildHeap(a, n)) /\ Heap(Ext!FoldLeft(SortHeapInsert, <<>>, a))
  /\ n > 0 => LET out == SortHeapExtractMax(SortBuildHeap(a, n)) IN
              Heap(out.heap) /\ Key(out.max) = Key(sorted[n]) /\ SameItems(a, Append(out.heap, out.max))
  /\ \A k \in 0..n : SameItems(a, SortPartialSort(a, k))
                     /\ \A i \in 1..k : Key(SortPartialSort(a, k)[i]) = Key(sorted[i])
  /\ \A k \in 0..n - 1 : Key(SortNthElement(a, k)) = Key(sorted[k + 1])
  /\ n > 0 => Key(SortMedian(a)) = Key(sorted[(n \div 2) + 1])
  /\ \A m \in 0..n - 2 :
       LET l == SortMergesort(SubSeq(a, 1, m + 1)) r == SortMergesort(SubSeq(a, m + 2, n)) IN
       /\ SortMergeInplace(l \o r, 0, m, n - 1) = sorted /\ SortMergeSortedArrays(l, r) = sorted
  /\ SortReverse(SortReverse(a)) = a /\ SortReverse(a) = Ext!Reverse(a)
  /\ Len(SortUnique(sorted)) = Cardinality({Key(x) : x \in Ext!ToSet(a)})
  /\ \A v \in {<<k, 0>> : k \in 0..3} :
       LET r == SortBinarySearchRange(sorted, v)
           at == SortBinarySearchIn(sorted, v, 0, n)
           flag == SortPartitionThreeWay(a, 0, n - 1, v)
       IN  /\ r.count = Cardinality({i \in 1..n : Key(a[i]) = v[1]}) /\ (r.count = 0 \/ r.first = Below(a, v[1]))
           /\ IF r.count = 0 THEN at = NONE ELSE at \in r.first..r.first + r.count - 1
           /\ n > 0 => /\ SameItems(a, flag.a) /\ flag.lt = Below(a, v[1])
                       /\ \A i \in 1..n : (Key(flag.a[i]) < v[1]) = (i <= flag.lt)
                       /\ \A i, j \in 1..n : i < j /\ Key(flag.a[i]) > v[1] => Key(flag.a[j]) > v[1]

\* What sort/README.md:468 says of sort_timsort, of the arrays of n items of two keys
TimsortIsStable(n) ==
  \A keys \in [1..n -> {0, 1}] : Stably(SortTimsort([i \in 1..n |-> <<keys[i], i>>]))

------------------------------------------------------------------------------
(***************************************************************************)
(* statistics/statistics.c: Python's statistics module for arrays of       *)
(* doubles, which are whole numbers here; results are exact fractions.     *)
(* Square roots and logarithms are left out: what they are taken of is not.*)
(***************************************************************************)

NAN == <<0, 0>>
Whole(x) == <<x, 1>>

StatisticsSum(data) == Ext!FoldLeft(LAMBDA a, x : a + x, 0, data)
FailNeg(data) == \E i \in DOMAIN data : data[i] < 0
SortedCopy(data) == Tlc!SortSeq(data, LAMBDA x, y : x < y)

RECURSIVE BisectBetween(_, _, _, _, _)
BisectBetween(data, x, lo, hi, pastEqual) ==
  LET mid == (lo + hi) \div 2
      right == data[mid + 1] < x \/ (pastEqual /\ data[mid + 1] = x)
  IN  IF lo >= hi THEN lo ELSE BisectBetween(data, x, IF right THEN mid + 1 ELSE lo, IF right THEN hi ELSE mid, pastEqual)
BisectLeft(data, x) == BisectBetween(data, x, 0, Len(data), FALSE)
BisectRight(data, x) == BisectBetween(data, x, 0, Len(data), TRUE)

Mean(data) == IF data = <<>> THEN NAN ELSE Q(StatisticsSum(data), Len(data))
MeanOf(fractions) == Quot(Total(Len(fractions), LAMBDA i : fractions[i]), Whole(Len(fractions)))

\* The middle of the sorted data, both middles, or the lower or upper of them
Middle(data, fromZero) == SortedCopy(data)[fromZero + 1]
MedianHigh(data) == Whole(Middle(data, Len(data) \div 2))
MedianLow(data) == Whole(Middle(data, (Len(data) - 1) \div 2))
Median(data) ==
  IF Len(data) % 2 = 1 THEN MedianHigh(data)
  ELSE Q(Middle(data, (Len(data) \div 2) - 1) + Middle(data, Len(data) \div 2), 2)

\* Within the class around the upper middle, as far as half of the data reaches
MedianGrouped(data, interval) ==
  LET n == Len(data)
      x == Middle(data, n \div 2)
      cf == BisectLeft(SortedCopy(data), x)
      f == BisectRight(SortedCopy(data), x) - cf
  IN  Plus(Q(2 * x - interval, 2), Q(interval * (n - 2 * cf), 2 * f))

Percentile(data, p) ==
  LET s == SortedCopy(data)
      pos == p * (Len(data) - 1)
      lo == pos \div 100
  IN  IF data = <<>> \/ p \notin 0..100 THEN NAN
      ELSE IF lo + 1 < Len(data) THEN Q(100 * s[lo + 1] + (pos % 100) * (s[lo + 2] - s[lo + 1]), 100)
      ELSE Whole(s[lo + 1])

\* The q - 1 cut points: of the whole population, or of a sample of it
Quantiles(data, q, exclusive) ==
  LET s == SortedCopy(data)
      n == Len(data)
      between(j, delta) == Q(s[j] * (q - delta) + s[j + 1] * delta, q)
      inRange(j) == IF j < 1 THEN 1 ELSE IF j > n - 1 THEN n - 1 ELSE j
  IN  [i \in 1..q - 1 |->
        IF exclusive
        THEN LET j == inRange((i * (n + 1)) \div q) IN between(j, i * (n + 1) - j * q)
        ELSE LET j == (i * (n - 1)) \div q IN between(j + 1, i * (n - 1) - j * q)]

SquaredDiffs(data, mean) == Total(Len(data), LAMBDA i : Times(Minus(Whole(data[i]), mean), Minus(Whole(data[i]), mean)))
Variance(data) == IF Len(data) < 2 THEN NAN ELSE Quot(SquaredDiffs(data, Mean(data)), Whole(Len(data) - 1))
Pvariance(data) == IF data = <<>> THEN NAN ELSE Quot(SquaredDiffs(data, Mean(data)), Whole(Len(data)))

Sumprod(x, y) == Total(Len(x), LAMBDA i : Whole(x[i] * y[i]))
Fmean(data, weights) ==
  IF data = <<>> \/ StatisticsSum(weights) = 0 THEN NAN ELSE Quot(Sumprod(data, weights), Whole(StatisticsSum(weights)))

\* NAN of anything negative; a zero makes the sum of reciprocals infinite and
\* so the mean 0
HarmonicMean(data, weights) ==
  LET total == Total(Len(data), LAMBDA i : Q(weights[i], data[i]))
  IN  IF data = <<>> \/ FailNeg(data) \/ FailNeg(weights) \/ StatisticsSum(weights) = 0 THEN NAN
      ELSE IF \E i \in DOMAIN data : data[i] = 0 /\ weights[i] # 0 THEN Q0
      ELSE IF \E i \in DOMAIN data : data[i] = 0 THEN NAN
      ELSE Quot(Whole(StatisticsSum(weights)), total)

\* Elements counted in the order they are first seen; multimode keeps that
\* order, mode sorts by the counts with qsort and may return any of the most
\* frequent.
CountOf(data, x) == Cardinality({i \in DOMAIN data : data[i] = x})
Multimode(data) ==
  LET firsts == {i \in DOMAIN data : \A j \in 1..i - 1 : data[j] # data[i]}
      best == {i \in firsts : \A j \in firsts : CountOf(data, data[i]) >= CountOf(data, data[j])}
  IN  [k \in 1..Cardinality(best) |-> data[CHOOSE i \in best : Cardinality({j \in best : j < i}) = k - 1]]
ModesPossible(data) == {x \in Ext!ToSet(data) : \A y \in Ext!ToSet(data) : CountOf(data, x) >= CountOf(data, y)}

\* Equal values share the mean of their places.
RankData(data) ==
  LET s == SortedCopy(data)
  IN  [i \in DOMAIN data |-> Q(BisectLeft(s, data[i]) + 1 + BisectRight(s, data[i]), 2)]

Centred(x, y, xbar, ybar) == Total(Len(x), LAMBDA i : Times(Minus(x[i], xbar), Minus(y[i], ybar)))
Wholes(x) == [i \in DOMAIN x |-> Whole(x[i])]
Covariance(x, y) ==
  IF Len(x) < 2 THEN NAN ELSE Quot(Centred(Wholes(x), Wholes(y), Mean(x), Mean(y)), Whole(Len(x) - 1))

\* The square of a correlation with its sign; of the ranks for Spearman's
SignedSquare(x, y) ==
  LET sxy == Centred(x, y, MeanOf(x), MeanOf(y))
      sxx == Centred(x, x, MeanOf(x), MeanOf(x))
      syy == Centred(y, y, MeanOf(y), MeanOf(y))
  IN  IF Len(x) < 2 \/ sxx = Q0 \/ syy = Q0 THEN NAN
      ELSE Quot(IF sxy[1] < 0 THEN Minus(Q0, Times(sxy, sxy)) ELSE Times(sxy, sxy), Times(sxx, syy))
Correlation(x, y) == SignedSquare(Wholes(x), Wholes(y))
SpearmanCorrelation(x, y) == SignedSquare(RankData(x), RankData(y))

LinearRegression(x, y, proportional) ==
  LET sxy == IF proportional THEN Sumprod(x, y) ELSE Centred(Wholes(x), Wholes(y), Mean(x), Mean(y))
      sxx == IF proportional THEN Sumprod(x, x) ELSE Centred(Wholes(x), Wholes(x), Mean(x), Mean(x))
      slope == Quot(sxy, sxx)
  IN  IF Len(x) < 2 \/ sxx = Q0 THEN [slope |-> Q0, intercept |-> Q0]
      ELSE [slope |-> slope, intercept |-> IF proportional THEN Q0 ELSE Minus(Mean(y), Times(slope, Mean(x)))]

------------------------------------------------------------------------------
(***************************************************************************)
(* What the functions of Statistics must return, stated without their      *)
(* code: x is any array of whole numbers, y one of the same length.        *)
(***************************************************************************)

Ones(x) == [i \in DOMAIN x |-> 1]
Residual(x, y, line, i) == Minus(Whole(y[i]), Plus(Times(line.slope, Whole(x[i])), line.intercept))

\* At most half of x lies below m, and at most half above
SplitsInHalves(x, m) ==
  /\ 2 * Cardinality({i \in DOMAIN x : ~AtMost(m, Whole(x[i]))}) <= Len(x)
  /\ 2 * Cardinality({i \in DOMAIN x : ~AtMost(Whole(x[i]), m)}) <= Len(x)

MiddleLaws(x) ==
  /\ \A m \in {Median(x), MedianLow(x), MedianHigh(x), Percentile(x, 50)} : SplitsInHalves(x, m)
  /\ Times(<<1, 2>>, Plus(MedianLow(x), MedianHigh(x))) = Median(x)
  /\ \A f \in {MedianLow(x), MedianHigh(x)} : f[2] = 1 /\ f[1] \in Ext!ToSet(x)
  /\ Percentile(x, 50) = Median(x)
  /\ Len(x) >= 2 =>
       /\ Quantiles(x, 2, FALSE) = <<Median(x)>> /\ Quantiles(x, 2, TRUE) = <<Median(x)>>
       /\ \A i \in 1..3 : Quantiles(x, 4, FALSE)[i] = Percentile(x, 25 * i)
       /\ \A i \in 1..2, exclusive \in BOOLEAN : LET c == Quantiles(x, 4, exclusive) IN AtMost(c[i], c[i + 1])
  /\ LET m == MedianGrouped(x, 1) IN AtMost(Minus(MedianHigh(x), <<1, 2>>), m) /\ AtMost(m, Plus(MedianHigh(x), <<1, 2>>))

SpreadLaws(x, y) ==
  LET n == Len(x)
      pairs == Total(n, LAMBDA i : Total(n, LAMBDA j : Whole((x[i] - x[j]) * (x[i] - x[j]))))
  IN  /\ Times(Whole(n), Mean(x)) = Whole(StatisticsSum(x))
      /\ Fmean(x, Ones(x)) = Mean(x)
      /\ Times(Whole(2 * n * n), Pvariance(x)) = pairs
      /\ n >= 2 => /\ Times(Whole(n - 1), Variance(x)) = Times(Whole(n), Pvariance(x))
                   /\ Covariance(x, x) = Variance(x) /\ Covariance(x, y) = Covariance(y, x)
      /\ (\A i \in DOMAIN x : x[i] > 0) => AtMost(HarmonicMean(x, Ones(x)), Mean(x))
      /\ (\E i \in DOMAIN x : x[i] = 0) => HarmonicMean(x, Ones(x)) = Q0

CountLaws(x) ==
  /\ Ext!ToSet(Multimode(x)) = ModesPossible(x) /\ Len(Multimode(x)) = Cardinality(ModesPossible(x))
  /\ \A i, j \in DOMAIN x : (x[i] < x[j]) <=> ~AtMost(RankData(x)[j], RankData(x)[i])
  /\ Total(Len(x), LAMBDA i : RankData(x)[i]) = Q(Len(x) * (Len(x) + 1), 2)

\* The least squares leave nothing along x, and no offset
TogetherLaws(x, y) ==
  \A line \in {LinearRegression(x, y, FALSE)}, through \in {LinearRegression(x, y, TRUE)}, r \in {Correlation(x, y)} :
      /\ Variance(x) # Q0 => /\ Total(Len(x), LAMBDA i : Residual(x, y, line, i)) = Q0
                             /\ Total(Len(x), LAMBDA i : Times(Whole(x[i]), Residual(x, y, line, i))) = Q0
      /\ StatisticsSum(x) > 0 => Total(Len(x), LAMBDA i : Times(Whole(x[i]), Residual(x, y, through, i))) = Q0
      /\ r # NAN => /\ AtMost(r, <<1, 1>>) /\ AtMost(<<-1, 1>>, r) /\ Correlation(y, x) = r
                    /\ Correlation(x, x) = <<1, 1>> /\ Correlation(x, [i \in DOMAIN y |-> 7 - y[i]]) = Minus(Q0, r)
      /\ SpearmanCorrelation(x, [i \in DOMAIN x |-> x[i] * x[i] * x[i]]) \in {NAN, <<1, 1>>}

StatisticsOfAreRight(x, y) ==
  IF x = <<>> THEN Mean(x) = NAN /\ Percentile(x, 50) = NAN /\ HarmonicMean(x, x) = NAN
  ELSE /\ MiddleLaws(x) /\ SpreadLaws(x, y) /\ CountLaws(x)
       /\ Len(x) >= 2 => TogetherLaws(x, y)

------------------------------------------------------------------------------
(***************************************************************************)
(* bitset/bitset.c: size bits kept in whole bytes. bits holds the places   *)
(* that are 1, those of the last byte past the size included; what the     *)
(* caller may read is what lies below the size.                            *)
(***************************************************************************)

CONSTANT BYTE    \* 8: the bits of a byte

NumBytes(size) == (size + BYTE - 1) \div BYTE
Places(bs) == 0..NumBytes(bs.size) * BYTE - 1
Byte(bs, b) == {p \in bs.bits : p \div BYTE = b}
MaskTail(bs) == [bs EXCEPT !.bits = {p \in @ : p < bs.size}]

Create(size) == [size |-> size, bits |-> {}]
Put(bs, pos, value) == [bs EXCEPT !.bits = IF value THEN @ \union {pos} ELSE @ \ {pos}]
Test(bs, pos) == pos < bs.size /\ pos \in bs.bits
Set(bs, pos, value) == IF pos >= bs.size THEN bs ELSE Put(bs, pos, value)
Reset(bs, pos) == IF pos >= bs.size THEN bs ELSE Put(bs, pos, FALSE)
Flip(bs, pos) == IF pos >= bs.size THEN bs ELSE Put(bs, pos, pos \notin bs.bits)

FlipAll(bs) == MaskTail([bs EXCEPT !.bits = Places(bs) \ @])
Not(bs) == MaskTail([size |-> bs.size, bits |-> Places(bs) \ bs.bits])

\* The last character is bit 0; a character other than 1 clears. Bits past the
\* string keep their values.
SetFromString(bs, str) ==
  LET n == Len(str)
      reached == {p \in 0..bs.size - 1 : p < n}
  IN  [bs EXCEPT !.bits = (@ \ reached) \union {p \in reached : str[n - p] = 1}]
ToString(bs) == [i \in 1..bs.size |-> IF Test(bs, bs.size - i) THEN 1 ELSE 0]

All(bs) == \A p \in 0..bs.size - 1 : p \in bs.bits
AnyBit(bs) == \E p \in 0..bs.size - 1 : p \in bs.bits
None(bs) == ~AnyBit(bs)
BitsetCount(bs) == Cardinality({p \in 0..bs.size - 1 : p \in bs.bits})
ToUlong(bs, width) ==
  LET limit == IF bs.size < width THEN bs.size ELSE width
      value[i \in 0..limit] == IF i = 0 THEN 0 ELSE value[i - 1] + (IF i - 1 \in bs.bits THEN 2 ^ (i - 1) ELSE 0)
  IN  value[limit]

And(a, b) == [size |-> a.size, bits |-> a.bits \intersect b.bits]
Or(a, b) == [size |-> a.size, bits |-> a.bits \union b.bits]
Xor(a, b) == [size |-> a.size, bits |-> (a.bits \ b.bits) \union (b.bits \ a.bits)]
ShiftLeft(bs, shift) ==
  IF shift >= bs.size THEN Create(bs.size)
  ELSE MaskTail([size |-> bs.size, bits |-> {i \in shift..bs.size - 1 : i - shift \in bs.bits}])
ShiftRight(bs, shift) == [size |-> bs.size, bits |-> {i \in 0..bs.size - 1 : i + shift < bs.size /\ i + shift \in bs.bits}]

\* Whole bytes first, the used bits of the last one after a mask
BitsetIsEqual(a, b) ==
  LET full == IF a.size % BYTE = 0 THEN NumBytes(a.size) ELSE NumBytes(a.size) - 1
  IN  /\ a.size = b.size
      /\ \A i \in 0..full - 1 : Byte(a, i) = Byte(b, i)
      /\ a.size % BYTE # 0 => {p \in Byte(a, full) : p < a.size} = {p \in Byte(b, full) : p < b.size}
BitsetCopy(bs) == [size |-> bs.size, bits |-> bs.bits \intersect Places(bs)]

\* The lowest 1 of the first byte that has one, unless it is past the size
Lowest(bits, size) ==
  LET bytes == {p \div BYTE : p \in bits}
      first == CHOOSE b \in bytes : \A c \in bytes : b <= c
      pos == CHOOSE p \in bits : p \div BYTE = first /\ \A q \in bits : q \div BYTE = first => p <= q
  IN  IF bits = {} \/ pos >= size THEN size ELSE pos
FindFirst(bs) == Lowest(bs.bits, bs.size)
FindNext(bs, pos) == IF pos >= bs.size \/ pos + 1 >= bs.size THEN bs.size ELSE Lowest({p \in bs.bits : p >= pos + 1}, bs.size)

------------------------------------------------------------------------------
(***************************************************************************)
(* span/span.c: a window on an array owned by somebody else. memory is the *)
(* array, a sequence of bytes; data is the byte a span starts at, or NULL. *)
(***************************************************************************)

NULL == -1

View(data, elemCount, elemSize) ==
  IF elemCount = 0 \/ data = NULL \/ elemSize = 0 THEN [data |-> NULL, size |-> 0, elemSize |-> elemSize]
  ELSE [data |-> data, size |-> elemCount, elemSize |-> elemSize]

SizeBytes(s) == s.size * s.elemSize
Empty(s) == s.size = 0
SpanAt(s, index) == IF index >= s.size THEN NULL ELSE s.data + index * s.elemSize
Front(s) == IF s.size = 0 THEN NULL ELSE s.data
Back(s) == IF s.size = 0 THEN NULL ELSE s.data + (s.size - 1) * s.elemSize

Nothing(s) == [data |-> NULL, size |-> 0, elemSize |-> s.elemSize]
Part(s, offset, count) ==
  [data |-> IF count = 0 THEN NULL ELSE s.data + offset * s.elemSize, size |-> count, elemSize |-> s.elemSize]
First(s, count) == IF count > s.size THEN Nothing(s) ELSE Part(s, 0, count)
Last(s, count) == IF count > s.size THEN Nothing(s) ELSE Part(s, s.size - count, count)
Subspan(s, offset, count) == IF offset > s.size \/ count > s.size - offset THEN Nothing(s) ELSE Part(s, offset, count)

Bytes(memory, s) == [i \in 1..SizeBytes(s) |-> memory[s.data + i]]

\* memcmp of the common length, then the lengths
LexCompare(memory, a, b) ==
  LET x == Bytes(memory, a)
      y == Bytes(memory, b)
      differ == {i \in DOMAIN x : i \in DOMAIN y /\ x[i] # y[i]}
      first == CHOOSE i \in differ : \A j \in differ : i <= j
  IN  IF differ # {} THEN IF x[first] < y[first] THEN -1 ELSE 1
      ELSE IF Len(x) < Len(y) THEN -1 ELSE IF Len(x) > Len(y) THEN 1 ELSE 0

SpanIsEqual(memory, a, b) == a.size = b.size /\ a.elemSize = b.elemSize /\ Bytes(memory, a) = Bytes(memory, b)
IsLess(memory, a, b) == LexCompare(memory, a, b) < 0
IsGreater(memory, a, b) == LexCompare(memory, a, b) > 0
SameShape(a, b) == a.size = b.size /\ a.elemSize = b.elemSize
IsLessOrEqual(memory, a, b) == LET c == LexCompare(memory, a, b) IN c < 0 \/ (c = 0 /\ SameShape(a, b))
IsGreaterOrEqual(memory, a, b) == LET c == LexCompare(memory, a, b) IN c > 0 \/ (c = 0 /\ SameShape(a, b))

Begin(s) == s.data
SpanEnd(s) == IF s.size = 0 THEN s.data ELSE s.data + SizeBytes(s)
Rbegin(s) == Back(s)
Rend(s) == NULL
Increment(s, ptr) == IF ptr < s.data \/ ptr >= s.data + SizeBytes(s) THEN NULL ELSE ptr + s.elemSize
Decrement(s, ptr) == IF ptr <= s.data \/ ptr > s.data + SizeBytes(s) THEN NULL ELSE ptr - s.elemSize

------------------------------------------------------------------------------
(***************************************************************************)
(* What the functions of Bitset and Span must return: a bitset is a        *)
(* function of its places, a span the part of the array it covers.         *)
(***************************************************************************)

Bits(bs) == [p \in 0..bs.size - 1 |-> p \in bs.bits]
Clean(bs) == bs.bits \subseteq 0..bs.size - 1
NextOne(bs, from) == LET ones == {p \in from..bs.size - 1 : p \in bs.bits}
                     IN  IF ones = {} THEN bs.size ELSE CHOOSE p \in ones : \A q \in ones : p <= q

BitsetLaws(bs) ==
  LET n == bs.size
      flipped == FlipAll(bs)
      mixed == SetFromString(bs, <<1, 0, 1, 1>>)
  IN  /\ \A x \in {flipped, Not(bs), mixed, ShiftLeft(bs, 1), BitsetCopy(bs)} : Clean(x)
      /\ Bits(flipped) = [p \in 0..n - 1 |-> p \notin bs.bits] /\ BitsetIsEqual(Not(flipped), bs)
      /\ All(bs) = (BitsetCount(bs) = n) /\ None(bs) = (BitsetCount(bs) = 0) /\ BitsetCount(bs) + BitsetCount(flipped) = n
      /\ SetFromString(Create(n), ToString(bs)) = bs
      /\ \A p \in 0..n - 1 : Bits(mixed)[p] = IF p > 3 THEN p \in bs.bits ELSE p # 2
      /\ ToUlong(bs, 32) + ToUlong(flipped, 32) = 2 ^ n - 1 /\ ToUlong(bs, 4) = ToUlong(bs, 32) % 16
      /\ Xor(And(bs, mixed), Or(bs, mixed)) = Xor(bs, mixed)
      /\ Not(And(bs, mixed)) = Or(flipped, Not(mixed))
      /\ \A k \in 0..n + 1 : /\ ShiftRight(ShiftLeft(bs, k), k) = [bs EXCEPT !.bits = {p \in @ : p + k < n}]
                             /\ n < 20 /\ k <= n => ToUlong(ShiftLeft(bs, k), 32) = (ToUlong(bs, 32) * 2 ^ k) % 2 ^ n
                             /\ ToUlong(ShiftRight(bs, k), 32) = ToUlong(bs, 32) \div 2 ^ k
      /\ FindFirst(bs) = NextOne(bs, 0)
      /\ \A p \in 0..n + 1 : FindNext(bs, p) = NextOne(bs, p + 1)
      /\ \A p \in 0..n : /\ Test(Set(bs, p, TRUE), p) = (p < n) /\ ~Test(Reset(bs, p), p)
                         /\ Flip(Flip(bs, p), p) = bs
                         /\ BitsetIsEqual(bs, Set(bs, p, TRUE)) = (p = n \/ p \in bs.bits)

Elements(memory, s) == [i \in 1..s.size |-> SubSeq(memory, SpanAt(s, i - 1) + 1, SpanAt(s, i - 1) + s.elemSize)]
Walk(s) == [i \in 1..s.size |-> s.data + (i - 1) * s.elemSize]

SpanLaws(memory, size) ==
  LET s == View(0, Len(memory) \div size, size)
      n == s.size
      windows == {Subspan(s, w[1], w[2]) : w \in {v \in (0..n) \X (0..n) : v[1] + v[2] <= n}}
  IN  /\ \A k \in 0..n : /\ Elements(memory, First(s, k)) = SubSeq(Elements(memory, s), 1, k)
                         /\ Elements(memory, Last(s, k)) = SubSeq(Elements(memory, s), n - k + 1, n)
                         /\ Subspan(s, n - k, k) = Last(s, k)
      /\ \A o, k \in 0..n + 1 : o + k > n => Empty(Subspan(s, o, k))
      /\ \A w \in windows :
           /\ Empty(w) \/ (Front(w) = SpanAt(w, 0) /\ Back(w) = SpanAt(w, w.size - 1) /\ SpanAt(w, w.size) = NULL)
           /\ \A i \in 1..w.size : LET here == Walk(w)[i] IN
                /\ Increment(w, here) = IF i = w.size THEN SpanEnd(w) ELSE Walk(w)[i + 1]
                /\ Decrement(w, here) = IF i = 1 THEN Rend(w) ELSE Walk(w)[i - 1]
      /\ \A v, w \in windows :
           /\ SpanIsEqual(memory, v, w) = (Elements(memory, v) = Elements(memory, w))
           /\ Cardinality({c \in {"<", "=", ">"} : CASE c = "<" -> IsLess(memory, v, w)
                                                     [] c = "=" -> SpanIsEqual(memory, v, w)
                                                     [] c = ">" -> IsGreater(memory, v, w)}) = 1
           /\ IsLessOrEqual(memory, v, w) = ~IsGreater(memory, v, w)
           /\ IsGreaterOrEqual(memory, v, w) = ~IsLess(memory, v, w)
           /\ Ext!IsPrefix(Bytes(memory, v), Bytes(memory, w)) => IsLessOrEqual(memory, v, w)
==============================================================================
