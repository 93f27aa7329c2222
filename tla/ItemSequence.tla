----------------------------- MODULE ItemSequence -----------------------------
(***************************************************************************)
(* What the sequence containers promise: each object is a sequence of      *)
(* items, and a call either does to it what its name says or, where there  *)
(* was no memory, nothing.  Vector, Deque, Queue, Stack, List and          *)
(* ForwardList implement it; the calls one does not have never happen.     *)
(***************************************************************************)
EXTENDS Calls

CONSTANTS
  Objects,
  Silent,   \* the operations that do not report whether they went well
  Zero,     \* the item whose bytes are 0
  Key(_)    \* what the comparison functions compare

VARIABLES
  items,    \* the sequence of each object
  call      \* the last call

vars == <<items, call>>

\* The calls of one operation or another, on the sequence it is applied to
Is(ops) == call'.op \in ops
Mine == items[call'.on]
Other == items[call'.with]
Arg == call'.args

Becomes(s) == items' = [items EXCEPT ![call'.on] = s]
Done(s) == call'.ok /\ call'.result = NULL /\ Becomes(s)
Refused(s) == call'.ok = (call'.op \in Silent) /\ call'.result = NULL /\ Becomes(s)
OutOfMemory == ~call'.memory /\ Refused(Mine)

Init == items = [o \in Objects |-> <<>>] /\ call = NoCall

-----------------------------------------------------------------------------

PushBack ==
  /\ Is({"push_back", "emplace_back"})
  /\ Done(Append(Mine, Arg[1])) \/ OutOfMemory

PushFront ==
  /\ Is({"push_front", "emplace_front"})
  /\ Done(<<Arg[1]>> \o Mine) \/ OutOfMemory

\* A position past the end changes nothing.
Insert ==
  /\ Is({"insert", "emplace"})
  /\ IF Arg[1] <= Len(Mine)
     THEN Done(SubSeq(Mine, 1, Arg[1]) \o <<Arg[2]>> \o SubSeq(Mine, Arg[1] + 1, Len(Mine)))
          \/ OutOfMemory
     ELSE Refused(Mine)

\* Several items at a position: as far as memory goes, the first ones or the last ones
InsertAll ==
  /\ Is({"insert_first", "insert_last"})
  /\ LET all == Arg[2]
         some(n) == IF Is({"insert_first"}) THEN SubSeq(all, 1, n)
                    ELSE SubSeq(all, Len(all) - n + 1, Len(all))
     IN  \E n \in 0..Len(all) :
           /\ n = Len(all) \/ ~call'.memory
           /\ Done(SubSeq(Mine, 1, Arg[1]) \o some(n) \o SubSeq(Mine, Arg[1] + 1, Len(Mine)))

PopFront ==
  /\ Is({"pop_front"})
  /\ IF Mine = <<>> THEN Refused(Mine) ELSE Done(Tail(Mine))

\* drop_back does not hand out the item.
PopBack ==
  /\ Is({"pop_back", "drop_back"})
  /\ IF Mine = <<>> THEN Refused(Mine)
     ELSE /\ call'.ok
          /\ call'.result = IF Is({"pop_back"}) THEN <<Mine[Len(Mine)]>> ELSE NULL
          /\ Becomes(SubSeq(Mine, 1, Len(Mine) - 1))

\* len items from pos, or nothing where the range is not inside
Erase ==
  /\ Is({"erase"})
  /\ LET pos == Arg[1] len == Arg[2]
     IN  IF pos < Len(Mine) /\ pos + len <= Len(Mine)
         THEN Done(SubSeq(Mine, 1, pos) \o SubSeq(Mine, pos + len + 1, Len(Mine)))
         ELSE Refused(Mine)

\* The item at a position is taken out; a copy is handed out where there is memory.
Extract ==
  /\ Is({"extract"})
  /\ IF Arg[1] < Len(Mine)
     THEN /\ call'.ok
          /\ call'.result = IF call'.memory THEN <<Mine[Arg[1] + 1]>> ELSE NULL
          /\ Becomes(SubSeq(Mine, 1, Arg[1]) \o SubSeq(Mine, Arg[1] + 2, Len(Mine)))
     ELSE Refused(Mine)

Replace ==
  /\ Is({"replace"})
  /\ IF Arg[1] < Len(Mine) THEN Done([Mine EXCEPT ![Arg[1] + 1] = Arg[2]]) ELSE Refused(Mine)

\* New items are zero, or the one that is given.
Resize ==
  /\ Is({"resize"})
  /\ LET new == IF Len(Arg) = 1 THEN Zero ELSE Arg[2]
     IN  \/ Done([i \in 1..Arg[1] |-> IF i <= Len(Mine) THEN Mine[i] ELSE new])
         \/ OutOfMemory

\* As far as memory goes
ResizeSome ==
  /\ Is({"resize_some"})
  /\ \E n \in 0..Arg[1] :
       /\ n = Arg[1] \/ (~call'.memory /\ n >= Len(Mine))
       /\ Done([i \in 1..n |-> IF i <= Len(Mine) THEN Mine[i] ELSE Zero])

\* The items of a sequence in place of what there was: as far as memory goes
Fill ==
  /\ Is({"fill"})
  /\ \E n \in 0..Len(Arg) : (n = Len(Arg) \/ ~call'.memory) /\ Done(SubSeq(Arg, 1, n))

Clear == Is({"clear"}) /\ Done(<<>>)

\* What is inside is not touched.
Keep ==
  /\ Is({"reserve", "shrink_to_fit"})
  /\ Done(Mine) \/ OutOfMemory

Swap ==
  /\ Is({"swap"})
  /\ call'.ok /\ call'.result = NULL
  /\ items' = [items EXCEPT ![call'.on] = Other, ![call'.with] = Mine]

\* A failed assignment leaves the destination empty.
Assign ==
  /\ Is({"assign"})
  /\ Done(Other) \/ (~call'.memory /\ Refused(<<>>))

Copy ==
  /\ Is({"copy"})
  /\ Done(Other) \/ OutOfMemory

-----------------------------------------------------------------------------
(* The functions that compare                                              *)

Matching(s, x) == SelectSeq(s, LAMBDA y : Key(y) = Key(x))
NotMatching(s, x) == SelectSeq(s, LAMBDA y : Key(y) # Key(x))

IsSortedByKey(s) == \A i \in 1..Len(s) - 1 : Key(s[i]) <= Key(s[i + 1])

\* t is s in the order of the keys, equal items in the order they had.
SortsStably(s, t) ==
  /\ IsSortedByKey(t)
  /\ Len(t) = Len(s)
  /\ \A i \in 1..Len(s) : Matching(t, s[i]) = Matching(s, s[i])

Sort ==
  /\ Is({"sort"})
  /\ call'.ok /\ call'.result = NULL
  /\ \A o \in Objects \ {call'.on} : items'[o] = items[o]
  /\ SortsStably(Mine, items'[call'.on])

Reversal == Is({"reverse"}) /\ Done([i \in 1..Len(Mine) |-> Mine[Len(Mine) + 1 - i]])

RemoveEqual == Is({"remove"}) /\ Done(NotMatching(Mine, Arg[1]))

\* Of a run of equal items the first stays.
Unique ==
  /\ Is({"unique"})
  /\ LET kept[n \in 0..Len(Mine)] ==
           IF n = 0 THEN <<>>
           ELSE IF n > 1 /\ Key(Mine[n]) = Key(Mine[n - 1]) THEN kept[n - 1]
           ELSE Append(kept[n - 1], Mine[n])
     IN  Done(kept[Len(Mine)])

Onto(itself) == (call'.on = call'.with) = itself

\* The other list is moved in at a position. A list is not spliced into itself.
Splice ==
  /\ Is({"splice"})
  /\ call'.ok /\ call'.result = NULL
  /\ \/ Onto(TRUE) /\ items' = items
     \/ /\ Onto(FALSE)
        /\ items' = [items EXCEPT
             ![call'.on] = SubSeq(Mine, 1, Arg[1]) \o Other \o SubSeq(Mine, Arg[1] + 1, Len(Mine)),
             ![call'.with] = <<>>]

\* The other list is moved in item by item: of two sorted lists a sorted one.
MergesStably(s, t, both) ==
  /\ Len(both) = Len(s) + Len(t)
  /\ \A i \in 1..Len(both) : Matching(both, both[i]) = Matching(s, both[i]) \o Matching(t, both[i])
  /\ IsSortedByKey(s) /\ IsSortedByKey(t) => IsSortedByKey(both)

Merge ==
  /\ Is({"merge"})
  /\ call'.ok /\ call'.result = NULL
  /\ \/ Onto(TRUE) /\ items' = items
     \/ /\ Onto(FALSE)
        /\ items'[call'.with] = <<>>
        /\ \A o \in Objects \ {call'.on, call'.with} : items'[o] = items[o]
        /\ MergesStably(Mine, Other, items'[call'.on])

-----------------------------------------------------------------------------

Next ==
  /\ call' # NoCall
  /\ \/ PushBack \/ PushFront \/ Insert \/ InsertAll
     \/ PopFront \/ PopBack \/ Erase \/ Extract
     \/ Replace \/ Resize \/ ResizeSome \/ Fill \/ Clear \/ Keep
     \/ Swap \/ Assign \/ Copy
     \/ Sort \/ Reversal \/ RemoveEqual \/ Unique \/ Splice \/ Merge

Spec == Init /\ [][Next]_vars
===============================================================================
