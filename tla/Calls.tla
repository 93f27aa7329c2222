--------------------------------- MODULE Calls ---------------------------------
(***************************************************************************)
(* The calls of a container's functions, as the history of the last one.   *)
(***************************************************************************)
EXTENDS Integers, Sequences

NULL == <<>>        \* no item is handed out
Nothing == -1       \* what a slot holds that holds no item

\* op of the object on, and of the object with where it takes two.  memory: whether
\* there is memory to be had.  ok: what the function reports, TRUE of a function
\* that reports nothing.  result: the item it hands out, or NULL.
CallOf(op, on, with, args, memory, ok, result) ==
  [op |-> op, on |-> on, with |-> with, args |-> args,
   memory |-> memory, ok |-> ok, result |-> result]

Call(op, on, args, memory, ok, result) == CallOf(op, on, on, args, memory, ok, result)

NoCall == [op |-> "none"]

\* The order of memcmp on sequences of items, a prefix first
LexLess(s, t) ==
  \E n \in 0..Len(s) :
    /\ n <= Len(t)
    /\ \A i \in 1..n : s[i] = t[i]
    /\ \/ n = Len(s) /\ n < Len(t)
       \/ n < Len(s) /\ n < Len(t) /\ s[n + 1] < t[n + 1]
===============================================================================
