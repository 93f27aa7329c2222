------------------------------ MODULE PriorityBag ------------------------------
(***************************************************************************)
(* What a priority queue promises: each object is a bag of items, and a    *)
(* pop takes one out that no other comes before in the object's order.     *)
(***************************************************************************)
EXTENDS Calls, FiniteSets

CONSTANTS
  Objects,
  Items,
  Before(_, _, _)   \* Before(order, x, y): x comes before y

VARIABLES
  count,            \* how many of each item each object has
  order,            \* the order of each object
  call              \* the last call

vars == <<count, order, call>>

Is(ops) == call'.op \in ops
Mine == count[call'.on]
Other == count[call'.with]

Becomes(bag) == count' = [count EXCEPT ![call'.on] = bag] /\ UNCHANGED order
NoItems == [x \in Items |-> 0]

Init ==
  /\ count = [o \in Objects |-> NoItems]
  /\ DOMAIN order = Objects
  /\ call = NoCall

Push ==
  /\ Is({"push_back", "emplace_back"})
  /\ \/ call'.ok /\ Becomes([Mine EXCEPT ![call'.args[1]] = @ + 1])
     \/ ~call'.memory /\ ~call'.ok /\ Becomes(Mine)

Pop ==
  /\ Is({"pop_front"})
  /\ \/ Mine = NoItems /\ Becomes(Mine)
     \/ \E x \in Items :
          /\ Mine[x] > 0
          /\ \A y \in Items : Mine[y] > 0 => ~Before(order[call'.on], y, x)
          /\ Becomes([Mine EXCEPT ![x] = @ - 1])

Clear == Is({"clear"}) /\ Becomes(NoItems)

Keep == Is({"reserve"}) /\ (call'.ok \/ ~call'.memory) /\ Becomes(Mine)

\* The orders are swapped with the items.
Swap ==
  /\ Is({"swap"})
  /\ count' = [count EXCEPT ![call'.on] = Other, ![call'.with] = Mine]
  /\ order' = [order EXCEPT ![call'.on] = order[call'.with], ![call'.with] = order[call'.on]]

\* The destination keeps its order, and is empty where the assignment fails.
Assign ==
  /\ Is({"assign"})
  /\ IF call'.ok THEN Becomes(Other) ELSE ~call'.memory /\ Becomes(NoItems)

\* A copy has the order of its source.
Copy ==
  /\ Is({"copy"})
  /\ IF call'.ok
     THEN /\ count' = [count EXCEPT ![call'.on] = Other]
          /\ order' = [order EXCEPT ![call'.on] = order[call'.with]]
     ELSE ~call'.memory /\ Becomes(Mine)

Next == Push \/ Pop \/ Clear \/ Keep \/ Swap \/ Assign \/ Copy

Spec == Init /\ [][Next]_vars
===============================================================================
