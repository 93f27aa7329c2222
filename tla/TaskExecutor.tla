----------------------------- MODULE TaskExecutor -----------------------------
(***************************************************************************)
(* What a thread pool promises the program that submits to it, with no     *)
(* queue, lock, worker or condition variable: a task is accepted or        *)
(* refused, an accepted task is started once and finishes once, and the    *)
(* pool closes only when it owes nothing.                                  *)
(***************************************************************************)
CONSTANT Tasks

VARIABLES open, state

vars == <<open, state>>

Init ==
  /\ open = TRUE
  /\ state = [t \in Tasks |-> "new"]

Move(t, from, to) ==
  /\ open
  /\ state[t] = from
  /\ state' = [state EXCEPT ![t] = to]
  /\ open' = open

Accept(t) == Move(t, "new", "accepted")
Refuse(t) == Move(t, "new", "refused")
Begin(t)  == Move(t, "accepted", "running")
Finish(t) == Move(t, "running", "finished")

Close ==
  /\ open
  /\ \A t \in Tasks : state[t] \notin {"accepted", "running"}
  /\ open' = FALSE
  /\ UNCHANGED state

Next ==
  \/ \E t \in Tasks : Accept(t) \/ Refuse(t) \/ Begin(t) \/ Finish(t)
  \/ Close

Spec == Init /\ [][Next]_vars

FairSpec == Spec /\ \A t \in Tasks : WF_vars(Begin(t)) /\ WF_vars(Finish(t))
===============================================================================
