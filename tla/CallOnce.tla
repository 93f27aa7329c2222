------------------------------- MODULE CallOnce -------------------------------
(***************************************************************************)
(* call_once of concurrent/concurrent.c on Windows.  The flag's status is  *)
(* read without a lock, twice in every turn of the loop; the lock that the *)
(* losers wait on is created by the winner, inside the race.               *)
(***************************************************************************)
EXTENDS Naturals, FiniteSets

CONSTANT Threads

VARIABLES
  status,     \* flag->status
  created,    \* flag->lock is initialised
  lock,       \* the threads inside it
  calls,      \* how often func was entered
  finished,   \* func has returned
  pc

vars == <<status, created, lock, calls, finished, pc>>

Init ==
  /\ status = 0
  /\ created = FALSE
  /\ lock = {}
  /\ calls = 0
  /\ finished = FALSE
  /\ pc = [t \in Threads |-> "loop"]

Goto(t, s) == pc' = [pc EXCEPT ![t] = s]

-----------------------------------------------------------------------------

\* while (flag->status < 3)
TestStatus(t) ==
  /\ pc[t] = "loop"
  /\ Goto(t, IF status < 3 THEN "switch" ELSE "returned")
  /\ UNCHANGED <<status, created, lock, calls, finished>>

\* switch (flag->status), a second read
SwitchOnStatus(t) ==
  /\ pc[t] = "switch"
  /\ Goto(t, CASE status = 0 -> "exchange" [] status = 2 -> "enter" [] OTHER -> "loop")
  /\ UNCHANGED <<status, created, lock, calls, finished>>

ExchangeStatus(t) ==
  /\ pc[t] = "exchange"
  /\ status' = IF status = 0 THEN 1 ELSE status
  /\ Goto(t, IF status = 0 THEN "create" ELSE "loop")
  /\ UNCHANGED <<created, lock, calls, finished>>

\* InitializeCriticalSection and EnterCriticalSection: nobody else knows the lock.
CreateLock(t) ==
  /\ pc[t] = "create"
  /\ created' = TRUE
  /\ lock' = {t}
  /\ Goto(t, "open")
  /\ UNCHANGED <<status, calls, finished>>

\* Mutant: the flag is marked done before func runs.
MarkDoneThenRun(t) ==
  /\ pc[t] = "open"
  /\ status' = 3
  /\ calls' = calls + 1
  /\ Goto(t, "running")
  /\ UNCHANGED <<created, lock, finished>>

\* flag->status = 2, and into func
RunFunc(t) ==
  /\ pc[t] = "open"
  /\ status' = 2
  /\ calls' = calls + 1
  /\ Goto(t, "running")
  /\ UNCHANGED <<created, lock, finished>>

FuncReturns(t) ==
  /\ pc[t] = "running"
  /\ finished' = TRUE
  /\ Goto(t, "close")
  /\ UNCHANGED <<status, created, lock, calls>>

\* Mutant: the winner leaves the flag as it is.
MarkNotDone(t) ==
  /\ pc[t] = "close"
  /\ Goto(t, "leave")
  /\ UNCHANGED <<status, created, lock, calls, finished>>

MarkDone(t) ==
  /\ pc[t] = "close"
  /\ status' = 3
  /\ Goto(t, "leave")
  /\ UNCHANGED <<created, lock, calls, finished>>

\* The losers' EnterCriticalSection.
EnterLock(t) ==
  /\ pc[t] = "enter"
  /\ created
  /\ lock = {}
  /\ lock' = {t}
  /\ Goto(t, "pass")
  /\ UNCHANGED <<status, created, calls, finished>>

\* LeaveCriticalSection: the winner returns, a loser reads the flag again.
LeaveLock(t) ==
  /\ pc[t] \in {"leave", "pass"}
  /\ lock' = {}
  /\ Goto(t, IF pc[t] = "leave" THEN "returned" ELSE "loop")
  /\ UNCHANGED <<status, created, calls, finished>>

\* Another call by a thread that has returned.
CallAgain(t) ==
  /\ pc[t] = "returned"
  /\ Goto(t, "loop")
  /\ UNCHANGED <<status, created, lock, calls, finished>>

Step(t) ==
  \/ TestStatus(t)
  \/ SwitchOnStatus(t)
  \/ ExchangeStatus(t)
  \/ CreateLock(t)
  \/ RunFunc(t)
  \/ FuncReturns(t)
  \/ MarkDone(t)
  \/ EnterLock(t)
  \/ LeaveLock(t)

Next == \E t \in Threads : Step(t) \/ CallAgain(t)

Spec == Init /\ [][Next]_vars

\* Threads are scheduled, func returns, and a critical section is handed over
\* fairly enough that no thread fails to enter it for ever.
FairSpec ==
  Spec /\ \A t \in Threads : WF_vars(Step(t)) /\ SF_vars(EnterLock(t))

-----------------------------------------------------------------------------

TypeOK ==
  /\ status \in 0..3
  /\ created \in BOOLEAN
  /\ lock \subseteq Threads
  /\ calls \in {0, 1}
  /\ finished \in BOOLEAN
  /\ pc \in [Threads -> {"loop", "switch", "exchange", "create", "open", "running",
                         "close", "leave", "enter", "pass", "returned"}]

\* func runs at most once, whoever returns from call_once finds its work done, and
\* nobody waits on a lock that is not created yet.
OnceAndBefore ==
  /\ TypeOK
  /\ calls <= 1
  /\ (\E t \in Threads : pc[t] = "returned") => finished
  /\ \A t \in Threads : pc[t] \in {"enter", "pass"} => created

\* Every call returns: one thread stands for all of them, because nothing tells them apart.
EveryCallReturns ==
  LET t == CHOOSE t \in Threads : TRUE IN pc[t] = "loop" ~> pc[t] = "returned"
===============================================================================
