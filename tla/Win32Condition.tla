---------------------------- MODULE Win32Condition ----------------------------
(***************************************************************************)
(* The condition variable that concurrent/concurrent.c builds for Windows  *)
(* out of a counter of waiters, an auto-reset event that wakes one of them *)
(* and a manual-reset event that wakes them all, used the way the thread   *)
(* pool uses it: waiters sleep while there is no item, producers add one   *)
(* under the mutex and signal or broadcast before they release it.         *)
(*                                                                         *)
(* Each of the two critical sections of a wait, its kernel wait, the reset *)
(* and the second mutex_lock are steps of their own.                       *)
(***************************************************************************)
EXTENDS Integers, FiniteSets

CONSTANTS
  Waiters,
  Producers,
  MaxItems,   \* bounds the items a run holds at a time
  MaxLeaks    \* bounds how many waits time out

VARIABLES
  owner,          \* the threads inside the mutex: one or none
  mWaitersCount,
  eventOne,       \* mEvents[_CONDITION_EVENT_ONE] is signalled
  eventAll,       \* mEvents[_CONDITION_EVENT_ALL] is signalled
  items,          \* what the mutex protects
  leaked,         \* history: how many waits have timed out
  owed,           \* history: the waiters the latest broadcasts have to wake
  pc

vars == <<owner, mWaitersCount, eventOne, eventAll, items, leaked, owed, pc>>

WaiterStates == {"idle", "test",
                 "between",              \* counted, the mutex released
                 "blocked",              \* in WaitForMultipleObjects
                 "wokenOne", "wokenAll", \* which event ended the wait
                 "reset", "relock"}
ProducerStates == {"idle", "signal", "broadcast", "setOne", "setAll", "unlock"}

Asleep == {w \in Waiters : pc[w] \in {"between", "blocked"}}
Counted == {w \in Waiters : pc[w] \in {"between", "blocked", "wokenOne", "wokenAll"}}
Blocked == {w \in Waiters : pc[w] = "blocked"}
Announcing == {p \in Producers : pc[p] # "idle" /\ pc[p] # "unlock"}

Init ==
  /\ owner = {}
  /\ mWaitersCount = 0
  /\ eventOne = FALSE
  /\ eventAll = FALSE
  /\ items = 0
  /\ leaked = 0
  /\ owed = {}
  /\ pc = [t \in Waiters \cup Producers |-> "idle"]

-----------------------------------------------------------------------------
(* The caller's loop around the wait.                                      *)

WaiterLocks(w) ==
  /\ pc[w] \in {"idle", "relock"}
  /\ owner = {}
  /\ owner' = {w}
  /\ pc' = [pc EXCEPT ![w] = "test"]
  /\ UNCHANGED <<mWaitersCount, eventOne, eventAll, items, owed, leaked>>

WaiterTakesItem(w) ==
  /\ pc[w] = "test"
  /\ items > 0
  /\ items' = items - 1
  /\ owner' = {}
  /\ pc' = [pc EXCEPT ![w] = "idle"]
  /\ UNCHANGED <<mWaitersCount, eventOne, eventAll, owed, leaked>>

-----------------------------------------------------------------------------
(* _cnd_timedwait_win32                                                    *)

\* Mutant: the mutex is released before the waiter is counted.
BeginWaitUncounted(w) ==
  /\ pc[w] = "test"
  /\ items = 0
  /\ owner' = {}
  /\ pc' = [pc EXCEPT ![w] = "between"]
  /\ UNCHANGED <<mWaitersCount, eventOne, eventAll, items, owed, leaked>>

\* Counted while the mutex is still held, then the mutex is released.
BeginWait(w) ==
  /\ pc[w] = "test"
  /\ items = 0
  /\ mWaitersCount' = mWaitersCount + 1
  /\ owner' = {}
  /\ pc' = [pc EXCEPT ![w] = "between"]
  /\ UNCHANGED <<eventOne, eventAll, items, owed, leaked>>

\* Of two signalled events WaitForMultipleObjects takes the first.
EnterKernelWait(w) ==
  /\ pc[w] = "between"
  /\ pc' = [pc EXCEPT ![w] = IF eventOne THEN "wokenOne"
                             ELSE IF eventAll THEN "wokenAll" ELSE "blocked"]
  /\ eventOne' = FALSE
  /\ owed' = IF eventOne \/ eventAll THEN owed \ {w} ELSE owed
  /\ UNCHANGED <<owner, mWaitersCount, eventAll, items, leaked>>

\* WAIT_TIMEOUT: back to the mutex, still counted.
WaitTimesOut(w) ==
  /\ pc[w] = "blocked"
  /\ leaked < MaxLeaks
  /\ leaked' = leaked + 1
  /\ pc' = [pc EXCEPT ![w] = "relock"]
  /\ owed' = owed \ {w}
  /\ UNCHANGED <<owner, mWaitersCount, eventOne, eventAll, items>>

\* Mutant: only a waiter that a broadcast woke takes itself off the count.
EndWaitOfBroadcastOnly(w) ==
  /\ pc[w] \in {"wokenOne", "wokenAll"}
  /\ mWaitersCount' = IF pc[w] = "wokenAll" THEN mWaitersCount - 1 ELSE mWaitersCount
  /\ pc' = [pc EXCEPT ![w] = IF @ = "wokenAll" /\ mWaitersCount' = 0
                             THEN "reset" ELSE "relock"]
  /\ UNCHANGED <<owner, eventOne, eventAll, items, owed, leaked>>

\* The last waiter that a broadcast woke has to take the broadcast back.
EndWait(w) ==
  /\ pc[w] \in {"wokenOne", "wokenAll"}
  /\ mWaitersCount' = mWaitersCount - 1
  /\ pc' = [pc EXCEPT ![w] = IF @ = "wokenAll" /\ mWaitersCount' = 0
                             THEN "reset" ELSE "relock"]
  /\ UNCHANGED <<owner, eventOne, eventAll, items, owed, leaked>>

ResetBroadcast(w) ==
  /\ pc[w] = "reset"
  /\ eventAll' = FALSE
  /\ pc' = [pc EXCEPT ![w] = "relock"]
  /\ UNCHANGED <<owner, mWaitersCount, eventOne, items, owed, leaked>>

-----------------------------------------------------------------------------
(* condition_signal and condition_broadcast, inside the caller's section.  *)

ProducerLocks(p) ==
  /\ pc[p] = "idle"
  /\ owner = {}
  /\ items < MaxItems
  /\ owner' = {p}
  /\ items' = items + 1
  /\ \E call \in {"signal", "broadcast"} : pc' = [pc EXCEPT ![p] = call]
  /\ UNCHANGED <<mWaitersCount, eventOne, eventAll, owed, leaked>>

\* The count is read under mWaitersCountLock, the event is set after it.
ReadWaiters(p) ==
  /\ pc[p] \in {"signal", "broadcast"}
  /\ pc' = [pc EXCEPT ![p] = IF mWaitersCount = 0 THEN "unlock"
                             ELSE IF @ = "signal" THEN "setOne" ELSE "setAll"]
  /\ UNCHANGED <<owner, mWaitersCount, eventOne, eventAll, items, owed, leaked>>

\* An auto-reset event releases a blocked thread, or stays set for the next.
SetOne(p) ==
  /\ pc[p] = "setOne"
  /\ \/ /\ Blocked = {}
        /\ eventOne' = TRUE
        /\ pc' = [pc EXCEPT ![p] = "unlock"]
        /\ owed' = owed
     \/ \E w \in Blocked :
          /\ pc' = [pc EXCEPT ![p] = "unlock", ![w] = "wokenOne"]
          /\ owed' = owed \ {w}
          /\ UNCHANGED eventOne
  /\ UNCHANGED <<owner, mWaitersCount, eventAll, items, leaked>>

SetAll(p) ==
  /\ pc[p] = "setAll"
  /\ eventAll' = TRUE
  /\ pc' = [t \in DOMAIN pc |-> IF t = p THEN "unlock"
                                ELSE IF t \in Blocked THEN "wokenAll" ELSE pc[t]]
  /\ owed' = Asleep \ Blocked
  /\ UNCHANGED <<owner, mWaitersCount, eventOne, items, leaked>>

ProducerUnlocks(p) ==
  /\ pc[p] = "unlock"
  /\ owner' = {}
  /\ pc' = [pc EXCEPT ![p] = "idle"]
  /\ UNCHANGED <<mWaitersCount, eventOne, eventAll, items, owed, leaked>>

-----------------------------------------------------------------------------

WaiterNext(w) ==
  \/ WaiterLocks(w)
  \/ WaiterTakesItem(w)
  \/ BeginWait(w)
  \/ EnterKernelWait(w)
  \/ WaitTimesOut(w)
  \/ EndWait(w)
  \/ ResetBroadcast(w)

ProducerNext(p) ==
  \/ ProducerLocks(p)
  \/ ReadWaiters(p)
  \/ SetOne(p)
  \/ SetAll(p)
  \/ ProducerUnlocks(p)

Next == (\E w \in Waiters : WaiterNext(w)) \/ (\E p \in Producers : ProducerNext(p))

Spec == Init /\ [][Next]_vars

-----------------------------------------------------------------------------

TypeOK ==
  /\ owner \subseteq Waiters \cup Producers
  /\ mWaitersCount \in Nat
  /\ eventOne \in BOOLEAN
  /\ eventAll \in BOOLEAN
  /\ items \in 0..MaxItems
  /\ leaked \in 0..MaxLeaks
  /\ owed \subseteq Waiters
  /\ \A w \in Waiters : pc[w] \in WaiterStates
  /\ \A p \in Producers : pc[p] \in ProducerStates

\* A signal or a broadcast is dropped as useless only when nobody is waiting: the
\* count is that of the threads inside a wait, and of every wait that ever timed
\* out, whatever events woke whom.
CountExact == TypeOK /\ mWaitersCount = Cardinality(Counted) + leaked

\* While there are items, not every waiter sleeps unless a wake-up is on its way.
\* Two signals may merge into one event and a late reset may take a broadcast
\* back: what saves the waiters is that whoever did wake looks for items again
\* before it sleeps.
NotAllAsleep ==
  items > 0 /\ Announcing = {} => eventOne \/ eventAll \/ Asleep # Waiters

\* What condition_broadcast documents: it unblocks every thread that was waiting.
\* One that has still to enter its kernel wait finds the event signalled.
BroadcastReachesAll == owed # {} => eventAll
===============================================================================
