----------------------------- MODULE MCPrimitives -----------------------------
(***************************************************************************)
(* The primitives of concurrent/concurrent.c that are more than a call to  *)
(* the system: the read-write lock, and on Windows the condition variable, *)
(* call_once and thread-specific storage.  They share no state: a          *)
(* behaviour is one of one of them, the others stay as they were made.     *)
(***************************************************************************)
EXTENDS RWLock

CONSTANTS
  Waiters, Producers, MaxItems, MaxLeaks,   \* of the condition variable
  Callers,                                  \* of call_once
  Keys, Values, TSS_DTOR_ITERATIONS, Deletable, MaxResets, Failing

VARIABLES
  primitive,
  owner, mWaitersCount, eventOne, eventAll, items, leaked, owed, condPc,
  status, created, flagLock, calls, finished, oncePc,
  key, slot, entry, head, tail, phase, data, pass, again, resets, atExit, ran,
  harm

ASSUME ConditionAssumption ==
  /\ IsFiniteSet(Waiters) /\ Waiters # {}
  /\ Waiters \cap Producers = {}
  /\ MaxItems \in Nat /\ MaxLeaks \in Nat

Cond == INSTANCE Win32Condition WITH pc <- condPc
Once == INSTANCE CallOnce WITH Threads <- Callers, lock <- flagLock, pc <- oncePc
Tss == INSTANCE ThreadSpecific

ASSUME StorageAssumption == TSS_DTOR_ITERATIONS \in Nat \ {0} /\ Tss!NoValue \notin Values

cond == <<owner, mWaitersCount, eventOne, eventAll, items, leaked, owed, condPc>>
once == <<status, created, flagLock, calls, finished, oncePc>>
storage ==
  <<key, slot, entry, head, tail, phase, data, pass, again, resets, atExit, ran, harm>>
allVars == <<primitive, vars, cond, once, storage>>

MCInit ==
  /\ primitive \in {"rwlock", "condition", "once", "storage"}
  /\ Init /\ Cond!Init /\ Once!Init /\ Tss!Init

OthersStill ==
  /\ UNCHANGED primitive
  /\ IF primitive = "rwlock" THEN TRUE ELSE UNCHANGED vars
  /\ IF primitive = "condition" THEN TRUE ELSE UNCHANGED cond
  /\ IF primitive = "once" THEN TRUE ELSE UNCHANGED once
  /\ IF primitive = "storage" THEN TRUE ELSE UNCHANGED storage

LockStep(t) == primitive = "rwlock" /\ Proceed(t) /\ OthersStill
OnceStep(t) == primitive = "once" /\ Once!Step(t) /\ OthersStill
OnceEnterLock(t) == primitive = "once" /\ Once!EnterLock(t) /\ OthersStill

MCNext ==
  \/ primitive = "rwlock" /\ Next /\ OthersStill
  \/ primitive = "condition" /\ Cond!Next /\ OthersStill
  \/ primitive = "once" /\ (\E t \in Callers : Once!Step(t) \/ Once!CallAgain(t)) /\ OthersStill
  \/ primitive = "storage" /\ Tss!Next /\ OthersStill

\* The fairness of RWLock!FairSpec and of CallOnce!FairSpec; of the others only safety
\* is checked.
MCSpec ==
  /\ MCInit
  /\ [][MCNext]_allVars
  /\ \A t \in Threads : WF_allVars(LockStep(t))
  /\ \A t \in Callers : WF_allVars(OnceStep(t)) /\ SF_allVars(OnceEnterLock(t))

-----------------------------------------------------------------------------

\* Nothing is lost on the condition variable: signals and broadcasts are dropped only
\* when nobody waits, and with items there is always somebody awake to take one.
ConditionKeepsCount == Cond!CountExact /\ Cond!NotAllAsleep

\* func runs at most once, whoever returns from call_once finds its work done, and
\* nobody waits on a lock that is not created yet.
OnceAndBefore == Once!OnceAndBefore

\* A thread that ends has the destructors run for what it had set, each once in a pass,
\* follows no entry that is gone and leaves none behind, for any number of keys, unless
\* the list has been harmed before: by a third entry, by the deletion of a key whose entry
\* is not the first one or by a TlsSetValue that fails.
ThreadExitCleansUp == Tss!ThreadExitCleansUp

\* As long as writers wait, writers enter, whatever readers come: which one is the
\* platform's choice, so a writer is passed by others for as long as others keep coming,
\* and is sure to enter when it is the only one.  A reader enters when the writers stop.
\* Every call of call_once returns, whoever of its callers is the first.
WaitersServed == WaitersEnter /\ (primitive = "once" => Once!EveryCallReturns)
===============================================================================
