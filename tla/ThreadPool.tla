------------------------------ MODULE ThreadPool ------------------------------
(***************************************************************************)
(* The fixed-size worker pool of concurrent/thread_pool.c.                 *)
(*                                                                         *)
(* One action is one critical section (everything between mutex_lock and   *)
(* the matching mutex_unlock or condition_wait) or one step outside every  *)
(* lock.  All shared fields are read and written under queue.lock or under *)
(* workMutex, so a critical section is atomic to every other thread.       *)
(*                                                                         *)
(* A condition variable is the set of the threads blocked on it, kept in   *)
(* the threads' program counters: condition_signal unblocks one of them,   *)
(* condition_broadcast all, and a thread may also wake spuriously.         *)
(***************************************************************************)
EXTENDS Naturals, Sequences, FiniteSets

CONSTANTS
  Tasks,       \* the tasks that may be submitted, each at most once
  Clients,     \* the threads that call the pool, other than its owner
  NumThreads,  \* the num_threads argument of thread_pool_create
  NoTask       \* the NULL Task*

Workers == 1 .. NumThreads

ASSUME PoolAssumption ==
  /\ IsFiniteSet(Tasks)
  /\ NumThreads \in Nat \ {0}
  /\ Clients \cap Workers = {}
  /\ NoTask \notin Tasks

Threads == Workers \cup Clients

VARIABLES
  phase,      \* where the owner is between thread_pool_create and the final free
  started,    \* pool->startedThreads
  joined,     \* the loop counter of thread_pool_destroy
  keepAlive,  \* pool->keepAlive
  queue,      \* the list pool->queue.front .. rear; pool->queue.count is its length
  pending,    \* pool->pending
  wpc,        \* where each worker is in thread_pool_worker
  cpc,        \* where each client is in the calls it makes
  cur,        \* the local `task` of each worker
  adding,     \* the local `newTask` of a thread inside thread_pool_add_task
  stage,      \* history: how far each task has come
  owed        \* history: the tasks a waiting client is owed when its call returns

vars == <<phase, started, joined, keepAlive, queue, pending, wpc, cpc, cur,
          adding, stage, owed>>
owner == <<phase, started, joined, keepAlive>>

Phases == {"none", "creating", "live", "joining", "freed", "null"}
WorkerStates == {"absent", "top", "blocked", "run", "adding", "complete", "exited"}
ClientStates == {"idle", "adding", "wait", "waitBlocked", "timed", "timedBlocked",
                 "expired", "drained", "timedOut"}
Stages == {"new", "refused", "counted", "queued", "running", "ran", "done", "discarded"}

InStage(S) == {t \in Tasks : stage[t] \in S}

\* The tasks `pending` counts: from its increment to its decrement.
Outstanding == InStage({"counted", "queued", "running", "ran"})
Finished == InStage({"ran", "done"})

Init ==
  /\ phase = "none"
  /\ started = 0
  /\ joined = 0
  /\ keepAlive = FALSE
  /\ queue = <<>>
  /\ pending = 0
  /\ wpc = [w \in Workers |-> "absent"]
  /\ cpc = [c \in Clients |-> "idle"]
  /\ cur = [w \in Workers |-> NoTask]
  /\ adding = [a \in Threads |-> NoTask]
  /\ stage = [t \in Tasks |-> "new"]
  /\ owed = [c \in Clients |-> {}]

-----------------------------------------------------------------------------
(* The condition variables.                                                *)

Blocked == {w \in Workers : wpc[w] = "blocked"}

\* Mutant: add_task forgets its condition_signal.
SignalHasTasksForgotten(pc) == wpc' = pc

\* condition_signal(&queue.hasTasks) in a step that leaves the workers' program
\* counters at pc: one of the blocked workers goes back to the loop's test.
SignalHasTasks(pc) ==
  IF Blocked = {}
  THEN wpc' = pc
  ELSE \E w \in Blocked : wpc' = [pc EXCEPT ![w] = "top"]

\* condition_broadcast(&queue.hasTasks)
BroadcastHasTasks ==
  wpc' = [w \in Workers |-> IF wpc[w] = "blocked" THEN "top" ELSE wpc[w]]

\* Mutant: the last completion wakes one waiting client instead of all of them.
BroadcastAllIdleToOne ==
  IF \A c \in Clients : cpc[c] \notin {"waitBlocked", "timedBlocked"}
  THEN UNCHANGED cpc
  ELSE \E c \in Clients :
         /\ cpc[c] \in {"waitBlocked", "timedBlocked"}
         /\ cpc' = [cpc EXCEPT ![c] = IF @ = "waitBlocked" THEN "wait" ELSE "timed"]

\* condition_broadcast(&allIdle), and the recheck it leads to
BroadcastAllIdle ==
  cpc' = [c \in Clients |-> CASE cpc[c] = "waitBlocked"  -> "wait"
                              [] cpc[c] = "timedBlocked" -> "timed"
                              [] OTHER                   -> cpc[c]]

\* POSIX lets either condition_wait return without a signal.
WorkerSpuriousWake(w) ==
  /\ wpc[w] = "blocked"
  /\ wpc' = [wpc EXCEPT ![w] = "top"]
  /\ UNCHANGED <<owner, queue, pending, cpc, cur, adding, stage, owed>>

ClientSpuriousWake(c) ==
  /\ cpc[c] \in {"waitBlocked", "timedBlocked"}
  /\ cpc' = [cpc EXCEPT ![c] = IF @ = "waitBlocked" THEN "wait" ELSE "timed"]
  /\ UNCHANGED <<owner, queue, pending, wpc, cur, adding, stage, owed>>

-----------------------------------------------------------------------------
(* The owner: thread_pool_create and thread_pool_destroy.                  *)

CreatePool ==
  /\ phase = "none"
  /\ phase' = "creating"
  /\ keepAlive' = TRUE
  /\ UNCHANGED <<started, joined, queue, pending, wpc, cpc, cur, adding, stage, owed>>

\* Either malloc fails: what was initialised is destroyed and NULL returned.
CreatePoolFails ==
  /\ phase = "none"
  /\ phase' = "null"
  /\ UNCHANGED <<started, joined, keepAlive, queue, pending, wpc, cpc, cur,
                 adding, stage, owed>>

StartWorker ==
  /\ phase = "creating"
  /\ wpc' = [wpc EXCEPT ![started + 1] = "top"]
  /\ started' = started + 1
  /\ phase' = IF started' = NumThreads THEN "live" ELSE "creating"
  /\ UNCHANGED <<joined, keepAlive, queue, pending, cpc, cur, adding, stage, owed>>

\* The first critical section of thread_pool_destroy.
StopWorkers ==
  /\ keepAlive' = FALSE
  /\ BroadcastHasTasks
  /\ phase' = "joining"
  /\ UNCHANGED <<started, joined, queue, pending, cpc, cur, adding, stage, owed>>

\* thread_create fails in the loop: thread_pool_create destroys the pool.
StartWorkerFails == phase = "creating" /\ StopWorkers

\* The owner destroys a pool nobody else is using any more; tasks may still be
\* queued and running, and running tasks may still submit.
DestroyPool ==
  /\ phase = "live"
  /\ \A c \in Clients : cpc[c] = "idle"
  /\ StopWorkers

\* Mutant: the owner does not wait for the worker it joins.
JoinWorkerWithoutWaiting ==
  /\ phase = "joining"
  /\ joined < started
  /\ joined' = joined + 1
  /\ UNCHANGED <<phase, started, keepAlive, queue, pending, wpc, cpc, cur,
                 adding, stage, owed>>

JoinWorker ==
  /\ phase = "joining"
  /\ joined < started
  /\ wpc[joined + 1] = "exited"
  /\ joined' = joined + 1
  /\ UNCHANGED <<phase, started, keepAlive, queue, pending, wpc, cpc, cur,
                 adding, stage, owed>>

\* The rest of thread_pool_destroy: drain what is left, destroy, free.
FreePool ==
  /\ phase = "joining"
  /\ joined = started
  /\ phase' = "freed"
  /\ stage' = [t \in Tasks |-> IF stage[t] = "queued" THEN "discarded" ELSE stage[t]]
  /\ queue' = <<>>
  /\ UNCHANGED <<started, joined, keepAlive, pending, wpc, cpc, cur, adding, owed>>

\* The owner is done with the pool for good.
Terminated == phase \in {"freed", "null"} /\ UNCHANGED vars

-----------------------------------------------------------------------------
(* A worker: thread_pool_worker.                                           *)

WorkerBlocks(w) ==
  /\ wpc[w] = "top"
  /\ queue = <<>>
  /\ keepAlive
  /\ wpc' = [wpc EXCEPT ![w] = "blocked"]
  /\ UNCHANGED <<owner, queue, pending, cpc, cur, adding, stage, owed>>

WorkerExits(w) ==
  /\ wpc[w] = "top"
  /\ queue = <<>>
  /\ ~keepAlive
  /\ wpc' = [wpc EXCEPT ![w] = "exited"]
  /\ UNCHANGED <<owner, queue, pending, cpc, cur, adding, stage, owed>>

\* Mutant: the front of the queue is not advanced past the task taken.
WorkerTakesWithoutPopping(w) ==
  /\ wpc[w] = "top"
  /\ queue # <<>>
  /\ cur' = [cur EXCEPT ![w] = Head(queue)]
  /\ stage' = [stage EXCEPT ![Head(queue)] = "running"]
  /\ wpc' = [wpc EXCEPT ![w] = "run"]
  /\ UNCHANGED <<owner, queue, pending, cpc, adding, owed>>

WorkerTakes(w) ==
  /\ wpc[w] = "top"
  /\ queue # <<>>
  /\ queue' = Tail(queue)
  /\ cur' = [cur EXCEPT ![w] = Head(queue)]
  /\ stage' = [stage EXCEPT ![Head(queue)] = "running"]
  /\ wpc' = [wpc EXCEPT ![w] = "run"]
  /\ UNCHANGED <<owner, pending, cpc, adding, owed>>

\* task->function(task->arg) returns, and the task is freed.
TaskReturns(w) ==
  /\ wpc[w] = "run"
  /\ stage' = [stage EXCEPT ![cur[w]] = "ran"]
  /\ wpc' = [wpc EXCEPT ![w] = "complete"]
  /\ UNCHANGED <<owner, queue, pending, cpc, cur, adding, owed>>

\* The critical section on workMutex that ends the loop's body.
WorkerCompletes(w) ==
  /\ wpc[w] = "complete"
  /\ pending' = pending - 1
  /\ IF pending' = 0 THEN BroadcastAllIdle ELSE UNCHANGED cpc
  /\ stage' = [stage EXCEPT ![cur[w]] = "done"]
  /\ cur' = [cur EXCEPT ![w] = NoTask]
  /\ wpc' = [wpc EXCEPT ![w] = "top"]
  /\ UNCHANGED <<owner, queue, adding, owed>>

-----------------------------------------------------------------------------
(* thread_pool_add_task and thread_pool_add_task_checked, called by a      *)
(* client of a live pool or by a task that runs on a worker.               *)

\* malloc fails: nothing is queued (and the checked form says so).
TaskRefused(t) ==
  /\ stage[t] = "new"
  /\ \/ phase = "live" /\ \E c \in Clients : cpc[c] = "idle"
     \/ \E w \in Workers : wpc[w] = "run"
  /\ stage' = [stage EXCEPT ![t] = "refused"]
  /\ UNCHANGED <<owner, queue, pending, wpc, cpc, cur, adding, owed>>

\* Mutant: the submission does not count the task.
CountTaskUncounted(a, t) ==
  /\ stage[t] = "new"
  /\ adding' = [adding EXCEPT ![a] = t]
  /\ stage' = [stage EXCEPT ![t] = "counted"]
  /\ UNCHANGED <<owner, queue, pending, cur, owed>>

\* The critical section on workMutex.
CountTask(a, t) ==
  /\ stage[t] = "new"
  /\ pending' = pending + 1
  /\ adding' = [adding EXCEPT ![a] = t]
  /\ stage' = [stage EXCEPT ![t] = "counted"]
  /\ UNCHANGED <<owner, queue, cur, owed>>

ClientCounts(c, t) ==
  /\ phase = "live"
  /\ cpc[c] = "idle"
  /\ CountTask(c, t)
  /\ cpc' = [cpc EXCEPT ![c] = "adding"]
  /\ UNCHANGED wpc

WorkerCounts(w, t) ==
  /\ wpc[w] = "run"
  /\ CountTask(w, t)
  /\ wpc' = [wpc EXCEPT ![w] = "adding"]
  /\ UNCHANGED cpc

\* The critical section on queue.lock, with its condition_signal.
EnqueueTask(a, pc) ==
  /\ queue' = Append(queue, adding[a])
  /\ stage' = [stage EXCEPT ![adding[a]] = "queued"]
  /\ adding' = [adding EXCEPT ![a] = NoTask]
  /\ SignalHasTasks(pc)
  /\ UNCHANGED <<owner, pending, cur, owed>>

ClientEnqueues(c) ==
  /\ cpc[c] = "adding"
  /\ EnqueueTask(c, wpc)
  /\ cpc' = [cpc EXCEPT ![c] = "idle"]

WorkerEnqueues(w) ==
  /\ wpc[w] = "adding"
  /\ EnqueueTask(w, [wpc EXCEPT ![w] = "run"])
  /\ UNCHANGED cpc

-----------------------------------------------------------------------------
(* thread_pool_wait and thread_pool_wait_timeout, called by a client.      *)

\* The call, up to mutex_lock; "wait" for the one, "timed" for the other.
ClientCallsWait(c, pc) ==
  /\ phase = "live"
  /\ cpc[c] = "idle"
  /\ cpc' = [cpc EXCEPT ![c] = pc]
  /\ owed' = [owed EXCEPT ![c] = InStage(Stages \ {"new", "refused"})]
  /\ UNCHANGED <<owner, queue, pending, wpc, cur, adding, stage>>

\* Mutant: wait tests whether the queue is empty, not whether work is pending.
ClientTestsQueue(c) ==
  /\ cpc[c] \in {"wait", "timed"}
  /\ cpc' = [cpc EXCEPT ![c] =
               CASE queue = <<>>                 -> "drained"
                 [] queue # <<>> /\ @ = "wait"  -> "waitBlocked"
                 [] queue # <<>> /\ @ = "timed" -> "timedBlocked"]
  /\ UNCHANGED <<owner, queue, pending, wpc, cur, adding, stage, owed>>

\* while (pending > 0) condition_wait / condition_timedwait
ClientTests(c) ==
  /\ cpc[c] \in {"wait", "timed"}
  /\ cpc' = [cpc EXCEPT ![c] =
               CASE pending = 0                -> "drained"
                 [] pending > 0 /\ @ = "wait"  -> "waitBlocked"
                 [] pending > 0 /\ @ = "timed" -> "timedBlocked"]
  /\ UNCHANGED <<owner, queue, pending, wpc, cur, adding, stage, owed>>

\* The deadline passes (at once when timeout_ms <= 0): the thread leaves the
\* condition variable, and has workMutex to take again.
DeadlinePasses(c) ==
  /\ cpc[c] = "timedBlocked"
  /\ cpc' = [cpc EXCEPT ![c] = "expired"]
  /\ UNCHANGED <<owner, queue, pending, wpc, cur, adding, stage, owed>>

\* break; drained = (pending == 0)
ClientTimesOut(c) ==
  /\ cpc[c] = "expired"
  /\ cpc' = [cpc EXCEPT ![c] = IF pending = 0 THEN "drained" ELSE "timedOut"]
  /\ UNCHANGED <<owner, queue, pending, wpc, cur, adding, stage, owed>>

ClientReturns(c) ==
  /\ cpc[c] \in {"drained", "timedOut"}
  /\ cpc' = [cpc EXCEPT ![c] = "idle"]
  /\ owed' = [owed EXCEPT ![c] = {}]
  /\ UNCHANGED <<owner, queue, pending, wpc, cur, adding, stage>>

-----------------------------------------------------------------------------

OwnerNext ==
  \/ CreatePool \/ CreatePoolFails \/ StartWorker \/ StartWorkerFails
  \/ DestroyPool \/ JoinWorker \/ FreePool

WorkerNext(w) ==
  \/ WorkerBlocks(w) \/ WorkerExits(w) \/ WorkerTakes(w) \/ TaskReturns(w)
  \/ WorkerCompletes(w) \/ WorkerEnqueues(w)

ClientNext(c) ==
  \/ ClientEnqueues(c) \/ ClientTests(c) \/ ClientTimesOut(c) \/ ClientReturns(c)

\* What the program around the pool and the platform may do, or not.
Environment ==
  \/ \E t \in Tasks : TaskRefused(t)
  \/ \E c \in Clients, t \in Tasks : ClientCounts(c, t)
  \/ \E w \in Workers, t \in Tasks : WorkerCounts(w, t)
  \/ \E c \in Clients, pc \in {"wait", "timed"} : ClientCallsWait(c, pc)
  \/ \E w \in Workers : WorkerSpuriousWake(w)
  \/ \E c \in Clients : ClientSpuriousWake(c) \/ DeadlinePasses(c)

Next ==
  \/ OwnerNext
  \/ \E w \in Workers : WorkerNext(w)
  \/ \E c \in Clients : ClientNext(c)
  \/ Environment
  \/ Terminated

Spec == Init /\ [][Next]_vars

\* Every thread that can run is scheduled, every task returns, and thread_join
\* and thread_create come back.  Nothing is assumed of the callers: nobody need
\* submit, wait or destroy, no deadline need pass, no wake-up need be spurious.
Fairness ==
  /\ WF_vars(StartWorker) /\ WF_vars(JoinWorker) /\ WF_vars(FreePool)
  /\ \A w \in Workers : WF_vars(WorkerNext(w))
  /\ \A c \in Clients : WF_vars(ClientNext(c))

FairSpec == Spec /\ Fairness

-----------------------------------------------------------------------------
(* What the pool promises.                                                 *)

TypeOK ==
  /\ phase \in Phases
  /\ started \in 0 .. NumThreads
  /\ joined \in 0 .. NumThreads
  /\ keepAlive \in BOOLEAN
  /\ queue \in Seq(Tasks)
  /\ pending \in Nat
  /\ wpc \in [Workers -> WorkerStates]
  /\ cpc \in [Clients -> ClientStates]
  /\ cur \in [Workers -> Tasks \cup {NoTask}]
  /\ adding \in [Threads -> Tasks \cup {NoTask}]
  /\ stage \in [Tasks -> Stages]
  /\ owed \in [Clients -> SUBSET Tasks]

\* `pending` is exactly the number of tasks submitted and not yet accounted for
\* as complete, across the two locks that each see only half of a submission.
PendingIsOutstanding == pending = Cardinality(Outstanding)

\* A call to thread_pool_wait (or a wait_timeout that answers true) returns only
\* after every task whose submission had begun before the call has run, however
\* the submissions, the workers and the broadcast interleave.
WaitCoversEarlierTasks ==
  \A c \in Clients : cpc[c] = "drained" => owed[c] \subseteq Finished

\* Two workers never hold the same task, and a task a worker holds is no longer
\* in the queue: nothing runs twice and no Task is freed twice.
NoTaskRunsTwice ==
  /\ \A v, w \in Workers : v # w /\ cur[v] # NoTask => cur[v] # cur[w]
  /\ \A i, j \in DOMAIN queue : i # j => queue[i] # queue[j]
  /\ \A w \in Workers, i \in DOMAIN queue : cur[w] # queue[i]

\* When the pool is freed every worker that was started has left it, whichever worker
\* thread_pool_create failed to start, and nobody is inside a submission or a wait, a
\* task that submits another one included.
FreedOnlyAfterWorkers ==
  phase = "freed" =>
    /\ \A w \in Workers : wpc[w] \in {"absent", "exited"}
    /\ \A c \in Clients : cpc[c] = "idle"
    /\ \A a \in Threads : adding[a] = NoTask

\* No worker is left asleep on hasTasks once keepAlive has dropped, and none sleeps
\* beside a queued task unless a wake-up for it is on its way.
WorkersWoken ==
  /\ ~keepAlive => Blocked = {}
  /\ queue # <<>> /\ Blocked # {} =>
       \E w \in Workers : wpc[w] \in {"top", "run", "adding", "complete"}

\* Nobody is left asleep on allIdle when nothing is pending.
WaitersWoken ==
  \A c \in Clients : cpc[c] \in {"waitBlocked", "timedBlocked"} => pending > 0

\* No wake-up is lost on either condition variable.
NoLostWakeup == WorkersWoken /\ WaitersWoken

\* A wait returns once the submissions stop, as they do here.
WaitReturns == \A c \in Clients : cpc[c] = "wait" ~> cpc[c] = "drained"

\* thread_pool_destroy returns: no worker misses the broadcast.
DestroyReturns == phase = "joining" ~> phase = "freed"

\* The calls that block return, for as long as the tasks do.
CallsReturn == WaitReturns /\ DestroyReturns

-----------------------------------------------------------------------------
(* The pool implements the abstract executor.                              *)

\* A task as the submitting program sees it.
ExecutorState(t) ==
  CASE stage[t] \in {"counted", "queued"} -> "accepted"
    [] stage[t] \in {"ran", "done"}       -> "finished"
    [] OTHER                              -> stage[t]

Executor == INSTANCE TaskExecutor
              WITH open  <- phase \notin {"freed", "null"},
                   state <- [t \in Tasks |-> ExecutorState(t)]

\* No task is started twice, started before it is accepted or dropped after it,
\* and the pool is gone only when every accepted task has run.
ImplementsExecutor == Executor!Spec

\* The same, with the executor's liveness: what is accepted runs to its end, also the
\* tasks that are still queued when thread_pool_destroy is called, which its comment says
\* are discarded (DestroyDiscardsQueue).
ImplementsFairExecutor == Executor!FairSpec

\* What thread_pool_destroy documents, and its workers do not do: "Any tasks still queued
\* (not yet picked up by a worker) are discarded."
DestroyDiscardsQueue ==
  [][phase = "joining" => \A t \in Tasks : stage[t] = "queued" => stage'[t] # "running"]_vars
===============================================================================
