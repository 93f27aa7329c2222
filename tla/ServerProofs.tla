----------------------------- MODULE ServerProofs -----------------------------
(***************************************************************************)
(* Proofs about the thread pool, for any number of workers, clients and    *)
(* tasks, and about the HTTP server, for any number of servers, stops and  *)
(* visitors.                                                               *)
(*                                                                         *)
(* The pool's inductive invariant IInv says where each task of each stage  *)
(* is: a counted one in the hands of the thread that submits it, a queued  *)
(* one in the queue, a running or finished one with the worker that took   *)
(* it.  The server's say what becomes of connections (HandsInv), which     *)
(* holds even if servers overlap, and what the static variables mean       *)
(* (FlagsInv), which needs each server to have returned before the next is *)
(* started.  The pool's theorems are about its own specification, the      *)
(* server's about MCServer's, whose behaviours are, for the server, those  *)
(* of HttpServer.                                                          *)
(***************************************************************************)
EXTENDS MCServer, FiniteSetTheorems, SequenceTheorems, TLAPS

Busy == {"run", "adding", "complete"}

\* How far create and destroy have come, and which workers exist.
OwnerInv ==
  /\ phase \in {"none", "null"} => started = 0
  /\ phase = "creating" => started < NumThreads
  /\ phase = "live" => started = NumThreads
  /\ joined <= started
  /\ phase = "freed" => joined = started
  /\ keepAlive <=> phase \in {"creating", "live"}
  /\ \A w \in Workers :
       /\ wpc[w] = "absent" <=> w > started
       /\ w <= joined => wpc[w] = "exited"
       /\ wpc[w] = "exited" => phase \in {"joining", "freed"}
       /\ wpc[w] = "blocked" => keepAlive

\* Clients use the pool only while it is live, and nothing is submitted before.
ClientInv ==
  /\ phase # "live" => \A c \in Clients : cpc[c] = "idle"
  /\ phase \in {"none", "null", "creating"} =>
       queue = <<>> /\ \A w \in Workers : wpc[w] \notin Busy

\* The hands a task passes through.
CurInv ==
  \A w \in Workers :
    /\ cur[w] # NoTask <=> wpc[w] \in Busy
    /\ wpc[w] \in {"run", "adding"} => stage[cur[w]] = "running"
    /\ wpc[w] = "complete" => stage[cur[w]] = "ran"

AddingInv ==
  /\ \A w \in Workers : adding[w] # NoTask <=> wpc[w] = "adding"
  /\ \A c \in Clients : adding[c] # NoTask <=> cpc[c] = "adding"
  /\ \A a \in Threads : adding[a] # NoTask => stage[adding[a]] = "counted"

QueueInv == \A i \in 1 .. Len(queue) : stage[queue[i]] = "queued"

\* Nobody else holds the same task.
CurUnique == \A v, w \in Workers : cur[v] = cur[w] /\ cur[v] # NoTask => v = w
AddingUnique == \A a, b \in Threads : adding[a] = adding[b] /\ adding[a] # NoTask => a = b
QueueUnique == \A i, j \in 1 .. Len(queue) : queue[i] = queue[j] => i = j

\* Every task that is owed to the submitter is in somebody's hands.
Held ==
  \A t \in Tasks :
    /\ stage[t] = "counted" => \E a \in Threads : adding[a] = t
    /\ stage[t] = "queued" => \E i \in 1 .. Len(queue) : queue[i] = t
    /\ stage[t] = "running" => \E w \in Workers : cur[w] = t

\* While the pool is being destroyed, whatever is queued has a worker that has
\* not left yet; when it is freed nothing is queued.
Drained ==
  /\ phase = "joining" /\ queue # <<>> =>
       \E w \in 1 .. started : wpc[w] # "exited"
  /\ phase = "freed" => queue = <<>>

OwedInv ==
  /\ \A c \in Clients : \A t \in owed[c] : stage[t] \notin {"new", "refused"}
  /\ \A t \in Tasks : stage[t] # "discarded"

\* The groups in which the steps preserve them.
Control == TypeOK /\ OwnerInv /\ ClientInv /\ Drained
Hands == CurInv /\ CurUnique /\ AddingInv /\ AddingUnique
Places == QueueInv /\ QueueUnique /\ Held /\ OwedInv

IInv ==
  /\ Control
  /\ Hands
  /\ Places
  /\ PendingIsOutstanding
  /\ WaitCoversEarlierTasks

-----------------------------------------------------------------------------
(* Lemmas about the queue and the count.                                   *)

\* Appending leaves the earlier elements where they are and adds one.
LEMMA AppendElements ==
  ASSUME NEW S, NEW q \in Seq(S), NEW x \in S
  PROVE  /\ Append(q, x) \in Seq(S)
         /\ Append(q, x) # <<>>
         /\ Len(Append(q, x)) = Len(q) + 1
         /\ \A i \in 1 .. Len(q) : Append(q, x)[i] = q[i]
         /\ Append(q, x)[Len(q) + 1] = x
OBVIOUS

\* Taking the head shifts the rest by one place.
LEMMA TailElements ==
  ASSUME NEW S, NEW q \in Seq(S), q # <<>>
  PROVE  /\ Len(q) \in Nat \ {0}
         /\ Head(q) \in S
         /\ Head(q) = q[1]
         /\ Tail(q) \in Seq(S)
         /\ Len(Tail(q)) = Len(q) - 1
         /\ \A i \in 1 .. Len(q) - 1 : Tail(q)[i] = q[i + 1]
<1>1. Len(q) \in Nat \ {0}
  BY EmptySeq
<1> QED
  BY <1>1, HeadTailProperties

\* The outstanding tasks are finitely many, and none exactly if pending is zero.
LEMMA OutstandingFinite ==
  ASSUME TypeOK, PendingIsOutstanding
  PROVE  /\ IsFiniteSet(Outstanding)
         /\ pending = 0 => Outstanding = {}
         /\ Outstanding # {} => pending - 1 \in Nat
<1>1. Outstanding \in SUBSET Tasks
  BY DEF Outstanding, InStage
<1>2. IsFiniteSet(Outstanding)
  BY <1>1, PoolAssumption, FS_Subset
<1>3. Cardinality(Outstanding) = 0 <=> Outstanding = {}
  BY <1>2, FS_EmptySet
<1> QED
  BY <1>2, <1>3 DEF PendingIsOutstanding, TypeOK

\* A submission that counts one new task keeps the count right.
LEMMA CountUp ==
  ASSUME TypeOK, PendingIsOutstanding, NEW t \in Tasks,
         t \notin Outstanding, Outstanding' = Outstanding \cup {t}, pending' = pending + 1
  PROVE  PendingIsOutstanding'
<1>1. IsFiniteSet(Outstanding)
  BY OutstandingFinite
<1> QED
  BY <1>1, FS_AddElement DEF PendingIsOutstanding

\* So does a completion that strikes one off.
LEMMA CountDown ==
  ASSUME TypeOK, PendingIsOutstanding, NEW t \in Tasks,
         t \in Outstanding, Outstanding' = Outstanding \ {t}, pending' = pending - 1
  PROVE  PendingIsOutstanding'
<1>1. IsFiniteSet(Outstanding)
  BY OutstandingFinite
<1> QED
  BY <1>1, FS_RemoveElement DEF PendingIsOutstanding

-----------------------------------------------------------------------------
(* The inductive invariant holds initially.                                *)

LEMMA InitIInv == Init => IInv
<1> SUFFICES ASSUME Init PROVE IInv
  OBVIOUS
<1>1. TypeOK
  <2>1. started \in 0 .. NumThreads /\ joined \in 0 .. NumThreads /\ pending \in Nat
    BY PoolAssumption DEF Init
  <2>6. phase \in Phases /\ keepAlive \in BOOLEAN
    BY DEF Init, Phases
  <2>5. queue \in Seq(Tasks)
    BY EmptySeq DEF Init
  <2>2. wpc \in [Workers -> WorkerStates] /\ cur \in [Workers -> Tasks \cup {NoTask}]
    BY DEF Init, WorkerStates
  <2>3. cpc \in [Clients -> ClientStates] /\ owed \in [Clients -> SUBSET Tasks]
    BY DEF Init, ClientStates
  <2>4. adding \in [Threads -> Tasks \cup {NoTask}] /\ stage \in [Tasks -> Stages]
    BY DEF Init, Stages
  <2> QED
    BY <2>1, <2>2, <2>3, <2>4, <2>5, <2>6 DEF TypeOK
<1>2. OwnerInv /\ ClientInv /\ Drained
  BY PoolAssumption DEF Init, OwnerInv, ClientInv, Drained, Workers, Busy
<1>3. Hands
  BY PoolAssumption DEF Init, Hands, CurInv, CurUnique, AddingInv, AddingUnique, Busy, Threads
<1>4. Places
  BY DEF Init, Places, QueueInv, QueueUnique, Held, OwedInv
<1>5. Outstanding = {}
  BY DEF Init, Outstanding, InStage
<1>6. PendingIsOutstanding
  BY <1>5, FS_EmptySet DEF Init, PendingIsOutstanding
<1>7. WaitCoversEarlierTasks
  BY DEF Init, WaitCoversEarlierTasks
<1> QED
  BY <1>1, <1>2, <1>3, <1>4, <1>6, <1>7 DEF IInv, Control

-----------------------------------------------------------------------------
(* What a step may rely on.                                                *)

\* What a worker holds at each place of its loop.
LEMMA WorkerHands ==
  ASSUME IInv, NEW w \in Workers
  PROVE  /\ w \in Threads
         /\ wpc[w] \in Busy <=> cur[w] \in Tasks
         /\ wpc[w] = "adding" => adding[w] \in Tasks /\ stage[adding[w]] = "counted"
         /\ wpc[w] \in {"run", "adding"} => stage[cur[w]] = "running"
         /\ wpc[w] = "complete" => stage[cur[w]] = "ran"
<1>1. w \in Threads /\ cur[w] \in Tasks \cup {NoTask} /\ adding[w] \in Tasks \cup {NoTask}
  BY DEF IInv, Control, TypeOK, Threads
<1>2. CurInv /\ AddingInv
  BY DEF IInv, Hands
<1>3. wpc[w] \in Busy <=> cur[w] \in Tasks
  BY <1>1, <1>2, PoolAssumption DEF CurInv
<1>4. wpc[w] = "adding" => adding[w] \in Tasks /\ stage[adding[w]] = "counted"
  BY <1>1, <1>2 DEF AddingInv
<1> QED
  BY <1>1, <1>2, <1>3, <1>4 DEF CurInv

\* What a client inside thread_pool_add_task holds.
LEMMA ClientHands ==
  ASSUME IInv, NEW c \in Clients, cpc[c] = "adding"
  PROVE  c \in Threads /\ adding[c] \in Tasks /\ stage[adding[c]] = "counted"
<1>1. c \in Threads /\ adding[c] \in Tasks \cup {NoTask}
  BY DEF IInv, Control, TypeOK, Threads
<1>2. AddingInv
  BY DEF IInv, Hands
<1> QED
  BY <1>1, <1>2 DEF AddingInv

\* condition_signal changes the program counter of one blocked worker at most.
LEMMA Signalled ==
  ASSUME TypeOK, NEW w \in Workers, wpc[w] # "blocked",
         NEW s \in WorkerStates, SignalHasTasks([wpc EXCEPT ![w] = s])
  PROVE  /\ wpc' \in [Workers -> WorkerStates]
         /\ wpc'[w] = s
         /\ \A v \in Workers \ {w} :
             wpc'[v] # wpc[v] => wpc[v] = "blocked" /\ wpc'[v] = "top"
<1>1. wpc \in [Workers -> WorkerStates] /\ "top" \in WorkerStates
  BY DEF TypeOK, WorkerStates
<1>2. CASE Blocked = {}
  <2>1. wpc' = [wpc EXCEPT ![w] = s]
    BY <1>2 DEF SignalHasTasks
  <2> QED
    BY <1>1, <2>1
<1>3. CASE Blocked # {}
  <2>1. PICK b \in Blocked : wpc' = [[wpc EXCEPT ![w] = s] EXCEPT ![b] = "top"]
    BY <1>3 DEF SignalHasTasks
  <2>2. b \in Workers /\ b # w /\ wpc[b] = "blocked"
    BY <2>1 DEF Blocked
  <2>3. wpc' \in [Workers -> WorkerStates]
    BY <1>1, <2>1
  <2>4. wpc'[w] = s
    BY <1>1, <2>1, <2>2
  <2>5. \A v \in Workers \ {w, b} : wpc'[v] = wpc[v]
    BY <1>1, <2>1, <2>2
  <2>6. wpc'[b] = "top"
    BY <1>1, <2>1, <2>2
  <2> QED
    BY <2>2, <2>3, <2>4, <2>5, <2>6
<1> QED
  BY <1>2, <1>3

\* condition_broadcast(&allIdle) moves the blocked clients and nobody else.
LEMMA IdleBroadcast ==
  ASSUME BroadcastAllIdle, NEW c \in Clients
  PROVE  /\ cpc[c] = "waitBlocked" => cpc'[c] = "wait"
         /\ cpc[c] = "timedBlocked" => cpc'[c] = "timed"
         /\ cpc[c] \notin {"waitBlocked", "timedBlocked"} => cpc'[c] = cpc[c]
BY DEF BroadcastAllIdle

-----------------------------------------------------------------------------
(* Every step preserves it, one part at a time.                            *)

\* The cases of a step, with the actors that take it.
LEMMA StepCases ==
  ASSUME [Next]_vars, NEW P,
         CreatePool => P, CreatePoolFails => P, StartWorker => P, StartWorkerFails => P,
         DestroyPool => P, JoinWorker => P, FreePool => P,
         \A w \in Workers :
           /\ WorkerBlocks(w) => P
           /\ WorkerExits(w) => P
           /\ WorkerTakes(w) => P
           /\ TaskReturns(w) => P
           /\ WorkerCompletes(w) => P
           /\ WorkerEnqueues(w) => P
           /\ WorkerSpuriousWake(w) => P
           /\ \A t \in Tasks : WorkerCounts(w, t) => P,
         \A c \in Clients :
           /\ ClientEnqueues(c) => P
           /\ ClientTests(c) => P
           /\ ClientTimesOut(c) => P
           /\ ClientReturns(c) => P
           /\ ClientSpuriousWake(c) => P
           /\ DeadlinePasses(c) => P
           /\ \A t \in Tasks : ClientCounts(c, t) => P
           /\ \A pc \in {"wait", "timed"} : ClientCallsWait(c, pc) => P,
         \A t \in Tasks : TaskRefused(t) => P,
         UNCHANGED vars => P
  PROVE  P
BY DEF Next, OwnerNext, WorkerNext, ClientNext, Environment, Terminated

\* Types, the owner's progress, the clients' access and the drained queue.
LEMMA ControlStep ==
  ASSUME IInv, [Next]_vars PROVE Control'
<1> USE PoolAssumption DEF IInv, Control, Hands, Places, TypeOK, OwnerInv, ClientInv,
     Drained, Busy, owner, Phases, WorkerStates, ClientStates, Stages, Threads, Workers
<1>1. CASE CreatePool
  BY <1>1 DEF CreatePool
<1>2. CASE CreatePoolFails
  BY <1>2 DEF CreatePoolFails
<1>3. CASE StartWorker
  BY <1>3 DEF StartWorker
<1>4. CASE StartWorkerFails
  BY <1>4 DEF StartWorkerFails, StopWorkers, BroadcastHasTasks
<1>5. CASE DestroyPool
  <2>1. TypeOK' /\ OwnerInv' /\ ClientInv'
    BY <1>5 DEF DestroyPool, StopWorkers, BroadcastHasTasks
  <2>2. Drained'
    <3>1. 1 \in 1 .. started' /\ wpc'[1] # "exited"
      BY <1>5 DEF DestroyPool, StopWorkers, BroadcastHasTasks
    <3> QED
      BY <1>5, <3>1 DEF DestroyPool, StopWorkers
  <2> QED
    BY <2>1, <2>2
<1>6. CASE JoinWorker
  BY <1>6 DEF JoinWorker
<1>7. CASE FreePool
  BY <1>7 DEF FreePool
<1>8. ASSUME NEW w \in Workers, WorkerBlocks(w) PROVE Control'
  BY <1>8 DEF WorkerBlocks
<1>9. ASSUME NEW w \in Workers, WorkerExits(w) PROVE Control'
  BY <1>9 DEF WorkerExits
<1>10. ASSUME NEW w \in Workers, WorkerTakes(w) PROVE Control'
  <2>1. Head(queue) \in Tasks /\ Tail(queue) \in Seq(Tasks)
    BY <1>10, HeadTailProperties DEF WorkerTakes
  <2> QED
    BY <1>10, <2>1 DEF WorkerTakes
<1>11. ASSUME NEW w \in Workers, TaskReturns(w) PROVE Control'
  BY <1>11 DEF TaskReturns, CurInv
<1>12. ASSUME NEW w \in Workers, WorkerCompletes(w) PROVE Control'
  <2>1. cur[w] \in Outstanding /\ wpc[w] = "complete"
    BY <1>12, WorkerHands DEF WorkerCompletes, Outstanding, InStage
  <2>2. pending' \in Nat
    BY <1>12, <2>1, OutstandingFinite DEF WorkerCompletes
  <2>3. cpc' \in [Clients -> ClientStates]
    BY <1>12 DEF WorkerCompletes, BroadcastAllIdle
  <2>4. \A c \in Clients : cpc[c] = "idle" => cpc'[c] = "idle"
    BY <1>12 DEF WorkerCompletes, BroadcastAllIdle
  <2>5. TypeOK'
    BY <1>12, <2>2, <2>3 DEF WorkerCompletes
  <2>6. OwnerInv' /\ Drained'
    BY <1>12, <2>1 DEF WorkerCompletes
  <2>7. ClientInv'
    BY <1>12, <2>3, <2>4 DEF WorkerCompletes
  <2> QED
    BY <2>5, <2>6, <2>7
<1>13. ASSUME NEW w \in Workers, WorkerEnqueues(w) PROVE Control'
  <2>1. adding[w] \in Tasks /\ wpc[w] = "adding" /\ cur[w] \in Tasks
    BY <1>13, WorkerHands DEF WorkerEnqueues
  <2>2. Append(queue, adding[w]) \in Seq(Tasks)
    BY <2>1, AppendElements
  <2>3. /\ wpc' \in [Workers -> WorkerStates]
        /\ wpc'[w] = "run"
        /\ \A v \in Workers \ {w} :
             wpc'[v] # wpc[v] => wpc[v] = "blocked" /\ wpc'[v] = "top"
    BY <1>13, <2>1, Signalled DEF WorkerEnqueues, EnqueueTask
  <2>4. UNCHANGED <<owner, cpc>>
    BY <1>13 DEF WorkerEnqueues, EnqueueTask
  <2>5. TypeOK'
    BY <1>13, <2>1, <2>2, <2>3, <2>4 DEF WorkerEnqueues, EnqueueTask
  <2>6. OwnerInv' /\ ClientInv'
    BY <1>13, <2>3, <2>4 DEF WorkerEnqueues
  <2>7. Drained'
    BY <1>13, <2>3, <2>4, <2>6 DEF WorkerEnqueues
  <2> QED
    BY <2>5, <2>6, <2>7
<1>14. ASSUME NEW w \in Workers, NEW t \in Tasks, WorkerCounts(w, t) PROVE Control'
  BY <1>14 DEF WorkerCounts, CountTask
<1>15. ASSUME NEW w \in Workers, WorkerSpuriousWake(w) PROVE Control'
  BY <1>15 DEF WorkerSpuriousWake
<1>16. ASSUME NEW c \in Clients, ClientEnqueues(c) PROVE Control'
  <2>1. adding[c] \in Tasks
    BY <1>16 DEF ClientEnqueues, AddingInv
  <2>2. Append(queue, adding[c]) \in Seq(Tasks)
    BY <2>1, AppendElements
  <2> QED
    BY <1>16, <2>1, <2>2 DEF ClientEnqueues, EnqueueTask, SignalHasTasks, Blocked
<1>17. ASSUME NEW c \in Clients, ClientTests(c) PROVE Control'
  BY <1>17 DEF ClientTests
<1>18. ASSUME NEW c \in Clients, ClientTimesOut(c) PROVE Control'
  BY <1>18 DEF ClientTimesOut
<1>19. ASSUME NEW c \in Clients, ClientReturns(c) PROVE Control'
  BY <1>19 DEF ClientReturns
<1>20. ASSUME NEW c \in Clients, NEW t \in Tasks, ClientCounts(c, t) PROVE Control'
  BY <1>20 DEF ClientCounts, CountTask
<1>21. ASSUME NEW c \in Clients, NEW pc \in {"wait", "timed"}, ClientCallsWait(c, pc)
     PROVE Control'
  BY <1>21 DEF ClientCallsWait, InStage
<1>22. ASSUME NEW c \in Clients, ClientSpuriousWake(c) PROVE Control'
  BY <1>22 DEF ClientSpuriousWake
<1>23. ASSUME NEW c \in Clients, DeadlinePasses(c) PROVE Control'
  BY <1>23 DEF DeadlinePasses
<1>24. ASSUME NEW t \in Tasks, TaskRefused(t) PROVE Control'
  BY <1>24 DEF TaskRefused
<1>25. CASE UNCHANGED vars
  BY <1>25 DEF vars, owner
<1> HIDE DEF IInv, Control, Hands, Places, TypeOK, OwnerInv, ClientInv, Drained, Busy,
     owner, Phases, WorkerStates, ClientStates, Stages, Threads, Workers
<1> QED
  BY <1>1, <1>2, <1>3, <1>4, <1>5, <1>6, <1>7, <1>8, <1>9, <1>10, <1>11, <1>12, <1>13,
       <1>14, <1>15, <1>16, <1>17, <1>18, <1>19, <1>20, <1>21, <1>22, <1>23, <1>24, <1>25,
     StepCases

\* Who holds which task.
LEMMA HandsStep ==
  ASSUME IInv, [Next]_vars PROVE Hands'
<1> USE PoolAssumption DEF IInv, Control, Hands, Places, TypeOK, ClientInv, Busy, owner,
     Threads, CurInv, CurUnique, AddingInv, AddingUnique, Held, QueueInv, OwnerInv,
     Workers
<1>1. CASE CreatePool
  BY <1>1 DEF CreatePool
<1>2. CASE CreatePoolFails
  BY <1>2 DEF CreatePoolFails
<1>3. CASE StartWorker
  BY <1>3 DEF StartWorker
<1>4. CASE StartWorkerFails
  BY <1>4 DEF StartWorkerFails, StopWorkers, BroadcastHasTasks
<1>5. CASE DestroyPool
  BY <1>5 DEF DestroyPool, StopWorkers, BroadcastHasTasks
<1>6. CASE JoinWorker
  BY <1>6 DEF JoinWorker
<1>7. CASE FreePool
  <2>1. \A w \in Workers : cur[w] # NoTask => stage'[cur[w]] = stage[cur[w]]
    BY <1>7, WorkerHands DEF FreePool
  <2>2. ASSUME NEW a \in Threads, adding[a] # NoTask
        PROVE  adding[a] \in Tasks /\ stage'[adding[a]] = stage[adding[a]]
    <3>1. adding[a] \in Tasks /\ stage[adding[a]] = "counted"
      BY <2>2 DEF AddingInv
    <3> QED
      BY <1>7, <3>1 DEF FreePool
  <2>3. UNCHANGED <<cur, adding, wpc, cpc>>
    BY <1>7 DEF FreePool
  <2> QED
    BY <2>1, <2>2, <2>3
<1>8. ASSUME NEW w \in Workers, WorkerBlocks(w) PROVE Hands'
  BY <1>8 DEF WorkerBlocks
<1>9. ASSUME NEW w \in Workers, WorkerExits(w) PROVE Hands'
  BY <1>9 DEF WorkerExits
<1>10. ASSUME NEW w \in Workers, WorkerTakes(w) PROVE Hands'
  <2>1. Head(queue) \in Tasks /\ stage[Head(queue)] = "queued"
    BY <1>10, TailElements DEF WorkerTakes
  <2>2. \A v \in Workers : cur[v] # Head(queue)
    BY <2>1, WorkerHands
  <2>3. CurInv' /\ CurUnique'
    BY <1>10, <2>1, <2>2 DEF WorkerTakes
  <2>4. AddingInv' /\ AddingUnique'
    BY <1>10, <2>1 DEF WorkerTakes
  <2> QED
    BY <2>3, <2>4
<1>11. ASSUME NEW w \in Workers, TaskReturns(w) PROVE Hands'
  BY <1>11 DEF TaskReturns
<1>12. ASSUME NEW w \in Workers, WorkerCompletes(w) PROVE Hands'
  <2>1. cur[w] \in Tasks /\ stage[cur[w]] = "ran" /\ wpc[w] = "complete"
    BY <1>12, WorkerHands DEF WorkerCompletes
  <2>2. \A c \in Clients : cpc'[c] = "adding" <=> cpc[c] = "adding"
    <3> SUFFICES ASSUME NEW c \in Clients PROVE cpc'[c] = "adding" <=> cpc[c] = "adding"
      OBVIOUS
    <3>1. CASE pending' = 0
      BY <1>12, <3>1, IdleBroadcast DEF WorkerCompletes
    <3>2. CASE pending' # 0
      BY <1>12, <3>2 DEF WorkerCompletes
    <3> QED
      BY <3>1, <3>2
  <2>3. CurInv' /\ CurUnique'
    BY <1>12, <2>1 DEF WorkerCompletes
  <2>4. AddingInv' /\ AddingUnique'
    BY <1>12, <2>1, <2>2 DEF WorkerCompletes
  <2> QED
    BY <2>3, <2>4
<1>13. ASSUME NEW w \in Workers, WorkerEnqueues(w) PROVE Hands'
  <2>1. adding[w] \in Tasks /\ wpc[w] = "adding" /\ stage[adding[w]] = "counted" /\ w \in
       Threads
    BY <1>13, WorkerHands DEF WorkerEnqueues
  <2>2. /\ wpc' \in [Workers -> WorkerStates]
        /\ wpc'[w] = "run"
        /\ \A v \in Workers \ {w} : wpc'[v] # wpc[v] => wpc[v] = "blocked" /\ wpc'[v] = "top"
    BY <1>13, <2>1, Signalled DEF WorkerEnqueues, EnqueueTask, WorkerStates
  <2>3. adding' = [adding EXCEPT ![w] = NoTask] /\ stage' = [stage EXCEPT ![adding[w]] =
       "queued"]
        /\ UNCHANGED <<cur, cpc>>
    BY <1>13 DEF WorkerEnqueues, EnqueueTask
  <2>4. CurInv' /\ CurUnique'
    BY <2>1, <2>2, <2>3
  <2>5. AddingInv'
    <3>1. \A v \in Workers : adding'[v] # NoTask <=> wpc'[v] = "adding"
      BY <2>1, <2>2, <2>3
    <3>2. \A c \in Clients : adding'[c] # NoTask <=> cpc'[c] = "adding"
      <4> SUFFICES ASSUME NEW c \in Clients PROVE adding'[c] # NoTask <=> cpc'[c] = "adding"
        OBVIOUS
      <4>1. c # w /\ c \in Threads
        OBVIOUS
      <4>2. adding'[c] = adding[c] /\ cpc'[c] = cpc[c]
        BY <2>1, <2>3, <4>1
      <4> QED
        BY <4>2
    <3>3. \A a \in Threads : adding'[a] # NoTask => stage'[adding'[a]] = "counted"
      BY <2>1, <2>3
    <3> QED
      BY <3>1, <3>2, <3>3
  <2>6. AddingUnique'
    BY <2>1, <2>3
  <2> QED
    BY <2>4, <2>5, <2>6
<1>14. ASSUME NEW w \in Workers, NEW t \in Tasks, WorkerCounts(w, t) PROVE Hands'
  BY <1>14 DEF WorkerCounts, CountTask
<1>15. ASSUME NEW w \in Workers, WorkerSpuriousWake(w) PROVE Hands'
  BY <1>15 DEF WorkerSpuriousWake
<1>16. ASSUME NEW c \in Clients, ClientEnqueues(c) PROVE Hands'
  <2>1. adding[c] \in Tasks /\ cpc[c] = "adding" /\ stage[adding[c]] = "counted" /\ c \in
       Threads
    BY <1>16, ClientHands DEF ClientEnqueues
  <2>2. \A v \in Workers : wpc'[v] # wpc[v] => wpc[v] = "blocked" /\ wpc'[v] = "top"
    BY <1>16 DEF ClientEnqueues, EnqueueTask, SignalHasTasks, Blocked
  <2>3. adding' = [adding EXCEPT ![c] = NoTask] /\ stage' = [stage EXCEPT ![adding[c]] =
       "queued"]
        /\ cur' = cur /\ cpc' = [cpc EXCEPT ![c] = "idle"]
    BY <1>16 DEF ClientEnqueues, EnqueueTask
  <2>4. CurInv' /\ CurUnique'
    BY <2>1, <2>2, <2>3
  <2>5. AddingInv' /\ AddingUnique'
    BY <2>1, <2>2, <2>3
  <2> QED
    BY <2>4, <2>5
<1>17. ASSUME NEW c \in Clients, ClientTests(c) PROVE Hands'
  BY <1>17 DEF ClientTests
<1>18. ASSUME NEW c \in Clients, ClientTimesOut(c) PROVE Hands'
  BY <1>18 DEF ClientTimesOut
<1>19. ASSUME NEW c \in Clients, ClientReturns(c) PROVE Hands'
  BY <1>19 DEF ClientReturns
<1>20. ASSUME NEW c \in Clients, NEW t \in Tasks, ClientCounts(c, t) PROVE Hands'
  <2>1. c \in Threads /\ c \notin Workers /\ cpc[c] = "idle" /\ stage[t] = "new"
    BY <1>20 DEF ClientCounts, CountTask
  <2>2. CurInv' /\ CurUnique'
    BY <1>20, <2>1 DEF ClientCounts, CountTask
  <2>3. AddingInv'
    BY <1>20, <2>1 DEF ClientCounts, CountTask
  <2>4. AddingUnique'
    BY <1>20, <2>1 DEF ClientCounts, CountTask
  <2> QED
    BY <2>2, <2>3, <2>4
<1>21. ASSUME NEW c \in Clients, NEW pc \in {"wait", "timed"}, ClientCallsWait(c, pc)
     PROVE Hands'
  BY <1>21 DEF ClientCallsWait
<1>22. ASSUME NEW c \in Clients, ClientSpuriousWake(c) PROVE Hands'
  BY <1>22 DEF ClientSpuriousWake
<1>23. ASSUME NEW c \in Clients, DeadlinePasses(c) PROVE Hands'
  BY <1>23 DEF DeadlinePasses
<1>24. ASSUME NEW t \in Tasks, TaskRefused(t) PROVE Hands'
  BY <1>24 DEF TaskRefused
<1>25. CASE UNCHANGED vars
  BY <1>25 DEF vars, owner
<1> HIDE DEF IInv, Control, Hands, Places, TypeOK, ClientInv, Busy, owner, Threads,
     CurInv, CurUnique, AddingInv, AddingUnique, Held, QueueInv, OwnerInv, Workers
<1> QED
  BY <1>1, <1>2, <1>3, <1>4, <1>5, <1>6, <1>7, <1>8, <1>9, <1>10, <1>11, <1>12, <1>13,
       <1>14, <1>15, <1>16, <1>17, <1>18, <1>19, <1>20, <1>21, <1>22, <1>23, <1>24, <1>25,
     StepCases

\* An enqueue moves one counted task to the end of the queue.
LEMMA PlacesEnqueue ==
  ASSUME IInv, NEW a \in Threads, NEW pc, adding[a] \in Tasks,
         stage[adding[a]] = "counted", EnqueueTask(a, pc)
  PROVE  Places'
<1> USE PoolAssumption DEF IInv, Control, Hands, Places, TypeOK, QueueInv, QueueUnique, Held, OwedInv
<1> DEFINE q == Append(queue, adding[a])
<1>1. /\ q \in Seq(Tasks)
      /\ Len(q) = Len(queue) + 1
      /\ \A i \in 1 .. Len(queue) : q[i] = queue[i]
      /\ q[Len(queue) + 1] = adding[a]
      /\ Len(queue) \in Nat
  BY AppendElements
<1>2. /\ queue' = q
      /\ stage' = [stage EXCEPT ![adding[a]] = "queued"]
      /\ adding' = [adding EXCEPT ![a] = NoTask]
      /\ UNCHANGED <<cur, owed>>
  BY DEF EnqueueTask
<1> HIDE DEF q
<1>3. \A i \in 1 .. Len(queue) : queue[i] \in Tasks
  BY ElementOfSeq
<1>4. \A i \in 1 .. Len(q) : i \in 1 .. Len(queue) \/ i = Len(queue) + 1
  BY <1>1
<1>5. QueueInv'
  BY <1>1, <1>2, <1>3, <1>4
<1>6. QueueUnique'
  BY <1>1, <1>2, <1>3, <1>4
<1>7. Held'
  <2> SUFFICES ASSUME NEW t \in Tasks
               PROVE  /\ stage'[t] = "counted" => \E b \in Threads : adding'[b] = t
                      /\ stage'[t] = "queued" => \E i \in 1 .. Len(queue') : queue'[i] = t
                      /\ stage'[t] = "running" => \E v \in Workers : cur'[v] = t
    OBVIOUS
  <2>1. CASE t = adding[a]
    <3>1. Len(queue) + 1 \in 1 .. Len(queue')
      BY <1>1, <1>2
    <3> QED
      BY <2>1, <3>1, <1>1, <1>2
  <2>2. CASE t # adding[a]
    <3>1. stage'[t] = stage[t]
      BY <2>2, <1>2
    <3>2. stage[t] = "counted" => \E b \in Threads : adding'[b] = t
      BY <2>2, <1>2
    <3>3. stage[t] = "queued" => \E i \in 1 .. Len(queue') : queue'[i] = t
      BY <1>1, <1>2
    <3> QED
      BY <3>1, <3>2, <3>3, <1>2
  <2> QED
    BY <2>1, <2>2
<1>8. OwedInv'
  BY <1>2
<1> QED
  BY <1>5, <1>6, <1>7, <1>8

\* Where the tasks of each stage are.
LEMMA PlacesStep ==
  ASSUME IInv, [Next]_vars PROVE Places'
<1> USE PoolAssumption DEF IInv, Control, Hands, Places, TypeOK, ClientInv, Busy, owner,
     Threads, CurInv, AddingInv, AddingUnique, CurUnique, QueueInv, QueueUnique, Held,
     OwedInv
<1>1. CASE CreatePool
  BY <1>1 DEF CreatePool
<1>2. CASE CreatePoolFails
  BY <1>2 DEF CreatePoolFails
<1>3. CASE StartWorker
  BY <1>3 DEF StartWorker
<1>4. CASE StartWorkerFails
  BY <1>4 DEF StartWorkerFails, StopWorkers, BroadcastHasTasks
<1>5. CASE DestroyPool
  BY <1>5 DEF DestroyPool, StopWorkers, BroadcastHasTasks
<1>6. CASE JoinWorker
  BY <1>6 DEF JoinWorker
<1>7. CASE FreePool
  <2>1. queue = <<>>
    BY <1>7 DEF FreePool, Drained, OwnerInv, Workers
  <2>2. Len(queue) = 0 /\ Len(queue') = 0
    BY <1>7, <2>1, EmptySeq DEF FreePool
  <2>3. \A t \in Tasks : stage[t] # "queued"
    BY <2>2
  <2>4. stage' = stage
    BY <1>7, <2>3 DEF FreePool
  <2> QED
    BY <1>7, <2>2, <2>3, <2>4 DEF FreePool
<1>8. ASSUME NEW w \in Workers, WorkerBlocks(w) PROVE Places'
  BY <1>8 DEF WorkerBlocks
<1>9. ASSUME NEW w \in Workers, WorkerExits(w) PROVE Places'
  BY <1>9 DEF WorkerExits
<1>10. ASSUME NEW w \in Workers, WorkerTakes(w) PROVE Places'
  <2>1. /\ Len(queue) \in Nat \ {0} /\ Head(queue) \in Tasks /\ Head(queue) = queue[1]
        /\ Tail(queue) \in Seq(Tasks) /\ Len(Tail(queue)) = Len(queue) - 1
        /\ \A i \in 1 .. Len(queue) - 1 : Tail(queue)[i] = queue[i + 1]
    BY <1>10, TailElements DEF WorkerTakes
  <2>2. /\ queue' = Tail(queue) /\ cur' = [cur EXCEPT ![w] = Head(queue)]
        /\ stage' = [stage EXCEPT ![Head(queue)] = "running"] /\ UNCHANGED <<adding, owed>>
        /\ wpc[w] = "top"
    BY <1>10 DEF WorkerTakes
  <2>3. \A i \in 1 .. Len(queue) : queue[i] \in Tasks
    BY ElementOfSeq
  <2>4. \A i \in 1 .. Len(queue') : i + 1 \in 1 .. Len(queue) /\ queue'[i] = queue[i + 1]
                                     /\ queue'[i] # Head(queue)
    BY <2>1, <2>2
  <2>5. QueueInv' /\ QueueUnique'
    BY <2>1, <2>2, <2>3, <2>4
  <2>6. Held'
    <3> SUFFICES ASSUME NEW t \in Tasks
                 PROVE  /\ stage'[t] = "counted" => \E a \in Threads : adding'[a] = t
                        /\ stage'[t] = "queued" => \E i \in 1 .. Len(queue') : queue'[i] = t
                        /\ stage'[t] = "running" => \E v \in Workers : cur'[v] = t
      OBVIOUS
    <3>1. CASE t = Head(queue)
      BY <3>1, <2>2
    <3>2. CASE t # Head(queue)
      <4>1. stage'[t] = stage[t]
        BY <3>2, <2>2
      <4>2. stage[t] = "queued" => \E i \in 1 .. Len(queue') : queue'[i] = t
        <5> SUFFICES ASSUME stage[t] = "queued" PROVE \E i \in 1 .. Len(queue') :
             queue'[i] = t
          OBVIOUS
        <5>1. PICK j \in 1 .. Len(queue) : queue[j] = t
          OBVIOUS
        <5>2. j - 1 \in 1 .. Len(queue') /\ j = (j - 1) + 1
          BY <5>1, <3>2, <2>1, <2>2
        <5>3. queue'[j - 1] = queue[(j - 1) + 1]
          BY <5>2, <2>4
        <5>4. queue'[j - 1] = t
          BY <5>1, <5>2, <5>3
        <5> QED
          BY <5>2, <5>4
      <4>3. stage[t] = "running" => \E v \in Workers : cur'[v] = t
        <5>1. cur[w] = NoTask
          BY <2>2
        <5> QED
          BY <5>1, <2>2
      <4> QED
        BY <4>1, <4>2, <4>3, <2>2
    <3> QED
      BY <3>1, <3>2
  <2>7. OwedInv'
    BY <2>2
  <2> QED
    BY <2>5, <2>6, <2>7
<1>11. ASSUME NEW w \in Workers, TaskReturns(w) PROVE Places'
  <2>1. cur[w] \in Tasks /\ stage[cur[w]] = "running"
    BY <1>11, WorkerHands DEF TaskReturns
  <2>2. stage' = [stage EXCEPT ![cur[w]] = "ran"] /\ UNCHANGED <<queue, adding, cur, owed>>
    BY <1>11 DEF TaskReturns
  <2>3. QueueInv' /\ QueueUnique' /\ OwedInv'
    BY <2>1, <2>2, ElementOfSeq
  <2>4. Held'
    BY <2>1, <2>2
  <2> QED
    BY <2>3, <2>4
<1>12. ASSUME NEW w \in Workers, WorkerCompletes(w) PROVE Places'
  <2>1. cur[w] \in Tasks /\ stage[cur[w]] = "ran"
    BY <1>12, WorkerHands DEF WorkerCompletes
  <2>2. /\ cur' = [cur EXCEPT ![w] = NoTask] /\ stage' = [stage EXCEPT ![cur[w]] = "done"]
        /\ UNCHANGED <<queue, adding, owed>>
    BY <1>12 DEF WorkerCompletes
  <2>3. QueueInv' /\ QueueUnique' /\ OwedInv'
    BY <2>1, <2>2, ElementOfSeq
  <2>4. Held'
    BY <2>1, <2>2
  <2> QED
    BY <2>3, <2>4
<1>13. ASSUME NEW w \in Workers, WorkerEnqueues(w) PROVE Places'
  <2>1. adding[w] \in Tasks /\ w \in Threads /\ stage[adding[w]] = "counted"
    BY <1>13, WorkerHands DEF WorkerEnqueues
  <2>2. EnqueueTask(w, [wpc EXCEPT ![w] = "run"])
    BY <1>13 DEF WorkerEnqueues
  <2> QED
    BY <2>1, <2>2, PlacesEnqueue
<1>14. ASSUME NEW w \in Workers, NEW t \in Tasks, WorkerCounts(w, t) PROVE Places'
  BY <1>14 DEF WorkerCounts, CountTask
<1>15. ASSUME NEW w \in Workers, WorkerSpuriousWake(w) PROVE Places'
  BY <1>15 DEF WorkerSpuriousWake
<1>16. ASSUME NEW c \in Clients, ClientEnqueues(c) PROVE Places'
  <2>1. cpc[c] = "adding" /\ EnqueueTask(c, wpc)
    BY <1>16 DEF ClientEnqueues
  <2>2. adding[c] \in Tasks /\ c \in Threads /\ stage[adding[c]] = "counted"
    BY <2>1, ClientHands
  <2> QED
    BY <2>1, <2>2, PlacesEnqueue
<1>17. ASSUME NEW c \in Clients, ClientTests(c) PROVE Places'
  BY <1>17 DEF ClientTests
<1>18. ASSUME NEW c \in Clients, ClientTimesOut(c) PROVE Places'
  BY <1>18 DEF ClientTimesOut
<1>19. ASSUME NEW c \in Clients, ClientReturns(c) PROVE Places'
  BY <1>19 DEF ClientReturns
<1>20. ASSUME NEW c \in Clients, NEW t \in Tasks, ClientCounts(c, t) PROVE Places'
  <2>1. c \in Threads /\ adding[c] = NoTask
    BY <1>20 DEF ClientCounts
  <2> QED
    BY <1>20, <2>1 DEF ClientCounts, CountTask
<1>21. ASSUME NEW c \in Clients, NEW pc \in {"wait", "timed"}, ClientCallsWait(c, pc)
     PROVE Places'
  BY <1>21 DEF ClientCallsWait, InStage
<1>22. ASSUME NEW c \in Clients, ClientSpuriousWake(c) PROVE Places'
  BY <1>22 DEF ClientSpuriousWake
<1>23. ASSUME NEW c \in Clients, DeadlinePasses(c) PROVE Places'
  BY <1>23 DEF DeadlinePasses
<1>24. ASSUME NEW t \in Tasks, TaskRefused(t) PROVE Places'
  BY <1>24 DEF TaskRefused
<1>25. CASE UNCHANGED vars
  BY <1>25 DEF vars, owner
<1> HIDE DEF IInv, Control, Hands, Places, TypeOK, ClientInv, Busy, owner, Threads,
     CurInv, AddingInv, AddingUnique, CurUnique, QueueInv, QueueUnique, Held, OwedInv
<1> QED
  BY <1>1, <1>2, <1>3, <1>4, <1>5, <1>6, <1>7, <1>8, <1>9, <1>10, <1>11, <1>12, <1>13,
       <1>14, <1>15, <1>16, <1>17, <1>18, <1>19, <1>20, <1>21, <1>22, <1>23, <1>24, <1>25,
     StepCases

-----------------------------------------------------------------------------
(* The count.                                                              *)

Counted == {"counted", "queued", "running", "ran"}

\* How a step that moves one task to stage s changes what is outstanding.
LEMMA OutstandingMove ==
  ASSUME TypeOK, NEW t \in Tasks, NEW s, stage' = [stage EXCEPT ![t] = s]
  PROVE  /\ stage[t] \in Counted /\ s \in Counted => Outstanding' = Outstanding
         /\ stage[t] \notin Counted /\ s \notin Counted => Outstanding' = Outstanding
         /\ stage[t] \notin Counted /\ s \in Counted =>
              Outstanding' = Outstanding \cup {t} /\ t \notin Outstanding
         /\ stage[t] \in Counted /\ s \notin Counted =>
              Outstanding' = Outstanding \ {t} /\ t \in Outstanding
<1>1. Outstanding = {x \in Tasks : stage[x] \in Counted}
  BY DEF Outstanding, InStage, Counted
<1>2. Outstanding' = {x \in Tasks : stage'[x] \in Counted}
  BY DEF Outstanding, InStage, Counted
<1>3. stage'[t] = s /\ \A x \in Tasks \ {t} : stage'[x] = stage[x]
  BY DEF TypeOK
<1> QED
  BY <1>1, <1>2, <1>3

\* Most steps change neither side.
LEMMA CountSame ==
  ASSUME PendingIsOutstanding, pending' = pending, Outstanding' = Outstanding
  PROVE  PendingIsOutstanding'
BY DEF PendingIsOutstanding

\* Every step that changes the count changes what is outstanding likewise.
LEMMA PendingStep ==
  ASSUME IInv, [Next]_vars PROVE PendingIsOutstanding'
<1> USE CountSame DEF IInv, owner, Outstanding, InStage
<1>1. CASE CreatePool
  BY <1>1 DEF CreatePool
<1>2. CASE CreatePoolFails
  BY <1>2 DEF CreatePoolFails
<1>3. CASE StartWorker
  BY <1>3 DEF StartWorker
<1>4. CASE StartWorkerFails
  BY <1>4 DEF StartWorkerFails, StopWorkers, BroadcastHasTasks
<1>5. CASE DestroyPool
  BY <1>5 DEF DestroyPool, StopWorkers, BroadcastHasTasks
<1>6. CASE JoinWorker
  BY <1>6 DEF JoinWorker
<1>7. CASE FreePool
  <2>1. queue = <<>> /\ pending' = pending
    BY <1>7, PoolAssumption DEF FreePool, Control, Drained, OwnerInv, TypeOK, Workers
  <2>2. \A t \in Tasks : stage[t] # "queued"
    BY <2>1, EmptySeq DEF Places, Held
  <2>3. stage' = stage
    BY <1>7, <2>2 DEF FreePool, Control, TypeOK
  <2> QED
    BY <2>1, <2>3, CountSame DEF Outstanding, InStage
<1>8. ASSUME NEW w \in Workers, WorkerBlocks(w) PROVE PendingIsOutstanding'
  BY <1>8 DEF WorkerBlocks
<1>9. ASSUME NEW w \in Workers, WorkerExits(w) PROVE PendingIsOutstanding'
  BY <1>9 DEF WorkerExits
<1>10. ASSUME NEW w \in Workers, WorkerTakes(w) PROVE PendingIsOutstanding'
  <2>1. Head(queue) \in Tasks /\ Len(queue) \in Nat \ {0} /\ Head(queue) = queue[1]
    BY <1>10, TailElements DEF WorkerTakes, Control, TypeOK
  <2>2. stage[Head(queue)] = "queued"
    BY <2>1 DEF Places, QueueInv
  <2>3. stage' = [stage EXCEPT ![Head(queue)] = "running"] /\ pending' = pending
    BY <1>10 DEF WorkerTakes
  <2>4. Outstanding' = Outstanding
    BY <2>1, <2>2, <2>3, OutstandingMove DEF Counted, Control
  <2> QED
    BY <2>3, <2>4, CountSame
<1>11. ASSUME NEW w \in Workers, TaskReturns(w) PROVE PendingIsOutstanding'
  <2>1. cur[w] \in Tasks /\ stage[cur[w]] = "running"
    BY <1>11, WorkerHands DEF TaskReturns, Busy
  <2>2. stage' = [stage EXCEPT ![cur[w]] = "ran"] /\ pending' = pending
    BY <1>11 DEF TaskReturns, Busy
  <2>3. Outstanding' = Outstanding
    BY <2>1, <2>2, OutstandingMove DEF Counted, Control
  <2> QED
    BY <2>2, <2>3, CountSame
<1>12. ASSUME NEW w \in Workers, WorkerCompletes(w) PROVE PendingIsOutstanding'
  <2>1. cur[w] \in Tasks /\ stage[cur[w]] = "ran"
    BY <1>12, WorkerHands DEF WorkerCompletes, Busy
  <2>2. stage' = [stage EXCEPT ![cur[w]] = "done"] /\ pending' = pending - 1
    BY <1>12 DEF WorkerCompletes
  <2>3. Outstanding' = Outstanding \ {cur[w]} /\ cur[w] \in Outstanding
    <3>1. stage[cur[w]] \in Counted /\ "done" \notin Counted /\ TypeOK
      BY <2>1 DEF Counted, Control
    <3> HIDE DEF Outstanding
    <3> QED
      BY <2>1, <2>2, <3>1, OutstandingMove
  <2> QED
    BY <2>1, <2>2, <2>3, CountDown DEF Control
<1>13. ASSUME NEW w \in Workers, WorkerEnqueues(w) PROVE PendingIsOutstanding'
  <2>1. adding[w] \in Tasks /\ stage[adding[w]] = "counted"
    BY <1>13, WorkerHands DEF WorkerEnqueues
  <2>2. stage' = [stage EXCEPT ![adding[w]] = "queued"] /\ pending' = pending
    BY <1>13 DEF WorkerEnqueues, EnqueueTask
  <2>3. Outstanding' = Outstanding
    BY <2>1, <2>2, OutstandingMove DEF Counted, Control
  <2> QED
    BY <2>2, <2>3, CountSame
<1>14. ASSUME NEW w \in Workers, NEW t \in Tasks, WorkerCounts(w, t) PROVE
     PendingIsOutstanding'
  <2>1. stage[t] = "new" /\ stage' = [stage EXCEPT ![t] = "counted"] /\ pending' = pending
       + 1
    BY <1>14 DEF WorkerCounts, CountTask
  <2>2. Outstanding' = Outstanding \cup {t} /\ t \notin Outstanding
    BY <2>1, OutstandingMove DEF Counted, Control
  <2> QED
    BY <2>1, <2>2, CountUp DEF Control
<1>15. ASSUME NEW w \in Workers, WorkerSpuriousWake(w) PROVE PendingIsOutstanding'
  BY <1>15 DEF WorkerSpuriousWake
<1>16. ASSUME NEW c \in Clients, ClientEnqueues(c) PROVE PendingIsOutstanding'
  <2>1. adding[c] \in Tasks /\ stage[adding[c]] = "counted"
    BY <1>16, ClientHands DEF ClientEnqueues
  <2>2. stage' = [stage EXCEPT ![adding[c]] = "queued"] /\ pending' = pending
    BY <1>16 DEF ClientEnqueues, EnqueueTask
  <2>3. Outstanding' = Outstanding
    BY <2>1, <2>2, OutstandingMove DEF Counted, Control
  <2> QED
    BY <2>2, <2>3, CountSame
<1>17. ASSUME NEW c \in Clients, ClientTests(c) PROVE PendingIsOutstanding'
  BY <1>17 DEF ClientTests
<1>18. ASSUME NEW c \in Clients, ClientTimesOut(c) PROVE PendingIsOutstanding'
  BY <1>18 DEF ClientTimesOut
<1>19. ASSUME NEW c \in Clients, ClientReturns(c) PROVE PendingIsOutstanding'
  BY <1>19 DEF ClientReturns
<1>20. ASSUME NEW c \in Clients, NEW t \in Tasks, ClientCounts(c, t) PROVE
     PendingIsOutstanding'
  <2>1. stage[t] = "new" /\ stage' = [stage EXCEPT ![t] = "counted"] /\ pending' = pending
       + 1
    BY <1>20 DEF ClientCounts, CountTask
  <2>2. Outstanding' = Outstanding \cup {t} /\ t \notin Outstanding
    BY <2>1, OutstandingMove DEF Counted, Control
  <2> QED
    BY <2>1, <2>2, CountUp DEF Control
<1>21. ASSUME NEW c \in Clients, NEW pc \in {"wait", "timed"}, ClientCallsWait(c, pc)
     PROVE PendingIsOutstanding'
  BY <1>21 DEF ClientCallsWait
<1>22. ASSUME NEW c \in Clients, ClientSpuriousWake(c) PROVE PendingIsOutstanding'
  BY <1>22 DEF ClientSpuriousWake
<1>23. ASSUME NEW c \in Clients, DeadlinePasses(c) PROVE PendingIsOutstanding'
  BY <1>23 DEF DeadlinePasses
<1>24. ASSUME NEW t \in Tasks, TaskRefused(t) PROVE PendingIsOutstanding'
  <2>1. t \in Tasks /\ stage[t] = "new"
    BY <1>24 DEF TaskRefused
  <2>2. stage' = [stage EXCEPT ![t] = "refused"] /\ pending' = pending
    BY <1>24 DEF TaskRefused
  <2>3. Outstanding' = Outstanding
    BY <2>1, <2>2, OutstandingMove DEF Counted, Control
  <2> QED
    BY <2>2, <2>3, CountSame
<1>25. CASE UNCHANGED vars
  BY <1>25 DEF vars, owner
<1> HIDE DEF IInv, owner, Outstanding, InStage
<1> QED
  BY <1>1, <1>2, <1>3, <1>4, <1>5, <1>6, <1>7, <1>8, <1>9, <1>10, <1>11, <1>12, <1>13,
       <1>14, <1>15, <1>16, <1>17, <1>18, <1>19, <1>20, <1>21, <1>22, <1>23, <1>24, <1>25,
     StepCases

\* A client leaves thread_pool_wait only when what it is owed has run.
LEMMA WaitStep ==
  ASSUME IInv, [Next]_vars PROVE WaitCoversEarlierTasks'
<1> USE DEF IInv, Control, TypeOK, WaitCoversEarlierTasks, Finished, InStage, owner
<1>1. CASE CreatePool
  BY <1>1 DEF CreatePool
<1>2. CASE CreatePoolFails
  BY <1>2 DEF CreatePoolFails
<1>3. CASE StartWorker
  BY <1>3 DEF StartWorker
<1>4. CASE StartWorkerFails
  BY <1>4 DEF StartWorkerFails, StopWorkers, BroadcastHasTasks
<1>5. CASE DestroyPool
  BY <1>5 DEF DestroyPool, StopWorkers, BroadcastHasTasks
<1>6. CASE JoinWorker
  BY <1>6 DEF JoinWorker
<1>7. CASE FreePool
  <2>1. \A c \in Clients : cpc'[c] # "drained"
    BY <1>7 DEF FreePool, Control, ClientInv
  <2> QED
    BY <2>1
<1>8. ASSUME NEW w \in Workers, WorkerBlocks(w) PROVE WaitCoversEarlierTasks'
  BY <1>8 DEF WorkerBlocks
<1>9. ASSUME NEW w \in Workers, WorkerExits(w) PROVE WaitCoversEarlierTasks'
  BY <1>9 DEF WorkerExits
<1>10. ASSUME NEW w \in Workers, WorkerTakes(w) PROVE WaitCoversEarlierTasks'
  <2>1. Head(queue) \in Tasks /\ Len(queue) \in Nat \ {0} /\ Head(queue) = queue[1]
    BY <1>10, TailElements DEF WorkerTakes, Control
  <2>2. stage[Head(queue)] = "queued"
    BY <2>1 DEF Places, QueueInv
  <2>3. Finished' = Finished
    BY <1>10, <2>1, <2>2 DEF WorkerTakes
  <2> QED
    BY <1>10, <2>3 DEF WorkerTakes
<1>11. ASSUME NEW w \in Workers, TaskReturns(w) PROVE WaitCoversEarlierTasks'
  <2>1. Finished \subseteq Finished'
    BY <1>11 DEF TaskReturns
  <2> QED
    BY <1>11, <2>1 DEF TaskReturns
<1>12. ASSUME NEW w \in Workers, WorkerCompletes(w) PROVE WaitCoversEarlierTasks'
  <2>1. cur[w] \in Tasks /\ stage[cur[w]] = "ran"
    BY <1>12, WorkerHands DEF WorkerCompletes, Busy
  <2>2. Finished' = Finished /\ UNCHANGED owed
    BY <1>12, <2>1 DEF WorkerCompletes
  <2>3. \A c \in Clients : cpc'[c] = "drained" => cpc[c] = "drained"
    <3> SUFFICES ASSUME NEW c \in Clients, cpc'[c] = "drained" PROVE cpc[c] = "drained"
      OBVIOUS
    <3>1. CASE pending' = 0
      BY <1>12, <3>1, IdleBroadcast DEF WorkerCompletes
    <3>2. CASE pending' # 0
      BY <1>12, <3>2 DEF WorkerCompletes
    <3> QED
      BY <3>1, <3>2
  <2> QED
    BY <2>2, <2>3
<1>13. ASSUME NEW w \in Workers, WorkerEnqueues(w) PROVE WaitCoversEarlierTasks'
  <2>1. adding[w] \in Tasks /\ stage[adding[w]] = "counted"
    BY <1>13, WorkerHands DEF WorkerEnqueues
  <2>2. Finished' = Finished /\ UNCHANGED owed
    BY <1>13, <2>1 DEF WorkerEnqueues, EnqueueTask
  <2>3. \A d \in Clients : cpc'[d] = "drained" => cpc[d] = "drained"
    BY <1>13 DEF WorkerEnqueues
  <2> QED
    BY <2>2, <2>3
<1>14. ASSUME NEW w \in Workers, NEW t \in Tasks, WorkerCounts(w, t) PROVE
     WaitCoversEarlierTasks'
  BY <1>14 DEF WorkerCounts, CountTask
<1>15. ASSUME NEW w \in Workers, WorkerSpuriousWake(w) PROVE WaitCoversEarlierTasks'
  BY <1>15 DEF WorkerSpuriousWake
<1>16. ASSUME NEW c \in Clients, ClientEnqueues(c) PROVE WaitCoversEarlierTasks'
  <2>1. adding[c] \in Tasks /\ stage[adding[c]] = "counted"
    BY <1>16, ClientHands DEF ClientEnqueues
  <2>2. Finished' = Finished /\ UNCHANGED owed
    BY <1>16, <2>1 DEF ClientEnqueues, EnqueueTask
  <2>3. \A d \in Clients : cpc'[d] = "drained" => cpc[d] = "drained"
    BY <1>16 DEF ClientEnqueues
  <2> QED
    BY <2>2, <2>3
<1>17. ASSUME NEW c \in Clients, ClientTests(c) PROVE WaitCoversEarlierTasks'
  <2>1. UNCHANGED <<stage, owed>> /\ \A d \in Clients \ {c} : cpc'[d] = cpc[d]
    BY <1>17 DEF ClientTests
  <2>2. cpc'[c] = "drained" => pending = 0
    BY <1>17 DEF ClientTests
  <2>3. pending = 0 => owed[c] \subseteq Finished
    <3> SUFFICES ASSUME pending = 0, NEW t \in owed[c] PROVE t \in Finished
      OBVIOUS
    <3>1. Outstanding = {}
      BY OutstandingFinite
    <3>2. t \in Tasks /\ stage[t] \in Stages \ {"new", "refused", "discarded"}
      BY DEF Places, OwedInv
    <3> QED
      BY <3>1, <3>2 DEF Outstanding, Stages
  <2> QED
    BY <2>1, <2>2, <2>3
<1>18. ASSUME NEW c \in Clients, ClientTimesOut(c) PROVE WaitCoversEarlierTasks'
  <2>1. UNCHANGED <<stage, owed>> /\ \A d \in Clients \ {c} : cpc'[d] = cpc[d]
    BY <1>18 DEF ClientTimesOut
  <2>2. cpc'[c] = "drained" => pending = 0
    BY <1>18 DEF ClientTimesOut
  <2>3. pending = 0 => owed[c] \subseteq Finished
    <3> SUFFICES ASSUME pending = 0, NEW t \in owed[c] PROVE t \in Finished
      OBVIOUS
    <3>1. Outstanding = {}
      BY OutstandingFinite
    <3>2. t \in Tasks /\ stage[t] \in Stages \ {"new", "refused", "discarded"}
      BY DEF Places, OwedInv
    <3> QED
      BY <3>1, <3>2 DEF Outstanding, Stages
  <2> QED
    BY <2>1, <2>2, <2>3
<1>19. ASSUME NEW c \in Clients, ClientReturns(c) PROVE WaitCoversEarlierTasks'
  BY <1>19 DEF ClientReturns
<1>20. ASSUME NEW c \in Clients, NEW t \in Tasks, ClientCounts(c, t) PROVE
     WaitCoversEarlierTasks'
  BY <1>20 DEF ClientCounts, CountTask
<1>21. ASSUME NEW c \in Clients, NEW pc \in {"wait", "timed"}, ClientCallsWait(c, pc)
     PROVE WaitCoversEarlierTasks'
  BY <1>21 DEF ClientCallsWait
<1>22. ASSUME NEW c \in Clients, ClientSpuriousWake(c) PROVE WaitCoversEarlierTasks'
  BY <1>22 DEF ClientSpuriousWake
<1>23. ASSUME NEW c \in Clients, DeadlinePasses(c) PROVE WaitCoversEarlierTasks'
  BY <1>23 DEF DeadlinePasses
<1>24. ASSUME NEW t \in Tasks, TaskRefused(t) PROVE WaitCoversEarlierTasks'
  <2>1. Finished' = Finished
    BY <1>24 DEF TaskRefused
  <2> QED
    BY <1>24, <2>1 DEF TaskRefused
<1>25. CASE UNCHANGED vars
  BY <1>25 DEF vars, owner
<1> HIDE DEF IInv, Control, TypeOK, WaitCoversEarlierTasks, Finished, InStage, owner
<1> QED
  BY <1>1, <1>2, <1>3, <1>4, <1>5, <1>6, <1>7, <1>8, <1>9, <1>10, <1>11, <1>12, <1>13,
       <1>14, <1>15, <1>16, <1>17, <1>18, <1>19, <1>20, <1>21, <1>22, <1>23, <1>24, <1>25,
     StepCases

-----------------------------------------------------------------------------
(* The theorems.                                                           *)

LEMMA StepIInv == IInv /\ [Next]_vars => IInv'
<1> SUFFICES ASSUME IInv, [Next]_vars PROVE IInv'
  OBVIOUS
<1> QED
  BY ControlStep, HandsStep, PlacesStep, PendingStep, WaitStep DEF IInv

\* The inductive invariant holds in every reachable state of every pool.
THEOREM Invariance == Spec => []IInv
BY InitIInv, StepIInv, PTL DEF Spec

\* Every variable keeps its type; in particular `pending`, a plain int that
\* workers decrement, is never taken below zero.
THEOREM TypeCorrect == Spec => []TypeOK
<1>1. IInv => TypeOK
  BY DEF IInv, Control
<1> QED
  BY <1>1, Invariance, PTL

\* `pending` is the number of tasks submitted and not yet complete.
THEOREM PendingCorrect == Spec => []PendingIsOutstanding
<1>1. IInv => PendingIsOutstanding
  BY DEF IInv
<1> QED
  BY <1>1, Invariance, PTL

\* thread_pool_wait, and a wait_timeout that answers true, return only after
\* every task submitted before the call has run.
THEOREM WaitCorrect == Spec => []WaitCoversEarlierTasks
<1>1. IInv => WaitCoversEarlierTasks
  BY DEF IInv
<1> QED
  BY <1>1, Invariance, PTL

\* No task is taken by two workers, and none is both taken and still queued.
THEOREM RunsOnce == Spec => []NoTaskRunsTwice
<1>1. IInv => NoTaskRunsTwice
  <2> SUFFICES ASSUME IInv PROVE NoTaskRunsTwice
    OBVIOUS
  <2>1. CurUnique /\ QueueUnique /\ QueueInv /\ queue \in Seq(Tasks)
    BY DEF IInv, Hands, Places, Control, TypeOK
  <2>2. DOMAIN queue = 1 .. Len(queue)
    BY <2>1, LenProperties
  <2>3. \A v, w \in Workers : v # w /\ cur[v] # NoTask => cur[v] # cur[w]
    BY <2>1 DEF CurUnique
  <2>4. \A i, j \in DOMAIN queue : i # j => queue[i] # queue[j]
    BY <2>1, <2>2 DEF QueueUnique
  <2>5. ASSUME NEW w \in Workers, NEW i \in DOMAIN queue PROVE cur[w] # queue[i]
    <3>1. queue[i] \in Tasks /\ stage[queue[i]] = "queued"
      BY <2>1, <2>2, ElementOfSeq DEF QueueInv
    <3>2. cur[w] \in Tasks => stage[cur[w]] # "queued"
      BY WorkerHands DEF Busy
    <3> QED
      BY <3>1, <3>2
  <2> QED
    BY <2>3, <2>4, <2>5 DEF NoTaskRunsTwice
<1> QED
  BY <1>1, Invariance, PTL

\* The pool is freed only when every worker that was started has left it and nobody is
\* inside a submission or a wait.
THEOREM FreedSafely == Spec => []FreedOnlyAfterWorkers
<1>1. IInv /\ phase = "freed" => \A w \in Workers : wpc[w] \in {"absent", "exited"}
  BY PoolAssumption DEF IInv, Control, TypeOK, OwnerInv, Workers
<1>2. IInv /\ phase = "freed" => \A c \in Clients : cpc[c] = "idle"
  BY DEF IInv, Control, ClientInv
<1>3. IInv /\ phase = "freed" => \A a \in Threads : adding[a] = NoTask
  BY <1>1, <1>2 DEF IInv, Hands, AddingInv, Threads
<1>4. IInv => FreedOnlyAfterWorkers
  BY <1>1, <1>2, <1>3 DEF FreedOnlyAfterWorkers
<1> QED
  BY <1>4, Invariance, PTL

\* A sleeper beside a queued task always has a worker on its feet.
LEMMA WakeStep ==
  ASSUME IInv, WorkersWoken, [Next]_vars PROVE WorkersWoken'
<1> USE DEF IInv, Control, TypeOK, OwnerInv, WorkersWoken, Blocked, owner, WorkerStates
<1>1. CASE CreatePool
  BY <1>1 DEF CreatePool
<1>2. CASE CreatePoolFails
  BY <1>2 DEF CreatePoolFails
<1>3. CASE StartWorker
  BY <1>3 DEF StartWorker
<1>4. CASE StartWorkerFails
  BY <1>4 DEF StartWorkerFails, StopWorkers, BroadcastHasTasks
<1>5. CASE DestroyPool
  BY <1>5 DEF DestroyPool, StopWorkers, BroadcastHasTasks
<1>6. CASE JoinWorker
  BY <1>6 DEF JoinWorker
<1>7. CASE FreePool
  BY <1>7 DEF FreePool
<1>8. ASSUME NEW w \in Workers, WorkerBlocks(w) PROVE WorkersWoken'
  BY <1>8 DEF WorkerBlocks
<1>9. ASSUME NEW w \in Workers, WorkerExits(w) PROVE WorkersWoken'
  BY <1>9 DEF WorkerExits
<1>10. ASSUME NEW w \in Workers, WorkerTakes(w) PROVE WorkersWoken'
  <2>1. wpc'[w] = "run"
    BY <1>10 DEF WorkerTakes
  <2> QED
    BY <1>10, <2>1 DEF WorkerTakes
<1>11. ASSUME NEW w \in Workers, TaskReturns(w) PROVE WorkersWoken'
  BY <1>11 DEF TaskReturns
<1>12. ASSUME NEW w \in Workers, WorkerCompletes(w) PROVE WorkersWoken'
  BY <1>12 DEF WorkerCompletes, BroadcastAllIdle
<1>13. ASSUME NEW w \in Workers, WorkerEnqueues(w) PROVE WorkersWoken'
  <2>1. wpc[w] = "adding" /\ keepAlive' = keepAlive
    BY <1>13 DEF WorkerEnqueues, EnqueueTask
  <2>2. wpc'[w] = "run" /\ \A v \in Workers \ {w} : wpc'[v] # wpc[v] => wpc[v] = "blocked"
       /\ wpc'[v] = "top"
    BY <1>13, <2>1, Signalled DEF WorkerEnqueues, EnqueueTask
  <2> QED
    BY <2>1, <2>2
<1>14. ASSUME NEW w \in Workers, NEW t \in Tasks, WorkerCounts(w, t) PROVE WorkersWoken'
  BY <1>14 DEF WorkerCounts, CountTask
<1>15. ASSUME NEW w \in Workers, WorkerSpuriousWake(w) PROVE WorkersWoken'
  BY <1>15 DEF WorkerSpuriousWake
<1>16. ASSUME NEW c \in Clients, ClientEnqueues(c) PROVE WorkersWoken'
  <2>1. keepAlive' = keepAlive /\ SignalHasTasks(wpc)
    BY <1>16 DEF ClientEnqueues, EnqueueTask
  <2>2. CASE Blocked = {}
    <3>1. wpc' = wpc
      BY <2>1, <2>2 DEF SignalHasTasks
    <3> QED
      BY <2>1, <2>2, <3>1
  <2>3. CASE Blocked # {}
    <3>1. PICK b \in Workers : wpc[b] = "blocked" /\ wpc' = [wpc EXCEPT ![b] = "top"]
      BY <2>1, <2>3 DEF SignalHasTasks
    <3>2. wpc'[b] = "top"
      BY <3>1
    <3> QED
      BY <2>1, <3>1, <3>2
  <2> QED
    BY <2>2, <2>3
<1>17. ASSUME NEW c \in Clients, ClientTests(c) PROVE WorkersWoken'
  BY <1>17 DEF ClientTests
<1>18. ASSUME NEW c \in Clients, ClientTimesOut(c) PROVE WorkersWoken'
  BY <1>18 DEF ClientTimesOut
<1>19. ASSUME NEW c \in Clients, ClientReturns(c) PROVE WorkersWoken'
  BY <1>19 DEF ClientReturns
<1>20. ASSUME NEW c \in Clients, NEW t \in Tasks, ClientCounts(c, t) PROVE WorkersWoken'
  BY <1>20 DEF ClientCounts, CountTask
<1>21. ASSUME NEW c \in Clients, NEW pc \in {"wait", "timed"}, ClientCallsWait(c, pc)
     PROVE WorkersWoken'
  BY <1>21 DEF ClientCallsWait
<1>22. ASSUME NEW c \in Clients, ClientSpuriousWake(c) PROVE WorkersWoken'
  BY <1>22 DEF ClientSpuriousWake
<1>23. ASSUME NEW c \in Clients, DeadlinePasses(c) PROVE WorkersWoken'
  BY <1>23 DEF DeadlinePasses
<1>24. ASSUME NEW t \in Tasks, TaskRefused(t) PROVE WorkersWoken'
  BY <1>24 DEF TaskRefused
<1>25. CASE UNCHANGED vars
  BY <1>25 DEF vars, owner
<1> HIDE DEF IInv, Control, TypeOK, OwnerInv, WorkersWoken, Blocked, owner, WorkerStates
<1> QED
  BY <1>1, <1>2, <1>3, <1>4, <1>5, <1>6, <1>7, <1>8, <1>9, <1>10, <1>11, <1>12, <1>13,
       <1>14, <1>15, <1>16, <1>17, <1>18, <1>19, <1>20, <1>21, <1>22, <1>23, <1>24, <1>25,
     StepCases

\* Whoever sleeps on allIdle has something to wait for: the step that leaves nothing
\* pending wakes them all.
LEMMA WaitersStep ==
  ASSUME IInv, WaitersWoken, [Next]_vars PROVE WaitersWoken'
<1>1. /\ pending \in Nat /\ pending' \in Nat
      /\ cpc \in [Clients -> ClientStates]
  BY StepIInv DEF IInv, Control, TypeOK
<1> USE DEF WaitersWoken, ClientStates
<1>2. CASE CreatePool
  BY <1>2, <1>1 DEF CreatePool, owner
<1>3. CASE CreatePoolFails
  BY <1>3, <1>1 DEF CreatePoolFails, owner
<1>4. CASE StartWorker
  BY <1>4, <1>1 DEF StartWorker, owner
<1>5. CASE StartWorkerFails
  BY <1>5, <1>1 DEF StartWorkerFails, StopWorkers, owner
<1>6. CASE DestroyPool
  BY <1>6, <1>1 DEF DestroyPool, StopWorkers, owner
<1>7. CASE JoinWorker
  BY <1>7, <1>1 DEF JoinWorker, owner
<1>8. CASE FreePool
  BY <1>8, <1>1 DEF FreePool, owner
<1>9. ASSUME NEW w \in Workers, WorkerBlocks(w) PROVE WaitersWoken'
  BY <1>9, <1>1 DEF WorkerBlocks, owner
<1>10. ASSUME NEW w \in Workers, WorkerExits(w) PROVE WaitersWoken'
  BY <1>10, <1>1 DEF WorkerExits, owner
<1>11. ASSUME NEW w \in Workers, WorkerTakes(w) PROVE WaitersWoken'
  BY <1>11, <1>1 DEF WorkerTakes, owner
<1>12. ASSUME NEW w \in Workers, TaskReturns(w) PROVE WaitersWoken'
  BY <1>12, <1>1 DEF TaskReturns, owner
<1>13. ASSUME NEW w \in Workers, WorkerCompletes(w) PROVE WaitersWoken'
  <2>1. CASE pending' = 0
    <3>1. BroadcastAllIdle
      BY <1>13, <2>1 DEF WorkerCompletes
    <3> QED
      BY <3>1, IdleBroadcast
  <2>2. CASE pending' # 0
    BY <1>1, <1>13, <2>2 DEF WorkerCompletes
  <2> QED
    BY <2>1, <2>2
<1>14. ASSUME NEW w \in Workers, WorkerEnqueues(w) PROVE WaitersWoken'
  BY <1>14, <1>1 DEF WorkerEnqueues, EnqueueTask, owner
<1>15. ASSUME NEW w \in Workers, WorkerSpuriousWake(w) PROVE WaitersWoken'
  BY <1>15, <1>1 DEF WorkerSpuriousWake, owner
<1>16. ASSUME NEW w \in Workers, NEW t \in Tasks, WorkerCounts(w, t) PROVE WaitersWoken'
  BY <1>16, <1>1 DEF WorkerCounts, CountTask, owner
<1>17. ASSUME NEW c \in Clients, ClientEnqueues(c) PROVE WaitersWoken'
  BY <1>17, <1>1 DEF ClientEnqueues, EnqueueTask, owner
<1>18. ASSUME NEW c \in Clients, ClientTests(c) PROVE WaitersWoken'
  BY <1>18, <1>1 DEF ClientTests, owner
<1>19. ASSUME NEW c \in Clients, ClientTimesOut(c) PROVE WaitersWoken'
  BY <1>19, <1>1 DEF ClientTimesOut, owner
<1>20. ASSUME NEW c \in Clients, ClientReturns(c) PROVE WaitersWoken'
  BY <1>20, <1>1 DEF ClientReturns, owner
<1>21. ASSUME NEW c \in Clients, ClientSpuriousWake(c) PROVE WaitersWoken'
  BY <1>21, <1>1 DEF ClientSpuriousWake, owner
<1>22. ASSUME NEW c \in Clients, DeadlinePasses(c) PROVE WaitersWoken'
  BY <1>22, <1>1 DEF DeadlinePasses, owner
<1>23. ASSUME NEW c \in Clients, NEW t \in Tasks, ClientCounts(c, t) PROVE WaitersWoken'
  BY <1>23, <1>1 DEF ClientCounts, CountTask, owner
<1>24. ASSUME NEW c \in Clients, NEW pc \in {"wait", "timed"}, ClientCallsWait(c, pc) PROVE WaitersWoken'
  BY <1>24, <1>1 DEF ClientCallsWait, owner
<1>25. ASSUME NEW t \in Tasks, TaskRefused(t) PROVE WaitersWoken'
  BY <1>25, <1>1 DEF TaskRefused, owner
<1>26. CASE UNCHANGED vars
  BY <1>26 DEF vars, owner
<1> HIDE DEF WaitersWoken, ClientStates
<1> QED
  BY <1>2, <1>3, <1>4, <1>5, <1>6, <1>7, <1>8, <1>9, <1>10, <1>11, <1>12, <1>13,
       <1>14, <1>15, <1>16, <1>17, <1>18, <1>19, <1>20, <1>21, <1>22, <1>23, <1>24, <1>25, <1>26,
     StepCases

\* No worker is left asleep after keepAlive drops, nor beside queued work, and nobody
\* waits for the end of work that has ended.
THEOREM WakeCorrect == Spec => []NoLostWakeup
<1>1. Init => WorkersWoken /\ WaitersWoken
  BY DEF Init, WorkersWoken, WaitersWoken, Blocked
<1>2. IInv /\ WorkersWoken /\ [Next]_vars => WorkersWoken'
  BY WakeStep
<1>3. IInv /\ WaitersWoken /\ [Next]_vars => WaitersWoken'
  BY WaitersStep
<1> QED
  BY <1>1, <1>2, <1>3, Invariance, PTL DEF Spec, NoLostWakeup

-----------------------------------------------------------------------------
(* The pool implements the abstract executor.                              *)

Open == phase \notin {"freed", "null"}
State == [t \in Tasks |-> ExecutorState(t)]

\* How a step that moves one task looks to the executor.
LEMMA AbstractMove ==
  ASSUME TypeOK, NEW t \in Tasks, NEW s \in Stages, NEW from, NEW to, Open, Open',
         stage' = [stage EXCEPT ![t] = s],
         ExecutorState(t) = from,
         to = CASE s \in {"counted", "queued"} -> "accepted"
                [] s \in {"ran", "done"}       -> "finished"
                [] OTHER                      -> s
  PROVE  Executor!Move(t, from, to)
<1>1. stage'[t] = s /\ \A x \in Tasks \ {t} : stage'[x] = stage[x]
  BY DEF TypeOK
<1>2. ExecutorState(t)' = to
  BY <1>1 DEF ExecutorState
<1>3. \A x \in Tasks \ {t} : ExecutorState(x)' = ExecutorState(x)
  BY <1>1 DEF ExecutorState
<1>4. State' = [State EXCEPT ![t] = to]
  BY <1>2, <1>3 DEF State
<1>5. State[t] = from
  BY DEF State
<1> QED
  BY <1>4, <1>5 DEF Executor!Move, Open, State

\* A step that leaves the tasks where they are, as the executor sees them.
LEMMA AbstractStutter ==
  ASSUME Open' = Open, \A t \in Tasks : ExecutorState(t)' = ExecutorState(t)
  PROVE  UNCHANGED Executor!vars
BY DEF Executor!vars, Open

\* A worker that runs a task, or a client inside a call, finds the pool open.
LEMMA OpenWhileUsed ==
  ASSUME IInv
  PROVE  /\ \A w \in Workers : wpc[w] \notin {"absent", "exited"} => Open
         /\ \A c \in Clients : cpc[c] # "idle" => Open
<1> USE PoolAssumption DEF IInv, Control, TypeOK, OwnerInv, ClientInv, Workers, Open
<1>1. ASSUME NEW w \in Workers, wpc[w] \notin {"absent", "exited"} PROVE Open
  <2>1. w <= started /\ ~(w <= joined)
    BY <1>1
  <2> QED
    BY <2>1
<1>2. ASSUME NEW c \in Clients, cpc[c] # "idle" PROVE Open
  BY <1>2
<1> QED
  BY <1>1, <1>2

\* Before the first worker starts, and once all have left, nothing is owed.
LEMMA NothingOwed ==
  ASSUME IInv, phase = "none" \/ (phase = "joining" /\ joined = started)
  PROVE  \A t \in Tasks : stage[t] \notin {"counted", "queued", "running"}
<1>1. \A w \in Workers : wpc[w] \in {"absent", "exited"}
  BY PoolAssumption DEF IInv, Control, TypeOK, OwnerInv, Workers
<1>2. \A w \in Workers : cur[w] = NoTask /\ adding[w] = NoTask
  BY <1>1 DEF IInv, Hands, CurInv, AddingInv, Busy
<1>3. \A c \in Clients : adding[c] = NoTask
  BY DEF IInv, Control, ClientInv, Hands, AddingInv
<1>4. queue = <<>>
  BY <1>1, PoolAssumption DEF IInv, Control, TypeOK, OwnerInv, ClientInv, Drained, Workers
<1>5. Len(queue) = 0
  BY <1>4, EmptySeq
<1> QED
  BY <1>2, <1>3, <1>5, PoolAssumption DEF IInv, Places, Held, Threads

\* Closing the pool is the executor's Close.
LEMMA AbstractClose ==
  ASSUME IInv, phase = "none" \/ (phase = "joining" /\ joined = started),
         phase' \in {"freed", "null"}, stage' = stage
  PROVE  Executor!Close
<1>1. ASSUME NEW t \in Tasks PROVE ExecutorState(t) \notin {"accepted", "running"}
  <2>1. stage[t] \in Stages \ {"counted", "queued", "running"}
    BY NothingOwed DEF IInv, Control, TypeOK
  <2> QED
    BY <2>1 DEF ExecutorState, Stages
<1>2. \A t \in Tasks : ExecutorState(t)' = ExecutorState(t)
  BY DEF ExecutorState
<1> QED
  BY <1>1, <1>2 DEF Executor!Close

\* Every step of the pool is a step of the executor or changes nothing it shows.
LEMMA RefinementStep ==
  ASSUME IInv, [Next]_vars PROVE [Executor!Next]_(Executor!vars)
<1> USE DEF owner, Open
<1>1. CASE CreatePool
  BY <1>1, AbstractStutter DEF CreatePool, ExecutorState
<1>2. CASE CreatePoolFails
  <2>1. Executor!Close
    BY <1>2, AbstractClose DEF CreatePoolFails
  <2> QED
    BY <2>1 DEF Executor!Next
<1>3. CASE StartWorker
  BY <1>3, AbstractStutter DEF StartWorker, ExecutorState
<1>4. CASE StartWorkerFails
  BY <1>4, AbstractStutter DEF StartWorkerFails, StopWorkers, BroadcastHasTasks,
       ExecutorState
<1>5. CASE DestroyPool
  BY <1>5, AbstractStutter DEF DestroyPool, StopWorkers, BroadcastHasTasks, ExecutorState
<1>6. CASE JoinWorker
  BY <1>6, AbstractStutter DEF JoinWorker, ExecutorState
<1>7. CASE FreePool
  <2>1. \A t \in Tasks : stage[t] # "queued"
    BY <1>7, NothingOwed DEF FreePool
  <2>2. stage' = stage
    BY <1>7, <2>1 DEF FreePool, IInv, Control, TypeOK
  <2>3. Executor!Close
    BY <1>7, <2>2, AbstractClose DEF FreePool
  <2> QED
    BY <2>3 DEF Executor!Next
<1>8. ASSUME NEW w \in Workers, WorkerBlocks(w) PROVE [Executor!Next]_(Executor!vars)
  BY <1>8, AbstractStutter DEF WorkerBlocks, ExecutorState
<1>9. ASSUME NEW w \in Workers, WorkerExits(w) PROVE [Executor!Next]_(Executor!vars)
  BY <1>9, AbstractStutter DEF WorkerExits, ExecutorState
<1>10. ASSUME NEW w \in Workers, WorkerTakes(w) PROVE [Executor!Next]_(Executor!vars)
  <2>1. Head(queue) \in Tasks /\ stage[Head(queue)] = "queued"
    <3>1. queue \in Seq(Tasks) /\ QueueInv
      BY DEF IInv, Control, TypeOK, Places
    <3> QED
      BY <1>10, <3>1, TailElements DEF WorkerTakes, QueueInv
  <2>2. stage' = [stage EXCEPT ![Head(queue)] = "running"] /\ phase' = phase
    BY <1>10, AbstractStutter DEF WorkerTakes, owner, ExecutorState
  <2>3. Open /\ Open'
    BY <1>10, <2>2, OpenWhileUsed DEF WorkerTakes, Open
  <2>4. Executor!Move(Head(queue), "accepted", "running")
    BY <2>1, <2>2, <2>3, AbstractMove DEF ExecutorState, Stages, IInv, Control
  <2> QED
    BY <2>1, <2>4 DEF Executor!Next, Executor!Begin
<1>11. ASSUME NEW w \in Workers, TaskReturns(w) PROVE [Executor!Next]_(Executor!vars)
  <2>1. cur[w] \in Tasks /\ stage[cur[w]] = "running"
    BY <1>11, WorkerHands DEF TaskReturns, Busy
  <2>2. stage' = [stage EXCEPT ![cur[w]] = "ran"] /\ phase' = phase
    BY <1>11, AbstractStutter DEF TaskReturns, owner, ExecutorState
  <2>3. Open /\ Open'
    BY <1>11, <2>2, OpenWhileUsed DEF TaskReturns, Open
  <2>4. Executor!Move(cur[w], "running", "finished")
    BY <2>1, <2>2, <2>3, AbstractMove DEF ExecutorState, Stages, IInv, Control
  <2> QED
    BY <2>1, <2>4 DEF Executor!Next, Executor!Finish
<1>12. ASSUME NEW w \in Workers, WorkerCompletes(w) PROVE [Executor!Next]_(Executor!vars)
  <2>1. cur[w] \in Tasks /\ stage[cur[w]] = "ran"
    BY <1>12, WorkerHands DEF WorkerCompletes, Busy
  <2>2. stage' = [stage EXCEPT ![cur[w]] = "done"] /\ phase' = phase
    BY <1>12, AbstractStutter DEF WorkerCompletes, owner, ExecutorState
  <2>3. stage'[cur[w]] = "done" /\ \A t \in Tasks \ {cur[w]} : stage'[t] = stage[t]
    BY <2>1, <2>2 DEF IInv, Control, TypeOK
  <2>4. \A t \in Tasks : ExecutorState(t)' = ExecutorState(t)
    BY <2>1, <2>3 DEF ExecutorState
  <2> QED
    BY <2>2, <2>4, AbstractStutter DEF Open
<1>13. ASSUME NEW w \in Workers, WorkerEnqueues(w) PROVE [Executor!Next]_(Executor!vars)
  <2>1. adding[w] \in Tasks /\ stage[adding[w]] = "counted"
    BY <1>13, WorkerHands DEF WorkerEnqueues, Busy
  <2>2. stage' = [stage EXCEPT ![adding[w]] = "queued"] /\ phase' = phase
    BY <1>13, AbstractStutter DEF WorkerEnqueues, EnqueueTask, owner, ExecutorState
  <2>3. stage'[adding[w]] = "queued" /\ \A t \in Tasks \ {adding[w]} : stage'[t] = stage[t]
    BY <2>1, <2>2 DEF IInv, Control, TypeOK
  <2>4. \A t \in Tasks : ExecutorState(t)' = ExecutorState(t)
    BY <2>1, <2>3 DEF ExecutorState
  <2> QED
    BY <2>2, <2>4, AbstractStutter DEF Open
<1>14. ASSUME NEW w \in Workers, NEW t \in Tasks, WorkerCounts(w, t) PROVE
     [Executor!Next]_(Executor!vars)
  <2>1. t \in Tasks /\ stage[t] = "new"
    BY <1>14, AbstractStutter DEF WorkerCounts, CountTask, ExecutorState
  <2>2. stage' = [stage EXCEPT ![t] = "counted"] /\ phase' = phase
    BY <1>14, AbstractStutter DEF WorkerCounts, CountTask, owner, ExecutorState
  <2>3. Open /\ Open'
    BY <1>14, <2>2, OpenWhileUsed DEF WorkerCounts, CountTask, Open
  <2>4. Executor!Move(t, "new", "accepted")
    BY <2>1, <2>2, <2>3, AbstractMove DEF ExecutorState, Stages, IInv, Control
  <2> QED
    BY <2>1, <2>4 DEF Executor!Next, Executor!Accept
<1>15. ASSUME NEW w \in Workers, WorkerSpuriousWake(w) PROVE [Executor!Next]_(Executor!vars)
  BY <1>15, AbstractStutter DEF WorkerSpuriousWake, ExecutorState
<1>16. ASSUME NEW c \in Clients, ClientEnqueues(c) PROVE [Executor!Next]_(Executor!vars)
  <2>1. adding[c] \in Tasks /\ stage[adding[c]] = "counted"
    BY <1>16, ClientHands DEF ClientEnqueues, Busy
  <2>2. stage' = [stage EXCEPT ![adding[c]] = "queued"] /\ phase' = phase
    BY <1>16, AbstractStutter DEF ClientEnqueues, EnqueueTask, owner, ExecutorState
  <2>3. stage'[adding[c]] = "queued" /\ \A t \in Tasks \ {adding[c]} : stage'[t] = stage[t]
    BY <2>1, <2>2 DEF IInv, Control, TypeOK
  <2>4. \A t \in Tasks : ExecutorState(t)' = ExecutorState(t)
    BY <2>1, <2>3 DEF ExecutorState
  <2> QED
    BY <2>2, <2>4, AbstractStutter DEF Open
<1>17. ASSUME NEW c \in Clients, ClientTests(c) PROVE [Executor!Next]_(Executor!vars)
  BY <1>17, AbstractStutter DEF ClientTests, ExecutorState
<1>18. ASSUME NEW c \in Clients, ClientTimesOut(c) PROVE [Executor!Next]_(Executor!vars)
  BY <1>18, AbstractStutter DEF ClientTimesOut, ExecutorState
<1>19. ASSUME NEW c \in Clients, ClientReturns(c) PROVE [Executor!Next]_(Executor!vars)
  BY <1>19, AbstractStutter DEF ClientReturns, ExecutorState
<1>20. ASSUME NEW c \in Clients, NEW t \in Tasks, ClientCounts(c, t) PROVE
     [Executor!Next]_(Executor!vars)
  <2>1. t \in Tasks /\ stage[t] = "new"
    BY <1>20, AbstractStutter DEF ClientCounts, CountTask, ExecutorState
  <2>2. stage' = [stage EXCEPT ![t] = "counted"] /\ phase' = phase
    BY <1>20, AbstractStutter DEF ClientCounts, CountTask, owner, ExecutorState
  <2>3. Open /\ Open'
    BY <1>20, <2>2, OpenWhileUsed DEF ClientCounts, CountTask, Open
  <2>4. Executor!Move(t, "new", "accepted")
    BY <2>1, <2>2, <2>3, AbstractMove DEF ExecutorState, Stages, IInv, Control
  <2> QED
    BY <2>1, <2>4 DEF Executor!Next, Executor!Accept
<1>21. ASSUME NEW c \in Clients, NEW pc \in {"wait", "timed"}, ClientCallsWait(c, pc)
     PROVE [Executor!Next]_(Executor!vars)
  BY <1>21, AbstractStutter DEF ClientCallsWait, ExecutorState
<1>22. ASSUME NEW c \in Clients, ClientSpuriousWake(c) PROVE [Executor!Next]_(Executor!vars)
  BY <1>22, AbstractStutter DEF ClientSpuriousWake, ExecutorState
<1>23. ASSUME NEW c \in Clients, DeadlinePasses(c) PROVE [Executor!Next]_(Executor!vars)
  BY <1>23, AbstractStutter DEF DeadlinePasses, ExecutorState
<1>24. ASSUME NEW t \in Tasks, TaskRefused(t) PROVE [Executor!Next]_(Executor!vars)
  <2>1. t \in Tasks /\ stage[t] = "new"
    BY <1>24, AbstractStutter DEF TaskRefused, ExecutorState
  <2>2. stage' = [stage EXCEPT ![t] = "refused"] /\ phase' = phase
    BY <1>24, AbstractStutter DEF TaskRefused, owner, ExecutorState
  <2>3. Open /\ Open'
    BY <1>24, <2>2, OpenWhileUsed DEF TaskRefused, Open
  <2>4. Executor!Move(t, "new", "refused")
    BY <2>1, <2>2, <2>3, AbstractMove DEF ExecutorState, Stages, IInv, Control
  <2> QED
    BY <2>1, <2>4 DEF Executor!Next, Executor!Refuse
<1>25. CASE UNCHANGED vars
  BY <1>25, AbstractStutter DEF vars, ExecutorState
<1> HIDE DEF owner, Open
<1> QED
  BY <1>1, <1>2, <1>3, <1>4, <1>5, <1>6, <1>7, <1>8, <1>9, <1>10, <1>11, <1>12, <1>13,
       <1>14, <1>15, <1>16, <1>17, <1>18, <1>19, <1>20, <1>21, <1>22, <1>23, <1>24, <1>25,
     StepCases

\* thread_pool.c implements the executor's safety: a task is accepted before it
\* starts, starts once, finishes once, and the pool goes only when none is owed.
THEOREM Refinement == Spec => ImplementsExecutor
<1>1. Init => Executor!Init
  BY DEF Init, Executor!Init, ExecutorState
<1>2. IInv /\ [Next]_vars => [Executor!Next]_(Executor!vars)
  BY RefinementStep
<1> QED
  BY <1>1, <1>2, Invariance, PTL DEF Spec, ImplementsExecutor, Executor!Spec

-----------------------------------------------------------------------------
(* The HTTP server                                                         *)

\* A server whose pool may still have jobs of its connections
Working == {"accept", "flag", "dispatch", "inline", "drain"}

\* What a connection's state says of the server whose socket it reached
InHands(c) ==
  /\ conn[c] = "new" => at[c] = None
  /\ conn[c] = "backlog" => at[c] \in Servers
  /\ conn[c] = "accepted" =>
       at[c] \in Servers /\ server[at[c]] \in {"flag", "dispatch"} /\ got[at[c]] = c
  /\ conn[c] = "inline" =>
       at[c] \in Servers /\ server[at[c]] = "inline" /\ got[at[c]] = c
  /\ conn[c] \in {"queued", "serving"} => at[c] \in Servers /\ server[at[c]] \in Working

\* What a server's place says of the connection that it holds
Holds(s) ==
  /\ server[s] = "flag" /\ got[s] # None => conn[got[s]] = "accepted" /\ at[got[s]] = s
  /\ server[s] = "dispatch" => got[s] # None /\ conn[got[s]] = "accepted" /\ at[got[s]] = s
  /\ server[s] = "inline" => got[s] # None /\ conn[got[s]] = "inline" /\ at[got[s]] = s

\* Every connection is in the hands of the backlog, the accept loop or the pool of the
\* one server it reached, and a stop that has yet to wake has not connected.
HandsInv ==
  /\ Srv!TypeOK
  /\ srv_listening => srv_port # None
  /\ \A c \in Srv!Conns : InHands(c)
  /\ \A s \in Servers : Holds(s)
  /\ \A p \in Stops : stop[p] # "returned" => conn[p] = "new"

Active(s) == server[s] \notin {"off", "returned"}
Published == {"published", "accept", "flag", "dispatch", "inline", "drain", "unpublish"}

\* The static variables describe the one server that has not returned, and the run flag
\* stays clear from a stop until that server has.
FlagsInv ==
  /\ \A r, s \in Servers : Active(r) /\ Active(s) => r = s
  /\ srv_listening => srv_port # None /\ server[srv_port] \in Published
  /\ \A s \in Servers :
       /\ server[s] \in Published => srv_listening /\ srv_port = s
       /\ s \in told => server[s] \notin {"off", "bound"}
       /\ s \in told /\ Active(s) => ~server_running

-----------------------------------------------------------------------------
(* Whose hands a connection is in                                          *)

LEMMA HandsInvInit == Srv!Init => HandsInv
<1> SUFFICES ASSUME Srv!Init PROVE HandsInv
  OBVIOUS
<1>1. server_running \in BOOLEAN /\ srv_listening \in BOOLEAN /\ ~srv_listening
  BY Zenon DEF Srv!Init
<1>2. Srv!TypeOK
  BY <1>1 DEF Srv!Init, Srv!TypeOK, Srv!Conns, Srv!Bound
<1> QED
  BY <1>1, <1>2, HttpServerAssumption DEF Srv!Init, HandsInv, InHands, Holds, Srv!Conns

\* The steps of a server
LEMMA HandsInvServer ==
  ASSUME HandsInv, NEW s \in Servers,
         Srv!StartServer(s) \/ Srv!ServerStep(s) \/ Srv!AcceptError(s)
  PROVE  HandsInv'
<1> USE HttpServerAssumption DEF HandsInv, InHands, Holds, Srv!TypeOK, Srv!Goto, Srv!Becomes, Srv!flags, Srv!Bound, Working, Srv!Conns
<1>1. CASE Srv!StartServer(s)
  BY <1>1 DEF Srv!StartServer
<1>2. CASE Srv!PublishServer(s)
  <2>1. server_running' \in BOOLEAN /\ srv_listening' \in BOOLEAN
    BY <1>2, Zenon DEF Srv!PublishServer
  <2> QED
    BY <1>2, <2>1 DEF Srv!PublishServer
<1>3. CASE Srv!CreatePool(s)
  <2>1. server_running' \in BOOLEAN /\ srv_listening' \in BOOLEAN
    BY <1>3, Zenon DEF Srv!CreatePool
  <2>2. srv_listening' => srv_listening
    BY <1>3, Zenon DEF Srv!CreatePool
  <2> QED
    BY <1>3, <2>1, <2>2 DEF Srv!CreatePool
<1>4. CASE Srv!Accept(s)
  BY <1>4 DEF Srv!Accept, Srv!Backlog
<1>5. CASE Srv!AcceptError(s)
  BY <1>5 DEF Srv!AcceptError
<1>6. CASE Srv!ReadRunFlag(s)
  BY <1>6 DEF Srv!ReadRunFlag
<1>7. CASE Srv!Dispatch(s)
  BY <1>7 DEF Srv!Dispatch
<1>8. CASE Srv!ServeInline(s)
  BY <1>8 DEF Srv!ServeInline
<1>9. CASE Srv!Drain(s)
  BY <1>9 DEF Srv!Drain, Srv!InFlight
<1>10. CASE Srv!Unpublish(s)
  <2>1. srv_listening' \in BOOLEAN /\ ~srv_listening'
    BY <1>10, Zenon DEF Srv!Unpublish
  <2> QED
    BY <1>10, <2>1 DEF Srv!Unpublish
<1>11. CASE Srv!CloseListener(s)
  BY <1>11 DEF Srv!CloseListener, Srv!Backlog
<1> QED
  BY <1>1, <1>2, <1>3, <1>4, <1>5, <1>6, <1>7, <1>8, <1>9, <1>10, <1>11 DEF Srv!ServerStep

\* The steps of a stop and its waker
LEMMA HandsInvStop ==
  ASSUME HandsInv, NEW p \in Stops, Srv!ClearRunFlag(p) \/ Srv!Wake(p)
  PROVE  HandsInv'
<1> USE HttpServerAssumption DEF HandsInv, InHands, Holds, Srv!TypeOK, Srv!Becomes, Srv!flags, Working, Srv!Conns
<1>1. CASE Srv!ClearRunFlag(p)
  <2>1. server_running' \in BOOLEAN /\ srv_listening' \in BOOLEAN
    BY <1>1, Zenon DEF Srv!ClearRunFlag
  <2>2. told' \subseteq Servers /\ target' \in [Stops -> Servers \cup {None}]
    BY <1>1 DEF Srv!ClearRunFlag
  <2> QED
    BY <1>1, <2>1, <2>2 DEF Srv!ClearRunFlag
<1>2. CASE Srv!Wake(p)
  BY <1>2 DEF Srv!Wake
<1> QED
  BY <1>1, <1>2

\* The steps of a client's connection and of the worker that serves it
LEMMA HandsInvConn ==
  ASSUME HandsInv, NEW c \in Srv!Conns, (c \in Visitors /\ Srv!Connect(c)) \/ Srv!BeginConn(c) \/ Srv!FinishConn(c)
  PROVE  HandsInv'
<1> USE HttpServerAssumption DEF HandsInv, InHands, Holds, Srv!TypeOK, Srv!Becomes, Srv!flags, Working, Srv!Conns
<1>1. CASE c \in Visitors /\ Srv!Connect(c)
  BY <1>1 DEF Srv!Connect
<1>2. CASE Srv!BeginConn(c)
  BY <1>2 DEF Srv!BeginConn
<1>3. CASE Srv!FinishConn(c)
  BY <1>3 DEF Srv!FinishConn
<1> QED
  BY <1>1, <1>2, <1>3

LEMMA HandsInvStep == HandsInv /\ [Srv!Next]_(Srv!vars) => HandsInv'
<1> SUFFICES ASSUME HandsInv, [Srv!Next]_(Srv!vars) PROVE HandsInv'
  OBVIOUS
<1>1. CASE UNCHANGED Srv!vars
  BY <1>1 DEF Srv!vars, HandsInv, InHands, Holds, Srv!TypeOK
<1>2. CASE Srv!Next
  BY <1>1, <1>2, HandsInvServer, HandsInvStop, HandsInvConn DEF Srv!Next, Srv!Done, Srv!Conns
<1> QED
  BY <1>1, <1>2

LEMMA StepsOfServer == ASSUME [MCNext]_allVars PROVE [Srv!Next]_(Srv!vars)
BY DEF MCNext, allVars, http, PoolTakes, ServerTakes, Srv!vars

LEMMA ServerSteps == [MCNext]_allVars => [Srv!Next]_(Srv!vars)
BY StepsOfServer

\* Every connection is in one pair of hands, however servers, stops and clients interleave.
THEOREM ConnectionsHeld == MCSpec => []HandsInv
<1>1. MCInit => HandsInv
  BY HandsInvInit DEF MCInit
<1>2. HandsInv /\ [MCNext]_allVars => HandsInv'
  BY StepsOfServer, HandsInvStep
<1> QED
  BY <1>1, <1>2, PTL DEF MCSpec

\* When a server returns it has closed every connection it took, and none of its jobs is
\* left on the pool it has destroyed.
THEOREM ServerDrained == MCSpec => []DrainedBeforeReturn
<1>1. HandsInv => DrainedBeforeReturn
  BY DEF DrainedBeforeReturn, HandsInv, InHands, Working, Srv!DrainedBeforeReturn
<1> QED
  BY <1>1, ConnectionsHeld, PTL

\* A connection that was answered or closed is never touched again.
THEOREM ClosedForGood == MCSpec => Srv!ClosedOnce
<1>1. HandsInv /\ [Srv!Next]_(Srv!vars) =>
        [\A c \in Srv!Conns : conn[c] \in {"served", "servedInline", "dropped"} => conn'[c] = conn[c]]_(Srv!vars)
  <2> SUFFICES ASSUME HandsInv, Srv!Next, NEW c \in Srv!Conns,
                      conn[c] \in {"served", "servedInline", "dropped"}
               PROVE  conn'[c] = conn[c]
    BY DEF Srv!vars
  <2>1. \A d, e : d # c /\ Srv!Becomes(d, e) => conn'[c] = conn[c]
    BY DEF HandsInv, Srv!TypeOK, Srv!Becomes
  <2>2. ASSUME NEW s \in Servers, Srv!StartServer(s) \/ Srv!ServerStep(s) \/ Srv!AcceptError(s)
        PROVE  conn'[c] = conn[c]
    BY <2>1, <2>2 DEF Srv!StartServer, Srv!ServerStep, Srv!AcceptError, Srv!PublishServer, Srv!CreatePool, Srv!Accept, Srv!ReadRunFlag,
         Srv!Dispatch, Srv!ServeInline, Srv!Drain, Srv!Unpublish, Srv!CloseListener, HandsInv, Holds, Srv!Backlog
  <2>3. ASSUME NEW p \in Stops, Srv!ClearRunFlag(p) \/ Srv!Wake(p)
        PROVE  conn'[c] = conn[c]
    BY <2>1, <2>3 DEF Srv!ClearRunFlag, Srv!Wake, HandsInv
  <2>4. ASSUME NEW d \in Srv!Conns, (d \in Visitors /\ Srv!Connect(d)) \/ Srv!BeginConn(d) \/ Srv!FinishConn(d)
        PROVE  conn'[c] = conn[c]
    BY <2>1, <2>4 DEF Srv!Connect, Srv!BeginConn, Srv!FinishConn
  <2> QED
    BY <2>2, <2>3, <2>4 DEF Srv!Next, Srv!Done, Srv!vars, Srv!Conns
<1> QED
  BY <1>1, ServerSteps, ConnectionsHeld, PTL DEF MCSpec, Srv!ClosedOnce

-----------------------------------------------------------------------------
(* What the static variables say                                           *)

LEMMA FlagsInvInit == Srv!Init => FlagsInv
BY DEF Srv!Init, FlagsInv, Active, Published

\* Servers that run one after the other, and stops at any moment
LEMMA FlagsInvStep ==
  ASSUME ~Overlap, HandsInv, FlagsInv, [Srv!Next]_(Srv!vars)
  PROVE  FlagsInv'
<1> USE HttpServerAssumption DEF FlagsInv, Active, Published, HandsInv, Srv!TypeOK, Srv!Goto, Srv!flags, Srv!Bound
<1>1. ASSUME NEW s \in Servers, Srv!StartServer(s) PROVE FlagsInv'
  BY <1>1 DEF Srv!StartServer
<1>2. ASSUME NEW s \in Servers, Srv!PublishServer(s) PROVE FlagsInv'
  BY <1>2 DEF Srv!PublishServer
<1>3. ASSUME NEW s \in Servers, Srv!CreatePool(s) PROVE FlagsInv'
  BY <1>3 DEF Srv!CreatePool
<1>4. ASSUME NEW s \in Servers, Srv!Accept(s) PROVE FlagsInv'
  BY <1>4 DEF Srv!Accept
<1>5. ASSUME NEW s \in Servers, Srv!AcceptError(s) PROVE FlagsInv'
  BY <1>5 DEF Srv!AcceptError
<1>6. ASSUME NEW s \in Servers, Srv!ReadRunFlag(s) PROVE FlagsInv'
  BY <1>6 DEF Srv!ReadRunFlag
<1>7. ASSUME NEW s \in Servers, Srv!Dispatch(s) PROVE FlagsInv'
  BY <1>7 DEF Srv!Dispatch
<1>8. ASSUME NEW s \in Servers, Srv!ServeInline(s) PROVE FlagsInv'
  BY <1>8 DEF Srv!ServeInline
<1>9. ASSUME NEW s \in Servers, Srv!Drain(s) PROVE FlagsInv'
  BY <1>9 DEF Srv!Drain
<1>10. ASSUME NEW s \in Servers, Srv!Unpublish(s) PROVE FlagsInv'
  BY <1>10 DEF Srv!Unpublish
<1>11. ASSUME NEW s \in Servers, Srv!CloseListener(s) PROVE FlagsInv'
  BY <1>11 DEF Srv!CloseListener
<1>12. ASSUME NEW p \in Stops, Srv!ClearRunFlag(p) PROVE FlagsInv'
  BY <1>12 DEF Srv!ClearRunFlag
<1>13. CASE \/ \E p \in Stops : Srv!Wake(p)
            \/ \E c \in Visitors : Srv!Connect(c)
            \/ \E c \in Srv!Conns : Srv!BeginConn(c) \/ Srv!FinishConn(c)
            \/ UNCHANGED Srv!vars
  BY <1>13 DEF Srv!Wake, Srv!Connect, Srv!BeginConn, Srv!FinishConn, Srv!vars
<1> QED
  BY <1>1, <1>2, <1>3, <1>4, <1>5, <1>6, <1>7, <1>8, <1>9, <1>10, <1>11, <1>12, <1>13 DEF Srv!Next, Srv!ServerStep, Srv!Done

\* If no server is started before the previous one returned, the published port is that
\* of the socket that listens, for as long as connections are accepted.
THEOREM PublishedStaysOpen == ~Overlap => (MCSpec => []PublishedIsOpen)
<1> SUFFICES ASSUME ~Overlap PROVE MCSpec => []PublishedIsOpen
  OBVIOUS
<1>0. MCInit => Srv!Init
  BY DEF MCInit
<1>1. HandsInv /\ FlagsInv /\ [MCNext]_allVars => FlagsInv'
  BY StepsOfServer, FlagsInvStep
<1>2. HandsInv /\ FlagsInv => PublishedIsOpen
  BY DEF PublishedIsOpen, HandsInv, FlagsInv, Srv!PublishedIsOpen, Published, Srv!Bound
<1> QED
  BY <1>0, <1>1, <1>2, FlagsInvInit, ConnectionsHeld, PTL DEF MCSpec

\* And a server that was told to stop dispatches nothing that it accepts afterwards.
THEOREM StopsStick == ~Overlap => (MCSpec => StopSticks)
<1> SUFFICES ASSUME ~Overlap PROVE MCSpec => StopSticks
  OBVIOUS
<1>0. MCInit => Srv!Init
  BY DEF MCInit
<1>1. HandsInv /\ FlagsInv /\ [MCNext]_allVars => FlagsInv'
  BY StepsOfServer, FlagsInvStep
<1>2. HandsInv /\ FlagsInv /\ [Srv!Next]_(Srv!vars) =>
        [\A s \in told : server[s] = "flag" => server'[s] # "dispatch"]_(Srv!vars)
  <2> SUFFICES ASSUME HandsInv, FlagsInv, Srv!Next, NEW s \in told, server[s] = "flag"
               PROVE  server'[s] # "dispatch"
    BY DEF Srv!vars
  <2>1. s \in Servers /\ ~server_running
    BY DEF HandsInv, Srv!TypeOK, FlagsInv, Active
  <2>2. \A r, next : r # s /\ Srv!Goto(r, next) => server'[s] = "flag"
    BY DEF HandsInv, Srv!TypeOK, Srv!Goto
  <2>3. ASSUME NEW r \in Servers, Srv!StartServer(r) \/ Srv!ServerStep(r) \/ Srv!AcceptError(r)
        PROVE  server'[s] # "dispatch"
    BY <2>1, <2>2, <2>3 DEF Srv!StartServer, Srv!ServerStep, Srv!AcceptError, Srv!PublishServer, Srv!CreatePool, Srv!Accept,
         Srv!ReadRunFlag, Srv!Dispatch, Srv!ServeInline, Srv!Drain, Srv!Unpublish, Srv!CloseListener, Srv!Goto, HandsInv, Srv!TypeOK
  <2> QED
    BY <2>3 DEF Srv!Next, Srv!Done, Srv!vars, Srv!ClearRunFlag, Srv!Wake, Srv!Connect, Srv!BeginConn, Srv!FinishConn
<1> QED
  BY <1>0, <1>1, <1>2, FlagsInvInit, ConnectionsHeld, ServerSteps, PTL DEF MCSpec, StopSticks, Srv!StopSticks

-----------------------------------------------------------------------------
(* Each server's jobs are those of a task executor                         *)

\* What a connection's state means to the pool of server s, before and after a step
LEMMA JobStates ==
  ASSUME NEW s \in Servers, NEW c \in Srv!Conns
  PROVE  /\ at[c] # s => Srv!JobState(s, c) = "new"
         /\ at[c] = s /\ conn[c] = "queued" => Srv!JobState(s, c) = "accepted"
         /\ at[c] = s /\ conn[c] = "serving" => Srv!JobState(s, c) = "running"
         /\ at[c] = s /\ conn[c] = "served" => Srv!JobState(s, c) = "finished"
         /\ at[c] = s /\ conn[c] \in {"inline", "servedInline"} => Srv!JobState(s, c) = "refused"
         /\ conn[c] \in {"new", "backlog", "accepted", "dropped"} => Srv!JobState(s, c) = "new"
<1>1. CASE at[c] # s
  BY <1>1 DEF Srv!JobState
<1>2. CASE at[c] = s
  BY <1>2 DEF Srv!JobState
<1> QED
  BY <1>1, <1>2

LEMMA JobStatesNext ==
  ASSUME NEW s \in Servers, NEW c \in Srv!Conns
  PROVE  /\ at'[c] # s => Srv!JobState(s, c)' = "new"
         /\ at'[c] = s /\ conn'[c] = "queued" => Srv!JobState(s, c)' = "accepted"
         /\ at'[c] = s /\ conn'[c] = "serving" => Srv!JobState(s, c)' = "running"
         /\ at'[c] = s /\ conn'[c] = "served" => Srv!JobState(s, c)' = "finished"
         /\ at'[c] = s /\ conn'[c] \in {"inline", "servedInline"} => Srv!JobState(s, c)' = "refused"
         /\ conn'[c] \in {"new", "backlog", "accepted", "dropped"} => Srv!JobState(s, c)' = "new"
<1>1. CASE at'[c] # s
  BY <1>1 DEF Srv!JobState
<1>2. CASE at'[c] = s
  BY <1>2 DEF Srv!JobState
<1> QED
  BY <1>1, <1>2

LEMMA JobStateKept ==
  ASSUME NEW s \in Servers, NEW c \in Srv!Conns, at'[c] = at[c], conn'[c] = conn[c]
  PROVE  Srv!JobState(s, c)' = Srv!JobState(s, c)
BY DEF Srv!JobState

LEMMA PoolInit == Srv!Init => \A s \in Servers : Pool(s)!Init
BY HttpServerAssumption DEF Srv!Init, Pool!Init, Srv!PoolOpen, Srv!JobState, Srv!Conns

\* A step that changes no job
LEMMA PoolStutters ==
  ASSUME NEW s \in Servers, Srv!PoolOpen(s)' = Srv!PoolOpen(s),
         \A c \in Srv!Conns : Srv!JobState(s, c)' = Srv!JobState(s, c)
  PROVE  UNCHANGED Pool(s)!vars
BY DEF Pool!vars

\* A step that moves one job of an open pool along
LEMMA PoolMoves ==
  ASSUME NEW s \in Servers, NEW c \in Srv!Conns, Srv!PoolOpen(s), Srv!PoolOpen(s)',
         \A d \in Srv!Conns \ {c} : Srv!JobState(s, d)' = Srv!JobState(s, d),
         \/ Srv!JobState(s, c) = "new" /\ Srv!JobState(s, c)' \in {"accepted", "refused"}
         \/ Srv!JobState(s, c) = "accepted" /\ Srv!JobState(s, c)' = "running"
         \/ Srv!JobState(s, c) = "running" /\ Srv!JobState(s, c)' = "finished"
  PROVE  Pool(s)!Next
<1>1. ASSUME NEW from, NEW to, Srv!JobState(s, c) = from, Srv!JobState(s, c)' = to
      PROVE  Pool(s)!Move(c, from, to)
  BY <1>1 DEF Pool!Move
<1> QED
  BY <1>1 DEF Pool!Next, Pool!Accept, Pool!Refuse, Pool!Begin, Pool!Finish

\* A step that closes a pool without jobs
LEMMA PoolCloses ==
  ASSUME NEW s \in Servers, Srv!PoolOpen(s), ~Srv!PoolOpen(s)',
         \A c \in Srv!Conns : /\ Srv!JobState(s, c) \notin {"accepted", "running"}
                              /\ Srv!JobState(s, c)' = Srv!JobState(s, c)
  PROVE  Pool(s)!Next
BY DEF Pool!Next, Pool!Close

\* The steps of server r as steps of server s's pool
LEMMA PoolServerStep ==
  ASSUME HandsInv, NEW r \in Servers, NEW s \in Servers,
         Srv!StartServer(r) \/ Srv!ServerStep(r) \/ Srv!AcceptError(r)
  PROVE  Pool(s)!Next \/ UNCHANGED Pool(s)!vars
<1> USE DEF HandsInv, Srv!TypeOK, Srv!Goto, Srv!flags
<1>1. ASSUME UNCHANGED <<conn, at>>, server' = [server EXCEPT ![r] = server'[r]],
             Srv!PoolOpen(r) /\ ~Srv!PoolOpen(r)' => server[r] \notin Working \/ Srv!InFlight(r) = {},
             Srv!PoolOpen(r)' => Srv!PoolOpen(r)
      PROVE  Pool(s)!Next \/ UNCHANGED Pool(s)!vars
  <2>1. \A c \in Srv!Conns : Srv!JobState(s, c)' = Srv!JobState(s, c)
    BY <1>1, JobStateKept
  <2>2. CASE Srv!PoolOpen(s)' = Srv!PoolOpen(s)
    BY <2>1, <2>2, PoolStutters
  <2>3. CASE Srv!PoolOpen(s)' # Srv!PoolOpen(s)
    <3>1. r = s /\ Srv!PoolOpen(s) /\ ~Srv!PoolOpen(s)'
      BY <2>3, <1>1 DEF Srv!PoolOpen
    <3>2. \A c \in Srv!Conns : at[c] = s => conn[c] \notin {"queued", "serving"}
      BY <3>1, <1>1 DEF InHands, Srv!InFlight
    <3>3. \A c \in Srv!Conns : Srv!JobState(s, c) \notin {"accepted", "running"}
      BY <3>2, JobStates
    <3> QED
      BY <2>1, <3>1, <3>3, PoolCloses
  <2> QED
    BY <2>2, <2>3
<1>2. ASSUME NEW c \in Srv!Conns, at' = at, conn' = [conn EXCEPT ![c] = conn'[c]],
             conn[c] \in {"backlog", "accepted", "dropped"}, conn'[c] \in {"accepted", "dropped"},
             server' = [server EXCEPT ![r] = server'[r]], Srv!PoolOpen(r), Srv!PoolOpen(r)'
      PROVE  UNCHANGED Pool(s)!vars
  <2>1. \A d \in Srv!Conns : Srv!JobState(s, d)' = Srv!JobState(s, d)
    BY <1>2, JobStateKept, JobStates, JobStatesNext
  <2>2. Srv!PoolOpen(s)' = Srv!PoolOpen(s)
    BY <1>2 DEF Srv!PoolOpen
  <2> QED
    BY <2>1, <2>2, PoolStutters
<1>3. CASE Srv!StartServer(r)
  BY <1>1, <1>3 DEF Srv!StartServer, Srv!PoolOpen, Working
<1>4. CASE Srv!PublishServer(r) \/ Srv!CreatePool(r) \/ Srv!AcceptError(r) \/ Srv!Drain(r) \/ Srv!Unpublish(r)
  BY <1>1, <1>4 DEF Srv!PublishServer, Srv!CreatePool, Srv!AcceptError, Srv!Drain, Srv!Unpublish, Srv!PoolOpen, Working
<1>5. CASE Srv!Accept(r)
  BY <1>2, <1>5 DEF Srv!Accept, Srv!Becomes, Srv!Backlog, Srv!PoolOpen
<1>6. CASE Srv!ReadRunFlag(r)
  BY <1>1, <1>2, <1>6 DEF Srv!ReadRunFlag, Srv!Becomes, Holds, Srv!PoolOpen
<1>7. CASE Srv!Dispatch(r) \/ Srv!ServeInline(r)
  <2>0. PICK c \in Srv!Conns : c = got[r]
    BY <1>7 DEF Srv!Dispatch, Srv!ServeInline, Holds
  <2>1. at[c] = r /\ conn[c] \in {"accepted", "inline"}
    BY <1>7, <2>0 DEF Srv!Dispatch, Srv!ServeInline, Holds
  <2>2. Srv!PoolOpen(s)' = Srv!PoolOpen(s) /\ Srv!PoolOpen(r) /\ Srv!PoolOpen(r)'
    BY <1>7 DEF Srv!Dispatch, Srv!ServeInline, Srv!PoolOpen
  <2>3. \A d \in Srv!Conns \ {c} : Srv!JobState(s, d)' = Srv!JobState(s, d)
    BY <1>7, <2>0, <2>1, JobStateKept DEF Srv!Dispatch, Srv!ServeInline, Srv!Becomes
  <2>4. at' = at /\ conn'[c] \in {"queued", "inline", "dropped", "servedInline"}
    BY <1>7, <2>0, <2>1 DEF Srv!Dispatch, Srv!ServeInline, Srv!Becomes
  <2>5. CASE Srv!JobState(s, c)' = Srv!JobState(s, c)
    BY <2>2, <2>3, <2>5, PoolStutters
  <2>6. CASE Srv!JobState(s, c)' # Srv!JobState(s, c)
    <3>1. r = s
      BY <2>1, <2>4, <2>6, JobStates, JobStatesNext
    <3>2. CASE Srv!Dispatch(s)
      <4>1. conn[c] = "accepted" /\ conn'[c] \in {"queued", "inline", "dropped"}
        BY <3>1, <3>2, <2>0 DEF Srv!Dispatch, Holds, Srv!Becomes
      <4>2. Srv!JobState(s, c) = "new" /\ Srv!JobState(s, c)' \in {"new", "accepted", "refused"}
        BY <3>1, <4>1, <2>1, <2>4, JobStates, JobStatesNext
      <4> QED
        BY <3>1, <4>2, <2>1, <2>2, <2>3, <2>6, PoolMoves
    <3>3. CASE Srv!ServeInline(s)
      <4>1. conn[c] = "inline" /\ conn'[c] = "servedInline"
        BY <3>1, <3>3, <2>0 DEF Srv!ServeInline, Holds, Srv!Becomes
      <4> QED
        BY <3>1, <4>1, <2>1, <2>4, <2>6, JobStates, JobStatesNext
    <3> QED
      BY <1>7, <3>1, <3>2, <3>3
  <2> QED
    BY <2>5, <2>6
<1>8. CASE Srv!CloseListener(r)
  <2>1. \A c \in Srv!Conns : Srv!JobState(s, c)' = Srv!JobState(s, c)
    BY <1>8, JobStateKept, JobStates, JobStatesNext DEF Srv!CloseListener, Srv!Backlog
  <2>2. Srv!PoolOpen(s)' = Srv!PoolOpen(s)
    BY <1>8 DEF Srv!CloseListener, Srv!PoolOpen
  <2> QED
    BY <2>1, <2>2, PoolStutters
<1> QED
  BY <1>3, <1>4, <1>5, <1>6, <1>7, <1>8 DEF Srv!ServerStep

\* The steps of everybody else
LEMMA PoolOtherStep ==
  ASSUME HandsInv, NEW s \in Servers,
         \/ \E p \in Stops : Srv!ClearRunFlag(p) \/ Srv!Wake(p)
         \/ \E c \in Visitors : Srv!Connect(c)
         \/ \E c \in Srv!Conns : Srv!BeginConn(c) \/ Srv!FinishConn(c)
  PROVE  Pool(s)!Next \/ UNCHANGED Pool(s)!vars
<1> USE DEF HandsInv, Srv!TypeOK, Srv!flags
<1>1. UNCHANGED server /\ Srv!PoolOpen(s)' = Srv!PoolOpen(s)
  BY DEF Srv!ClearRunFlag, Srv!Wake, Srv!Connect, Srv!BeginConn, Srv!FinishConn, Srv!PoolOpen
<1>2. ASSUME NEW p \in Stops, Srv!ClearRunFlag(p)
      PROVE  UNCHANGED Pool(s)!vars
  BY <1>1, <1>2, JobStateKept, PoolStutters DEF Srv!ClearRunFlag
<1>3. ASSUME NEW c \in Srv!Conns, conn[c] = "new", conn'[c] \in {"backlog", "dropped"},
             \A d \in Srv!Conns \ {c} : conn'[d] = conn[d] /\ at'[d] = at[d]
      PROVE  UNCHANGED Pool(s)!vars
  BY <1>1, <1>3, JobStateKept, JobStates, JobStatesNext, PoolStutters
<1>4. ASSUME NEW p \in Stops, Srv!Wake(p)
      PROVE  UNCHANGED Pool(s)!vars
  BY <1>3, <1>4 DEF Srv!Wake, Srv!Becomes, Srv!Conns
<1>5. ASSUME NEW c \in Visitors, Srv!Connect(c)
      PROVE  UNCHANGED Pool(s)!vars
  BY <1>3, <1>5 DEF Srv!Connect, Srv!Becomes, Srv!Conns
<1>6. ASSUME NEW c \in Srv!Conns, Srv!BeginConn(c) \/ Srv!FinishConn(c)
      PROVE  Pool(s)!Next \/ UNCHANGED Pool(s)!vars
  <2>1. at' = at /\ \A d \in Srv!Conns \ {c} : Srv!JobState(s, d)' = Srv!JobState(s, d)
    BY <1>6, JobStateKept DEF Srv!BeginConn, Srv!FinishConn, Srv!Becomes
  <2>2. \/ conn[c] = "queued" /\ conn'[c] = "serving"
        \/ conn[c] = "serving" /\ conn'[c] = "served"
    BY <1>6 DEF Srv!BeginConn, Srv!FinishConn, Srv!Becomes
  <2>3. CASE at[c] # s
    BY <2>1, <2>3, <1>1, JobStates, JobStatesNext, PoolStutters
  <2>4. CASE at[c] = s
    <3>1. Srv!PoolOpen(s) /\ Srv!PoolOpen(s)'
      BY <2>2, <2>4, <1>1 DEF InHands, Working, Srv!PoolOpen
    <3> QED
      BY <2>1, <2>2, <2>4, <3>1, JobStates, JobStatesNext, PoolMoves
  <2> QED
    BY <2>3, <2>4
<1> QED
  BY <1>2, <1>4, <1>5, <1>6

\* Every server uses its pool as the abstract executor allows, and closes no connection
\* twice: a job is begun once, by the pool or by the accept loop, and the pool is closed
\* when it owes nothing.  That holds even of servers that overlap.
THEOREM PoolRefined == MCSpec => ServedOnce
<1>0. MCInit => Srv!Init
  BY DEF MCInit
<1>1. HandsInv /\ [MCNext]_allVars => [\A s \in Servers : [Pool(s)!Next]_(Pool(s)!vars)]_allVars
  <2> SUFFICES ASSUME HandsInv, [Srv!Next]_(Srv!vars), NEW s \in Servers
               PROVE  Pool(s)!Next \/ UNCHANGED Pool(s)!vars
    BY StepsOfServer
  <2>1. CASE Srv!Done \/ UNCHANGED Srv!vars
    BY <2>1, JobStateKept, PoolStutters DEF Srv!Done, Srv!vars, Srv!PoolOpen
  <2> QED
    BY <2>1, PoolServerStep, PoolOtherStep DEF Srv!Next
<1> QED
  BY <1>0, <1>1, PoolInit, ConnectionsHeld, ClosedForGood, PTL DEF MCSpec, ServedOnce, UsesPoolAsExecutor

===============================================================================
