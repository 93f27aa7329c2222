--------------------------- MODULE PrimitivesProofs ---------------------------
(***************************************************************************)
(* Safety of the primitives that concurrent/concurrent.c builds itself:    *)
(* the read-write lock, call_once and the condition variable for any       *)
(* number of threads, and thread-specific storage for any values and any   *)
(* number of passes.  A behaviour of MCPrimitives is, for each primitive,  *)
(* one of its own specification, so what is proved of that holds of all of *)
(* them; the lock's theorems are about RWLock's specification itself.      *)
(***************************************************************************)
EXTENDS MCPrimitives, Sequences, FiniteSetTheorems, TLAPS

-----------------------------------------------------------------------------
(* The read-write lock.  The counters are shown to count the threads in    *)
(* each mode; the rest follows from them.                                  *)

\* The counters exclude each other.
Apart == active_writers = 1 => active_readers = 0

\* A reader on readers_ok has a writer to blame.
ReadersKeptOut == In("rBlocked") # {} => active_writers = 1 \/ Waiting # {}

LockInv == TypeOK /\ CountersExact /\ Apart /\ ReadersKeptOut /\ NobodyForgotten

-----------------------------------------------------------------------------
(* Counting.                                                               *)

LEMMA SubsetsFinite ==
  /\ \A s : IsFiniteSet(In(s)) /\ Cardinality(In(s)) \in Nat
  /\ IsFiniteSet(Waiting) /\ Cardinality(Waiting) \in Nat
<1>1. \A s : In(s) \in SUBSET Threads
  BY DEF In
<1>2. Waiting \in SUBSET Threads
  BY <1>1 DEF Waiting
<1> QED
  BY <1>1, <1>2, ThreadsAssumption, FS_Subset, FS_CardinalityType

\* A counter that is zero counts nobody, and the other way round.
LEMMA ZeroIsEmpty ==
  ASSUME CountersExact
  PROVE  /\ active_readers = 0 <=> In("reading") = {}
         /\ active_writers = 0 <=> In("writing") = {}
         /\ waiting_writers = 0 <=> Waiting = {}
BY SubsetsFinite, FS_EmptySet DEF CountersExact

\* A set of threads that one thread joins, leaves or that stays as it is.
Joins(t, S, T) == t \notin S /\ T = S \cup {t}
Leaves(t, S, T) == t \in S /\ T = S \ {t}

LEMMA JoinCounts ==
  ASSUME NEW S, NEW T, NEW t, IsFiniteSet(S), Joins(t, S, T)
  PROVE  Cardinality(T) = Cardinality(S) + 1
BY FS_AddElement DEF Joins

LEMMA LeaveCounts ==
  ASSUME NEW S, NEW T, NEW t, IsFiniteSet(S), Leaves(t, S, T)
  PROVE  Cardinality(T) = Cardinality(S) - 1
BY FS_RemoveElement DEF Leaves

\* What a signal does to the threads: at most one blocked writer wakes.
LEMMA SignalMoves ==
  ASSUME TypeOK, NEW t \in Threads, pc[t] # "wBlocked",
         SignalWriter([pc EXCEPT ![t] = "idle"])
  PROVE  /\ pc' \in [Threads -> States]
         /\ pc'[t] = "idle"
         /\ \A u \in Threads \ {t} : pc'[u] # pc[u] => pc[u] = "wBlocked" /\ pc'[u] = "wTest"
         /\ In("wBlocked") # {} => \E u \in Threads : pc'[u] = "wTest"
<1>1. pc \in [Threads -> States] /\ "idle" \in States /\ "wTest" \in States
  BY DEF TypeOK, States
<1>2. CASE In("wBlocked") = {}
  <2>1. pc' = [pc EXCEPT ![t] = "idle"]
    BY <1>2 DEF SignalWriter
  <2> QED
    BY <1>1, <1>2, <2>1
<1>3. CASE In("wBlocked") # {}
  <2>1. PICK b \in In("wBlocked") : pc' = [[pc EXCEPT ![t] = "idle"] EXCEPT ![b] = "wTest"]
    BY <1>3 DEF SignalWriter
  <2>2. b \in Threads /\ b # t /\ pc[b] = "wBlocked"
    BY <2>1 DEF In
  <2>3. pc'[b] = "wTest" /\ pc'[t] = "idle" /\ pc' \in [Threads -> States]
    BY <1>1, <2>1, <2>2
  <2>4. \A u \in Threads \ {t, b} : pc'[u] = pc[u]
    BY <1>1, <2>1, <2>2
  <2> QED
    BY <2>2, <2>3, <2>4
<1> QED
  BY <1>2, <1>3

-----------------------------------------------------------------------------
(* The inductive invariant.                                                *)

LEMMA InitLockInv == Init => LockInv
<1> SUFFICES ASSUME Init PROVE LockInv
  OBVIOUS
<1>1. TypeOK /\ Apart
  BY DEF Init, TypeOK, States, Apart
<1>2. In("reading") = {} /\ In("writing") = {} /\ Waiting = {} /\ In("rBlocked") = {}
  BY DEF Init, In, Waiting
<1>3. CountersExact
  BY <1>2, FS_EmptySet DEF Init, CountersExact
<1>4. NobodyForgotten
  BY <1>2 DEF NobodyForgotten
<1>5. ReadersKeptOut
  BY <1>2 DEF ReadersKeptOut
<1> QED
  BY <1>1, <1>3, <1>4, <1>5 DEF LockInv

\* The mode a thread leaves and the one it takes up decide how the counted sets
\* change, when the other threads move at most between uncounted places.
LEMMA SetsChange ==
  ASSUME NEW t \in Threads,
         \A u \in Threads \ {t} :
           pc'[u] = pc[u] \/ (pc[u] = "wBlocked" /\ pc'[u] = "wTest")
                          \/ (pc[u] = "rBlocked" /\ pc'[u] = "rTest")
  PROVE  /\ \A s \in {"reading", "writing"} :
              /\ pc[t] # s /\ pc'[t] # s => In(s)' = In(s)
              /\ pc[t] # s /\ pc'[t] = s => Joins(t, In(s), In(s)')
              /\ pc[t] = s /\ pc'[t] # s => Leaves(t, In(s), In(s)')
         /\ LET W == {"wBlocked", "wTest"}
            IN  /\ (pc[t] \in W <=> pc'[t] \in W) => Waiting' = Waiting
                /\ pc[t] \notin W /\ pc'[t] \in W => Joins(t, Waiting, Waiting')
                /\ pc[t] \in W /\ pc'[t] \notin W => Leaves(t, Waiting, Waiting')
BY DEF In, Waiting, Joins, Leaves

\* The counters follow the sets they count.
LEMMA CountersFollow ==
  ASSUME TypeOK, CountersExact, NEW t \in Threads,
         \/ In("reading")' = In("reading") /\ active_readers' = active_readers
         \/ Joins(t, In("reading"), In("reading")') /\ active_readers' = active_readers + 1
         \/ Leaves(t, In("reading"), In("reading")') /\ active_readers' = active_readers - 1,
         \/ In("writing")' = In("writing") /\ active_writers' = active_writers
         \/ Joins(t, In("writing"), In("writing")') /\ active_writers' = active_writers + 1
         \/ Leaves(t, In("writing"), In("writing")') /\ active_writers' = active_writers - 1,
         \/ Waiting' = Waiting /\ waiting_writers' = waiting_writers
         \/ Joins(t, Waiting, Waiting') /\ waiting_writers' = waiting_writers + 1
         \/ Leaves(t, Waiting, Waiting') /\ waiting_writers' = waiting_writers - 1
  PROVE  CountersExact' /\ active_readers' \in Nat /\ waiting_writers' \in Nat
<1>1. \A s \in {"reading", "writing"} : IsFiniteSet(In(s))
  BY SubsetsFinite
<1>2. active_readers' = Cardinality(In("reading")')
  BY <1>1, JoinCounts, LeaveCounts DEF CountersExact
<1>3. active_writers' = Cardinality(In("writing")')
  BY <1>1, JoinCounts, LeaveCounts DEF CountersExact
<1>4. waiting_writers' = Cardinality(Waiting')
  BY SubsetsFinite, JoinCounts, LeaveCounts DEF CountersExact
<1>5. Waiting' \in SUBSET Threads /\ In("reading")' \in SUBSET Threads
  BY DEF Waiting, In
<1>6. Cardinality(In("reading")') \in Nat /\ Cardinality(Waiting') \in Nat
  BY <1>5, ThreadsAssumption, FS_Subset, FS_CardinalityType
<1> QED
  BY <1>2, <1>3, <1>4, <1>6 DEF CountersExact

\* Steps that wake nobody: every other thread stays where it is.
LEMMA OneMoves ==
  ASSUME TypeOK, NEW t \in Threads, NEW s \in States, pc' = [pc EXCEPT ![t] = s]
  PROVE  /\ pc' \in [Threads -> States]
         /\ pc'[t] = s
         /\ \A u \in Threads \ {t} : pc'[u] = pc[u]
BY DEF TypeOK

LEMMA StepLockInv ==
  ASSUME LockInv, [Next]_vars
  PROVE  LockInv'
<1> USE DEF LockInv, TypeOK, States
<1>1. ASSUME NEW t \in Threads, StartReading(t) PROVE LockInv'
  <2>1. pc'[t] = "reading" /\ pc' \in [Threads -> States] /\ \A u \in Threads \ {t} : pc'[u] = pc[u]
    BY <1>1, OneMoves DEF StartReading
  <2>2. /\ Joins(t, In("reading"), In("reading")')
        /\ In("writing")' = In("writing") /\ Waiting' = Waiting
    BY <1>1, <2>1, SetsChange DEF StartReading
  <2>3. CountersExact' /\ active_readers' \in Nat /\ waiting_writers' \in Nat
    BY <1>1, <2>2, CountersFollow DEF StartReading
  <2>4. Apart' /\ NobodyForgotten'
    BY <1>1 DEF StartReading, ReadersMayEnter, Apart, NobodyForgotten
  <2>5. ReadersKeptOut'
    BY <1>1, <2>1, <2>2 DEF StartReading, ReadersKeptOut, In
  <2> QED
    BY <1>1, <2>1, <2>3, <2>4, <2>5 DEF StartReading
<1>2. ASSUME NEW t \in Threads, BlockReader(t) PROVE LockInv'
  <2>1. pc'[t] = "rBlocked" /\ pc' \in [Threads -> States] /\ \A u \in Threads \ {t} : pc'[u] = pc[u]
    BY <1>2, OneMoves DEF BlockReader
  <2>2. In("reading")' = In("reading") /\ In("writing")' = In("writing") /\ Waiting' = Waiting
    BY <1>2, <2>1, SetsChange DEF BlockReader
  <2>3. CountersExact' /\ active_readers' \in Nat /\ waiting_writers' \in Nat
    BY <1>2, <2>2, CountersFollow DEF BlockReader
  <2>4. active_writers = 1 \/ Waiting # {}
    BY <1>2, ZeroIsEmpty DEF BlockReader, ReadersMayEnter
  <2>5. In("wTest")' = In("wTest")
    BY <1>2, <2>1 DEF BlockReader, In
  <2>6. ReadersKeptOut' /\ NobodyForgotten' /\ Apart'
    BY <1>2, <2>2, <2>4, <2>5 DEF BlockReader, ReadersKeptOut, NobodyForgotten, Apart
  <2> QED
    BY <1>2, <2>1, <2>3, <2>6 DEF BlockReader
<1>3. ASSUME NEW t \in Threads, StartWriting(t) PROVE LockInv'
  <2>1. pc'[t] = "writing" /\ pc' \in [Threads -> States] /\ \A u \in Threads \ {t} : pc'[u] = pc[u]
    BY <1>3, OneMoves DEF StartWriting
  <2>2. /\ Joins(t, In("writing"), In("writing")')
        /\ In("reading")' = In("reading") /\ Waiting' = Waiting
    BY <1>3, <2>1, SetsChange DEF StartWriting
  <2>3. CountersExact' /\ active_readers' \in Nat /\ waiting_writers' \in Nat
    BY <1>3, <2>2, CountersFollow DEF StartWriting, WritersMayEnter
  <2>4. Apart' /\ NobodyForgotten' /\ ReadersKeptOut'
    BY <1>3 DEF StartWriting, WritersMayEnter, Apart, NobodyForgotten, ReadersKeptOut
  <2> QED
    BY <1>3, <2>1, <2>3, <2>4 DEF StartWriting
<1>4. ASSUME NEW t \in Threads, BlockWriter(t) PROVE LockInv'
  <2>1. pc'[t] = "wBlocked" /\ pc' \in [Threads -> States] /\ \A u \in Threads \ {t} : pc'[u] = pc[u]
    BY <1>4, OneMoves DEF BlockWriter
  <2>2. /\ Joins(t, Waiting, Waiting')
        /\ In("reading")' = In("reading") /\ In("writing")' = In("writing")
    BY <1>4, <2>1, SetsChange DEF BlockWriter
  <2>3. CountersExact' /\ active_readers' \in Nat /\ waiting_writers' \in Nat
    BY <1>4, <2>2, CountersFollow DEF BlockWriter
  <2>4. Apart' /\ NobodyForgotten' /\ ReadersKeptOut'
    BY <1>4, <2>2 DEF BlockWriter, WritersMayEnter, Apart, NobodyForgotten, ReadersKeptOut, Joins
  <2> QED
    BY <1>4, <2>1, <2>3, <2>4 DEF BlockWriter
<1>5. ASSUME NEW t \in Threads, WriterResumes(t) PROVE LockInv'
  <2>1. pc'[t] = "writing" /\ pc' \in [Threads -> States] /\ \A u \in Threads \ {t} : pc'[u] = pc[u]
    BY <1>5, OneMoves DEF WriterResumes
  <2>2. /\ Joins(t, In("writing"), In("writing")') /\ Leaves(t, Waiting, Waiting')
        /\ In("reading")' = In("reading")
    BY <1>5, <2>1, SetsChange DEF WriterResumes
  <2>3. CountersExact' /\ active_readers' \in Nat /\ waiting_writers' \in Nat
    BY <1>5, <2>2, CountersFollow DEF WriterResumes, WritersMayEnter
  <2>4. Apart' /\ NobodyForgotten' /\ ReadersKeptOut'
    BY <1>5 DEF WriterResumes, WritersMayEnter, Apart, NobodyForgotten, ReadersKeptOut
  <2> QED
    BY <1>5, <2>1, <2>3, <2>4 DEF WriterResumes
<1>6. ASSUME NEW t \in Threads, WriterWaitsAgain(t) PROVE LockInv'
  <2>1. pc'[t] = "wBlocked" /\ pc' \in [Threads -> States] /\ \A u \in Threads \ {t} : pc'[u] = pc[u]
    BY <1>6, OneMoves DEF WriterWaitsAgain
  <2>2. In("reading")' = In("reading") /\ In("writing")' = In("writing") /\ Waiting' = Waiting
    BY <1>6, <2>1, SetsChange DEF WriterWaitsAgain
  <2>3. CountersExact' /\ active_readers' \in Nat /\ waiting_writers' \in Nat
    BY <1>6, <2>2, CountersFollow DEF WriterWaitsAgain
  <2>4. In("rBlocked")' = In("rBlocked")
    BY <1>6, <2>1 DEF WriterWaitsAgain, In
  <2>5. Apart' /\ NobodyForgotten' /\ ReadersKeptOut'
    BY <1>6, <2>2, <2>4
       DEF WriterWaitsAgain, WritersMayEnter, Apart, NobodyForgotten, ReadersKeptOut
  <2> QED
    BY <1>6, <2>1, <2>3, <2>5 DEF WriterWaitsAgain
<1>7. ASSUME NEW t \in Threads, UnlockWrite(t) PROVE LockInv'
  <2>1. pc[t] = "writing" /\ active_writers = 1 /\ active_readers = 0
    BY <1>7 DEF UnlockWrite, Apart
  <2>2. CASE waiting_writers > 0
    <3>1. /\ pc'[t] = "idle" /\ pc' \in [Threads -> States]
          /\ \A u \in Threads \ {t} : pc'[u] # pc[u] => pc[u] = "wBlocked" /\ pc'[u] = "wTest"
          /\ In("wBlocked") # {} => \E u \in Threads : pc'[u] = "wTest"
      BY <1>7, <2>1, <2>2, SignalMoves DEF UnlockWrite
    <3>2. /\ Leaves(t, In("writing"), In("writing")')
          /\ In("reading")' = In("reading") /\ Waiting' = Waiting
      BY <2>1, <3>1, SetsChange
    <3>3. CountersExact' /\ active_readers' \in Nat /\ waiting_writers' \in Nat
      BY <1>7, <2>1, <3>2, CountersFollow DEF UnlockWrite
    <3>4. Waiting # {}
      BY <2>2, ZeroIsEmpty
    <3>5. In("wTest")' # {}
      BY <3>1, <3>4, <2>1 DEF Waiting, In
    <3>6. Apart' /\ NobodyForgotten' /\ ReadersKeptOut'
      BY <1>7, <3>2, <3>4, <3>5 DEF UnlockWrite, Apart, NobodyForgotten, ReadersKeptOut
    <3> QED
      BY <1>7, <3>1, <3>3, <3>6 DEF UnlockWrite
  <2>3. CASE ~(waiting_writers > 0)
    <3>1. pc' = [u \in Threads |-> IF pc[u] = "rBlocked" THEN "rTest" ELSE [pc EXCEPT ![t] = "idle"][u]]
      BY <1>7, <2>3 DEF UnlockWrite, BroadcastReaders
    <3>2. /\ pc'[t] = "idle" /\ pc' \in [Threads -> States]
          /\ \A u \in Threads \ {t} : pc'[u] # pc[u] => pc[u] = "rBlocked" /\ pc'[u] = "rTest"
          /\ \A u \in Threads : pc'[u] # "rBlocked"
      BY <2>1, <3>1
    <3>3. /\ Leaves(t, In("writing"), In("writing")')
          /\ In("reading")' = In("reading") /\ Waiting' = Waiting
      BY <2>1, <3>2, SetsChange
    <3>4. CountersExact' /\ active_readers' \in Nat /\ waiting_writers' \in Nat
      BY <1>7, <2>1, <3>3, CountersFollow DEF UnlockWrite
    <3>5. Waiting = {} /\ In("rBlocked")' = {}
      BY <2>3, <3>2, ZeroIsEmpty DEF In
    <3>6. Apart' /\ NobodyForgotten' /\ ReadersKeptOut'
      BY <1>7, <3>3, <3>5 DEF UnlockWrite, Apart, NobodyForgotten, ReadersKeptOut
    <3> QED
      BY <1>7, <3>2, <3>4, <3>6 DEF UnlockWrite
  <2> QED
    BY <2>2, <2>3
<1>8. ASSUME NEW t \in Threads, UnlockRead(t) PROVE LockInv'
  <2>1. pc[t] = "reading" /\ active_writers = 0
    BY <1>8 DEF UnlockRead
  <2>2. CASE active_readers' = 0 /\ waiting_writers > 0
    <3>1. /\ pc'[t] = "idle" /\ pc' \in [Threads -> States]
          /\ \A u \in Threads \ {t} : pc'[u] # pc[u] => pc[u] = "wBlocked" /\ pc'[u] = "wTest"
          /\ In("wBlocked") # {} => \E u \in Threads : pc'[u] = "wTest"
      BY <1>8, <2>1, <2>2, SignalMoves DEF UnlockRead
    <3>2. /\ Leaves(t, In("reading"), In("reading")')
          /\ In("writing")' = In("writing") /\ Waiting' = Waiting
      BY <2>1, <3>1, SetsChange
    <3>3. CountersExact' /\ active_readers' \in Nat /\ waiting_writers' \in Nat
      BY <1>8, <3>2, CountersFollow DEF UnlockRead
    <3>4. Waiting # {}
      BY <2>2, ZeroIsEmpty
    <3>5. In("wTest")' # {}
      BY <3>1, <3>4, <2>1 DEF Waiting, In
    <3>6. Apart' /\ NobodyForgotten' /\ ReadersKeptOut'
      BY <1>8, <3>2, <3>4, <3>5 DEF UnlockRead, Apart, NobodyForgotten, ReadersKeptOut
    <3> QED
      BY <1>8, <3>1, <3>3, <3>6 DEF UnlockRead
  <2>3. CASE ~(active_readers' = 0 /\ waiting_writers > 0)
    <3>1. pc'[t] = "idle" /\ pc' \in [Threads -> States] /\ \A u \in Threads \ {t} : pc'[u] = pc[u]
      BY <1>8, <2>3, OneMoves DEF UnlockRead
    <3>2. /\ Leaves(t, In("reading"), In("reading")')
          /\ In("writing")' = In("writing") /\ Waiting' = Waiting
      BY <2>1, <3>1, SetsChange
    <3>3. CountersExact' /\ active_readers' \in Nat /\ waiting_writers' \in Nat
      BY <1>8, <3>2, CountersFollow DEF UnlockRead
    <3>4. In("rBlocked")' = In("rBlocked")
      BY <2>1, <3>1 DEF In
    <3>5. Apart' /\ ReadersKeptOut'
      BY <1>8, <3>2, <3>4 DEF UnlockRead, Apart, ReadersKeptOut
    <3>6. active_readers' = 0 => Waiting = {}
      BY <2>3, ZeroIsEmpty
    <3>7. NobodyForgotten'
      BY <1>8, <3>2, <3>4, <3>6 DEF UnlockRead, NobodyForgotten, ReadersKeptOut
    <3> QED
      BY <1>8, <3>1, <3>3, <3>5, <3>7 DEF UnlockRead
  <2> QED
    BY <2>2, <2>3
<1>9. ASSUME NEW t \in Threads, SpuriousWake(t) PROVE LockInv'
  <2>1. /\ pc[t] \in {"rBlocked", "wBlocked"}
        /\ pc'[t] = IF pc[t] = "rBlocked" THEN "rTest" ELSE "wTest"
        /\ pc' \in [Threads -> States]
        /\ \A u \in Threads \ {t} : pc'[u] = pc[u]
    BY <1>9 DEF SpuriousWake
  <2>2. In("reading")' = In("reading") /\ In("writing")' = In("writing") /\ Waiting' = Waiting
    BY <2>1, SetsChange
  <2>3. CountersExact' /\ active_readers' \in Nat /\ waiting_writers' \in Nat
    BY <1>9, <2>2, CountersFollow DEF SpuriousWake
  <2>4. In("rBlocked")' \subseteq In("rBlocked") /\ In("wTest") \subseteq In("wTest")'
    BY <2>1 DEF In
  <2>5. Apart' /\ NobodyForgotten' /\ ReadersKeptOut'
    BY <1>9, <2>2, <2>4 DEF SpuriousWake, Apart, NobodyForgotten, ReadersKeptOut
  <2> QED
    BY <1>9, <2>1, <2>3, <2>5 DEF SpuriousWake
<1>10. CASE UNCHANGED vars
  BY <1>10 DEF vars, In, Waiting, CountersExact, Apart, ReadersKeptOut, NobodyForgotten
<1> QED
  BY <1>1, <1>2, <1>3, <1>4, <1>5, <1>6, <1>7, <1>8, <1>9, <1>10 DEF Next, Proceed, Call

-----------------------------------------------------------------------------
(* The theorems.                                                           *)

\* The inductive invariant holds in every reachable state.
THEOREM LockInvariance == Spec => []LockInv
<1>1. LockInv /\ [Next]_vars => LockInv'
  BY StepLockInv
<1> QED
  BY InitLockInv, <1>1, PTL DEF Spec

\* The counters keep their types: active_writers is 0 or 1, none goes negative.
THEOREM LockTypeCorrect == Spec => []TypeOK
<1>1. LockInv => TypeOK
  BY DEF LockInv
<1> QED
  BY <1>1, LockInvariance, PTL

\* rwlock_unlock can trust the counters: they count the threads in each mode.
THEOREM CountersCorrect == Spec => []CountersExact
<1>1. LockInv => CountersExact
  BY DEF LockInv
<1> QED
  BY <1>1, LockInvariance, PTL

\* A writer shares the lock with nobody, however many threads there are.
THEOREM MutualExclusion == Spec => []Exclusive
<1>1. LockInv => Exclusive
  <2> SUFFICES ASSUME LockInv, In("writing") # {}
               PROVE  In("reading") = {} /\ Cardinality(In("writing")) = 1
    BY DEF Exclusive
  <2>1. active_writers = 1
    BY ZeroIsEmpty DEF LockInv, TypeOK
  <2>2. active_readers = 0
    BY <2>1 DEF LockInv, Apart
  <2> QED
    BY <2>1, <2>2, ZeroIsEmpty DEF LockInv, CountersExact
<1> QED
  BY <1>1, LockInvariance, PTL

\* The lock is never free with nobody awake to take it.
THEOREM NoLostWakeup == Spec => []NobodyForgotten
<1>1. LockInv => NobodyForgotten
  BY DEF LockInv
<1> QED
  BY <1>1, LockInvariance, PTL

\* Readers never overtake a writer that is waiting.
THEOREM Preference == Spec => WriterPreference
<1> DEFINE Overtakes == \A t \in Threads : pc[t] # "reading" /\ pc'[t] = "reading" => Waiting = {}
<1>1. LockInv /\ [Next]_vars => [Overtakes]_vars
  <2> SUFFICES ASSUME LockInv, Next, NEW t \in Threads, pc[t] # "reading", pc'[t] = "reading"
               PROVE  Waiting = {}
    OBVIOUS
  <2>1. ASSUME NEW u \in Threads, StartReading(u) PROVE Waiting = {}
    BY <2>1, ZeroIsEmpty DEF LockInv, StartReading, ReadersMayEnter
  <2>2. ASSUME NEW u \in Threads,
               BlockReader(u) \/ StartWriting(u) \/ BlockWriter(u) \/ WriterResumes(u)
                 \/ WriterWaitsAgain(u) \/ SpuriousWake(u)
        PROVE  FALSE
    BY <2>2 DEF LockInv, TypeOK, BlockReader, StartWriting, BlockWriter, WriterResumes,
                WriterWaitsAgain, SpuriousWake
  <2>3. ASSUME NEW u \in Threads, UnlockWrite(u) \/ UnlockRead(u) PROVE FALSE
    BY <2>3 DEF LockInv, TypeOK, UnlockWrite, UnlockRead, SignalWriter, BroadcastReaders, In
  <2> QED
    BY <2>1, <2>2, <2>3 DEF Next, Proceed, Call
<1> QED
  BY <1>1, LockInvariance, PTL DEF Spec, WriterPreference

-----------------------------------------------------------------------------
(* The refinement.                                                         *)

Modes == [t \in Threads |-> Mode(t)]

\* One thread changes its mode, the others move inside rwlock_rdlock or wrlock.
LEMMA ModeChange ==
  ASSUME NEW t \in Threads, NEW m, Mode(t)' = m, \A u \in Threads \ {t} : Mode(u)' = Mode(u)
  PROVE  Modes' = [Modes EXCEPT ![t] = m]
BY DEF Modes

LEMMA ModesSame ==
  ASSUME \A u \in Threads : Mode(u)' = Mode(u)
  PROVE  UNCHANGED Shared!vars
BY DEF Shared!vars

\* rwlock_rdlock, rwlock_wrlock and rwlock_unlock grant and release exactly as
\* the abstract lock does; every other step is invisible.
THEOREM LockRefinement == Spec => ImplementsSharedLock
<1>1. Init => Shared!Init
  BY DEF Init, Shared!Init, Mode
<1>2. LockInv /\ [Next]_vars => [Shared!Next]_(Shared!vars)
  <2> SUFFICES ASSUME LockInv, [Next]_vars PROVE [Shared!Next]_(Shared!vars)
    OBVIOUS
  <2>1. ASSUME NEW t \in Threads, StartReading(t) PROVE [Shared!Next]_(Shared!vars)
    <3>1. pc'[t] = "reading" /\ \A u \in Threads \ {t} : pc'[u] = pc[u]
      BY <2>1 DEF StartReading, LockInv, TypeOK
    <3>2. Modes' = [Modes EXCEPT ![t] = "reading"]
      BY <3>1, ModeChange DEF Mode
    <3>3. \A u \in Threads : pc[u] # "writing"
      BY <2>1, ZeroIsEmpty DEF StartReading, ReadersMayEnter, LockInv, In
    <3>4. Shared!Read(t)
      BY <2>1, <3>2, <3>3 DEF Shared!Read, Modes, Mode, StartReading
    <3> QED
      BY <3>4 DEF Shared!Next
  <2>2. ASSUME NEW t \in Threads, StartWriting(t) \/ WriterResumes(t) PROVE [Shared!Next]_(Shared!vars)
    <3>1. pc'[t] = "writing" /\ \A u \in Threads \ {t} : pc'[u] = pc[u]
      BY <2>2 DEF StartWriting, WriterResumes, LockInv, TypeOK
    <3>2. Modes' = [Modes EXCEPT ![t] = "writing"]
      BY <3>1, ModeChange DEF Mode
    <3>3. \A u \in Threads : pc[u] \notin {"reading", "writing"}
      BY <2>2, ZeroIsEmpty DEF StartWriting, WriterResumes, WritersMayEnter, LockInv, In
    <3>4. Shared!Write(t)
      BY <3>2, <3>3 DEF Shared!Write, Modes, Mode
    <3> QED
      BY <3>4 DEF Shared!Next
  <2>3. ASSUME NEW t \in Threads, UnlockWrite(t) \/ UnlockRead(t) PROVE [Shared!Next]_(Shared!vars)
    <3>1. pc[t] \in {"reading", "writing"} /\ Mode(t)' = "none"
      BY <2>3 DEF UnlockWrite, UnlockRead, SignalWriter, BroadcastReaders, In, Mode, LockInv, TypeOK
    <3>2. \A u \in Threads \ {t} : Mode(u)' = Mode(u)
      BY <2>3 DEF UnlockWrite, UnlockRead, SignalWriter, BroadcastReaders, In, Mode, LockInv, TypeOK
    <3>3. Modes' = [Modes EXCEPT ![t] = "none"]
      BY <3>1, <3>2, ModeChange
    <3>4. Shared!Release(t)
      BY <3>1, <3>3 DEF Shared!Release, Modes, Mode
    <3> QED
      BY <3>4 DEF Shared!Next
  <2>4. ASSUME NEW t \in Threads,
               BlockReader(t) \/ BlockWriter(t) \/ WriterWaitsAgain(t) \/ SpuriousWake(t)
        PROVE  [Shared!Next]_(Shared!vars)
    <3>1. \A u \in Threads : Mode(u)' = Mode(u)
      BY <2>4 DEF BlockReader, BlockWriter, WriterWaitsAgain, SpuriousWake, Mode, LockInv, TypeOK
    <3> QED
      BY <3>1, ModesSame
  <2>5. CASE UNCHANGED vars
    BY <2>5, ModesSame DEF vars, Mode
  <2> QED
    BY <2>1, <2>2, <2>3, <2>4, <2>5 DEF Next, Proceed, Call
<1> QED
  BY <1>1, <1>2, LockInvariance, PTL DEF Spec, ImplementsSharedLock, Shared!Spec

-----------------------------------------------------------------------------
(* call_once                                                               *)

\* Whoever is on the way from the exchange it won to its return
Winning == {"create", "open", "running", "close", "leave"}

\* The flag's status says how far the winner is, and there is one winner at most: a
\* status above 1 means that the lock exists, 3 that func has returned.
OnceInv ==
  /\ Once!TypeOK
  /\ \A t, u \in Callers : oncePc[t] \in Winning /\ oncePc[u] \in Winning => t = u
  /\ \A t \in Callers :
       /\ status = 0 => oncePc[t] \notin Winning
       /\ oncePc[t] \in {"create", "open"} => status = 1
       /\ oncePc[t] = "open" => created
       /\ oncePc[t] \in {"running", "close"} => status = 2
       /\ oncePc[t] = "close" => finished
       /\ oncePc[t] = "leave" => status = 3
       /\ oncePc[t] \in {"enter", "pass"} => status >= 2
       /\ oncePc[t] = "returned" => status = 3
  /\ calls = IF status >= 2 THEN 1 ELSE 0
  /\ status >= 2 => created
  /\ status = 3 => finished

LEMMA OnceInvInit == Once!Init => OnceInv
<1> SUFFICES ASSUME Once!Init PROVE OnceInv
  OBVIOUS
<1>1. /\ status = 0 /\ calls = 0
      /\ \A t \in Callers : oncePc[t] = "loop"
  BY DEF Once!Init
<1>2. status \in 0..3 /\ calls \in {0, 1}
  BY DEF Once!Init
<1>3. created \in BOOLEAN /\ finished \in BOOLEAN
  BY Zenon DEF Once!Init
<1>4. flagLock \subseteq Callers
  BY DEF Once!Init
<1>5. oncePc \in [Callers -> {"loop", "switch", "exchange", "create", "open", "running",
                             "close", "leave", "enter", "pass", "returned"}]
  BY DEF Once!Init
<1>6. Once!TypeOK
  BY <1>2, <1>3, <1>4, <1>5 DEF Once!TypeOK
<1> QED
  BY <1>1, <1>6 DEF OnceInv, Winning, Once!Init

\* Every step of a caller keeps the status in line with the winner's progress.
LEMMA OnceInvStep ==
  ASSUME OnceInv, [Once!Next]_(Once!vars)
  PROVE  OnceInv'
<1> USE DEF OnceInv, Once!TypeOK, Winning, Once!Goto
<1>1. ASSUME NEW t \in Callers, Once!TestStatus(t) PROVE OnceInv'
  BY <1>1 DEF Once!TestStatus
<1>2. ASSUME NEW t \in Callers, Once!SwitchOnStatus(t) PROVE OnceInv'
  BY <1>2 DEF Once!SwitchOnStatus
<1>3. ASSUME NEW t \in Callers, Once!ExchangeStatus(t) PROVE OnceInv'
  BY <1>3 DEF Once!ExchangeStatus
<1>4. ASSUME NEW t \in Callers, Once!CreateLock(t) PROVE OnceInv'
  BY <1>4 DEF Once!CreateLock
<1>5. ASSUME NEW t \in Callers, Once!RunFunc(t) PROVE OnceInv'
  BY <1>5 DEF Once!RunFunc
<1>6. ASSUME NEW t \in Callers, Once!FuncReturns(t) PROVE OnceInv'
  BY <1>6 DEF Once!FuncReturns
<1>7. ASSUME NEW t \in Callers, Once!MarkDone(t) PROVE OnceInv'
  BY <1>7 DEF Once!MarkDone
<1>8. ASSUME NEW t \in Callers, Once!EnterLock(t) PROVE OnceInv'
  BY <1>8 DEF Once!EnterLock
<1>9. ASSUME NEW t \in Callers, Once!LeaveLock(t) PROVE OnceInv'
  BY <1>9 DEF Once!LeaveLock
<1>10. ASSUME NEW t \in Callers, Once!CallAgain(t) PROVE OnceInv'
  BY <1>10 DEF Once!CallAgain
<1>11. CASE UNCHANGED Once!vars
  BY <1>11 DEF Once!vars
<1> QED
  BY <1>1, <1>2, <1>3, <1>4, <1>5, <1>6, <1>7, <1>8, <1>9, <1>10, <1>11
     DEF Once!Next, Once!Step

\* A step of MCPrimitives is one of call_once or leaves its variables alone.
LEMMA StepsOfOnce == ASSUME [MCNext]_allVars PROVE [Once!Next]_(Once!vars)
BY DEF MCNext, allVars, OthersStill, once, Once!vars, Once!Next

\* func runs at most once, every call that returns finds its work done and nobody waits
\* on the flag's lock before the winner has created it, with any number of callers.
THEOREM OnceCorrect == MCSpec => []OnceAndBefore
<1>1. MCInit => OnceInv
  BY OnceInvInit DEF MCInit
<1>2. OnceInv /\ [MCNext]_allVars => OnceInv'
  BY OnceInvStep, StepsOfOnce
<1>3. OnceInv => OnceAndBefore
  BY DEF OnceInv, OnceAndBefore, Once!OnceAndBefore, Once!TypeOK
<1> QED
  BY <1>1, <1>2, <1>3, PTL DEF MCSpec

-----------------------------------------------------------------------------
(* The condition variable                                                  *)

\* The count is exact, every thread is where a thread of its kind can be, and the
\* waiters do not all sleep while there are items and no wake-up is under way.
CondInv ==
  /\ Cond!CountExact
  /\ Cond!NotAllAsleep
  /\ condPc \in [Waiters \cup Producers -> Cond!WaiterStates \cup Cond!ProducerStates]

\* The cardinality that the instance counts with is that of FiniteSets.
LEMMA SameCardinality == \A S : Cond!Cardinality(S) = Cardinality(S)
BY DEF Cond!Cardinality, Cardinality

LEMMA CountedFinite == IsFiniteSet(Cond!Counted) /\ Cardinality(Cond!Counted) \in Nat
BY ConditionAssumption, FS_Subset, FS_CardinalityType DEF Cond!Counted

LEMMA CondInvInit == Cond!Init => CondInv
<1> SUFFICES ASSUME Cond!Init PROVE CondInv
  OBVIOUS
<1>1. \A t \in Waiters \cup Producers : condPc[t] = "idle"
  BY DEF Cond!Init
<1>2. Cond!Counted = {}
  BY <1>1 DEF Cond!Counted
<1>3. mWaitersCount = Cardinality(Cond!Counted) + leaked
  BY <1>2, FS_EmptySet DEF Cond!Init
<1>4. eventOne \in BOOLEAN /\ eventAll \in BOOLEAN
  BY Zenon DEF Cond!Init
<1>5. condPc \in [Waiters \cup Producers -> Cond!WaiterStates \cup Cond!ProducerStates]
  BY DEF Cond!Init, Cond!WaiterStates
<1>6. Cond!TypeOK
  BY ConditionAssumption, <1>1, <1>4
     DEF Cond!Init, Cond!TypeOK, Cond!WaiterStates, Cond!ProducerStates
<1>7. Cond!NotAllAsleep
  BY DEF Cond!Init, Cond!NotAllAsleep
<1> QED
  BY <1>3, <1>5, <1>6, <1>7, SameCardinality DEF CondInv, Cond!CountExact

\* A step that leaves the threads inside a wait the same leaves the count exact.
LEMMA SameCount ==
  ASSUME CondInv, Cond!TypeOK', Cond!Counted' = Cond!Counted,
         UNCHANGED <<mWaitersCount, leaked>>
  PROVE  Cond!CountExact'
BY SameCardinality DEF CondInv, Cond!CountExact

\* A waiter that leaves is one less to be counted, or one more that was leaked.
LEMMA OneLess ==
  ASSUME CondInv, NEW w \in Cond!Counted, Cond!Counted' = Cond!Counted \ {w}
  PROVE  Cardinality(Cond!Counted') = Cardinality(Cond!Counted) - 1
BY CountedFinite, FS_RemoveElement

\* While not every waiter sleeps, it does not matter what items there are.
LEMMA SomebodyAwake ==
  ASSUME NEW w \in Waiters, condPc'[w] \notin {"between", "blocked"}
  PROVE  Cond!NotAllAsleep'
BY DEF Cond!NotAllAsleep, Cond!Asleep

\* The steps of a waiter
LEMMA WaiterStep ==
  ASSUME CondInv, NEW w \in Waiters, Cond!WaiterNext(w)
  PROVE  CondInv'
<1> USE ConditionAssumption, SameCardinality
<1> DEFINE Typed == /\ Cond!TypeOK
                    /\ condPc \in [Waiters \cup Producers -> Cond!WaiterStates \cup Cond!ProducerStates]
<1>0. Typed
  BY DEF CondInv, Cond!CountExact
<1>1. CASE Cond!WaiterLocks(w)
  <2>1. Typed' /\ condPc'[w] = "test"
    BY <1>0, <1>1 DEF Cond!WaiterLocks, Cond!TypeOK, Cond!WaiterStates, Cond!ProducerStates
  <2>2. Cond!Counted' = Cond!Counted
    BY <1>0, <1>1 DEF Cond!WaiterLocks, Cond!Counted
  <2> QED
    BY <2>1, <2>2, <1>1, SameCount, SomebodyAwake DEF CondInv, Cond!WaiterLocks
<1>2. CASE Cond!WaiterTakesItem(w)
  <2>1. Typed' /\ condPc'[w] = "idle"
    BY <1>0, <1>2 DEF Cond!WaiterTakesItem, Cond!TypeOK, Cond!WaiterStates, Cond!ProducerStates
  <2>2. Cond!Counted' = Cond!Counted
    BY <1>0, <1>2 DEF Cond!WaiterTakesItem, Cond!Counted
  <2> QED
    BY <2>1, <2>2, <1>2, SameCount, SomebodyAwake DEF CondInv, Cond!WaiterTakesItem
<1>3. CASE Cond!BeginWait(w)
  <2>1. Typed'
    BY <1>0, <1>3 DEF Cond!BeginWait, Cond!TypeOK, Cond!WaiterStates, Cond!ProducerStates
  <2>2. w \notin Cond!Counted /\ Cond!Counted' = Cond!Counted \cup {w}
    BY <1>0, <1>3 DEF Cond!BeginWait, Cond!Counted
  <2>3. Cardinality(Cond!Counted') = Cardinality(Cond!Counted) + 1
    BY <2>2, CountedFinite, FS_AddElement
  <2>4. Cond!CountExact'
    BY <2>1, <2>3, <1>0, <1>3, CountedFinite DEF CondInv, Cond!CountExact, Cond!BeginWait, Cond!TypeOK
  <2>5. Cond!NotAllAsleep'
    BY <1>3 DEF Cond!BeginWait, Cond!NotAllAsleep
  <2> QED
    BY <2>1, <2>4, <2>5 DEF CondInv
<1>4. CASE Cond!EnterKernelWait(w)
  <2>1. Typed'
    BY <1>0, <1>4 DEF Cond!EnterKernelWait, Cond!TypeOK, Cond!WaiterStates, Cond!ProducerStates
  <2>2. Cond!Counted' = Cond!Counted
    BY <1>0, <1>4 DEF Cond!EnterKernelWait, Cond!Counted
  <2>3. ASSUME eventOne \/ eventAll PROVE Cond!NotAllAsleep'
    <3>1. condPc'[w] \in {"wokenOne", "wokenAll"}
      BY <2>3, <1>0, <1>4 DEF Cond!EnterKernelWait
    <3> QED
      BY <3>1, SomebodyAwake
  <2>4. ASSUME ~(eventOne \/ eventAll) PROVE Cond!NotAllAsleep'
    <3>1. Cond!Asleep' = Cond!Asleep /\ Cond!Announcing' = Cond!Announcing
      BY <2>4, <1>0, <1>4 DEF Cond!EnterKernelWait, Cond!Asleep, Cond!Announcing
    <3> QED
      BY <3>1, <2>4, <1>4, Zenon DEF CondInv, Cond!NotAllAsleep, Cond!EnterKernelWait
  <2> QED
    BY <2>1, <2>2, <2>3, <2>4, <1>4, SameCount DEF CondInv, Cond!EnterKernelWait
<1>5. CASE Cond!WaitTimesOut(w)
  <2>1. Typed' /\ condPc'[w] = "relock"
    BY <1>0, <1>5 DEF Cond!WaitTimesOut, Cond!TypeOK, Cond!WaiterStates, Cond!ProducerStates
  <2>2. w \in Cond!Counted /\ Cond!Counted' = Cond!Counted \ {w}
    BY <1>0, <1>5 DEF Cond!WaitTimesOut, Cond!Counted
  <2>3. Cardinality(Cond!Counted') = Cardinality(Cond!Counted) - 1
    BY <2>2, OneLess
  <2>4. mWaitersCount' = Cardinality(Cond!Counted') + leaked'
    BY <2>3, <1>0, <1>5, CountedFinite DEF CondInv, Cond!CountExact, Cond!WaitTimesOut, Cond!TypeOK
  <2> QED
    BY <2>1, <2>4, SomebodyAwake DEF CondInv, Cond!CountExact
<1>6. CASE Cond!EndWait(w)
  <2>1. w \in Cond!Counted /\ Cond!Counted' = Cond!Counted \ {w}
    BY <1>0, <1>6 DEF Cond!EndWait, Cond!Counted
  <2>2. Cardinality(Cond!Counted) # 0
    BY <2>1, CountedFinite, FS_EmptySet
  <2>3. mWaitersCount' = Cardinality(Cond!Counted') + leaked' /\ mWaitersCount' \in Nat
    BY <2>1, <2>2, <1>0, <1>6, OneLess, CountedFinite
       DEF CondInv, Cond!CountExact, Cond!EndWait, Cond!TypeOK
  <2>4. Typed' /\ condPc'[w] \in {"reset", "relock"}
    BY <1>0, <1>6, <2>3 DEF Cond!EndWait, Cond!TypeOK, Cond!WaiterStates, Cond!ProducerStates
  <2> QED
    BY <2>3, <2>4, SomebodyAwake DEF CondInv, Cond!CountExact
<1>7. CASE Cond!ResetBroadcast(w)
  <2>1. Typed' /\ condPc'[w] = "relock"
    BY <1>0, <1>7 DEF Cond!ResetBroadcast, Cond!TypeOK, Cond!WaiterStates, Cond!ProducerStates
  <2>2. Cond!Counted' = Cond!Counted
    BY <1>0, <1>7 DEF Cond!ResetBroadcast, Cond!Counted
  <2> QED
    BY <2>1, <2>2, <1>7, SameCount, SomebodyAwake DEF CondInv, Cond!ResetBroadcast
<1> QED
  BY <1>1, <1>2, <1>3, <1>4, <1>5, <1>6, <1>7 DEF Cond!WaiterNext

\* The steps of a producer
LEMMA ProducerStep ==
  ASSUME CondInv, NEW p \in Producers, Cond!ProducerNext(p)
  PROVE  CondInv'
<1> USE ConditionAssumption, SameCardinality
<1> DEFINE Typed == /\ Cond!TypeOK
                    /\ condPc \in [Waiters \cup Producers -> Cond!WaiterStates \cup Cond!ProducerStates]
<1>0. Typed /\ p \notin Waiters
  BY DEF CondInv, Cond!CountExact
<1>1. CASE Cond!ProducerLocks(p)
  <2>1. PICK next \in {"signal", "broadcast"} : condPc' = [condPc EXCEPT ![p] = next]
    BY <1>1 DEF Cond!ProducerLocks
  <2>2. Typed' /\ condPc'[p] = next
    BY <1>0, <1>1, <2>1 DEF Cond!ProducerLocks, Cond!TypeOK, Cond!WaiterStates, Cond!ProducerStates
  <2>3. Cond!Counted' = Cond!Counted
    BY <1>0, <2>1 DEF Cond!Counted
  <2>4. p \in Cond!Announcing'
    BY <2>2 DEF Cond!Announcing
  <2> QED
    BY <2>2, <2>3, <2>4, <1>1, SameCount DEF CondInv, Cond!NotAllAsleep, Cond!ProducerLocks
<1>2. CASE Cond!ReadWaiters(p)
  <2>1. Typed'
    BY <1>0, <1>2 DEF Cond!ReadWaiters, Cond!TypeOK, Cond!WaiterStates, Cond!ProducerStates
  <2>2. Cond!Counted' = Cond!Counted
    BY <1>0, <1>2 DEF Cond!ReadWaiters, Cond!Counted
  <2>3. CASE mWaitersCount = 0
    <3>1. Cardinality(Cond!Counted) = 0
      BY <2>3, <1>0, CountedFinite DEF CondInv, Cond!CountExact, Cond!TypeOK
    <3>2. Cond!Counted' = {}
      BY <3>1, <2>2, CountedFinite, FS_EmptySet
    <3>3. PICK w \in Waiters : TRUE
      OBVIOUS
    <3>4. condPc'[w] \notin {"between", "blocked"}
      BY <3>2 DEF Cond!Counted
    <3> QED
      BY <2>1, <2>2, <3>4, <1>2, SameCount, SomebodyAwake DEF CondInv, Cond!ReadWaiters
  <2>4. CASE mWaitersCount # 0
    <3>1. condPc'[p] \in {"setOne", "setAll"}
      BY <2>4, <1>0, <1>2 DEF Cond!ReadWaiters
    <3>2. p \in Cond!Announcing'
      BY <3>1 DEF Cond!Announcing
    <3> QED
      BY <2>1, <2>2, <3>2, <1>2, SameCount DEF CondInv, Cond!NotAllAsleep, Cond!ReadWaiters
  <2> QED
    BY <2>3, <2>4
<1>3. CASE Cond!SetOne(p)
  <2>1. CASE /\ Cond!Blocked = {} /\ eventOne' = TRUE /\ owed' = owed
             /\ condPc' = [condPc EXCEPT ![p] = "unlock"]
    <3>1. Typed'
      BY <2>1, <1>0, <1>3 DEF Cond!SetOne, Cond!TypeOK, Cond!WaiterStates, Cond!ProducerStates
    <3>2. Cond!Counted' = Cond!Counted
      BY <2>1, <1>0 DEF Cond!Counted
    <3> QED
      BY <3>1, <3>2, <2>1, <1>3, SameCount DEF CondInv, Cond!NotAllAsleep, Cond!SetOne
  <2>2. ASSUME NEW w \in Cond!Blocked, owed' = owed \ {w}, eventOne' = eventOne,
               condPc' = [condPc EXCEPT ![p] = "unlock", ![w] = "wokenOne"]
        PROVE  CondInv'
    <3>1. w \in Waiters /\ condPc[w] = "blocked" /\ condPc'[w] = "wokenOne"
      BY <2>2, <1>0 DEF Cond!Blocked
    <3>2. Typed'
      BY <3>1, <2>2, <1>0, <1>3 DEF Cond!SetOne, Cond!TypeOK, Cond!WaiterStates, Cond!ProducerStates
    <3>3. Cond!Counted' = Cond!Counted
      BY <3>1, <2>2, <1>0 DEF Cond!Counted
    <3> QED
      BY <3>1, <3>2, <3>3, <1>3, SameCount, SomebodyAwake DEF CondInv, Cond!SetOne
  <2> QED
    BY <2>1, <2>2, <1>3 DEF Cond!SetOne
<1>4. CASE Cond!SetAll(p)
  <2>1. eventAll'
    BY <1>4 DEF Cond!SetAll
  <2>2. condPc' \in [Waiters \cup Producers -> Cond!WaiterStates \cup Cond!ProducerStates]
    BY <1>0, <1>4 DEF Cond!SetAll, Cond!WaiterStates, Cond!ProducerStates
  <2>3. /\ \A t \in Waiters : condPc'[t] \in Cond!WaiterStates
        /\ \A q \in Producers : condPc'[q] \in Cond!ProducerStates
    BY <1>0, <1>4 DEF Cond!SetAll, Cond!TypeOK, Cond!WaiterStates, Cond!ProducerStates, Cond!Blocked
  <2>4. Cond!TypeOK'
    BY <2>1, <2>3, <1>0, <1>4 DEF Cond!SetAll, Cond!TypeOK, Cond!Asleep
  <2>5. Cond!Counted' = Cond!Counted
    BY <1>0, <1>4 DEF Cond!SetAll, Cond!Counted, Cond!Blocked
  <2> QED
    BY <2>1, <2>2, <2>4, <2>5, <1>4, SameCount DEF CondInv, Cond!NotAllAsleep, Cond!SetAll
<1>5. CASE Cond!ProducerUnlocks(p)
  <2>1. Typed'
    BY <1>0, <1>5 DEF Cond!ProducerUnlocks, Cond!TypeOK, Cond!WaiterStates, Cond!ProducerStates
  <2>2. /\ Cond!Counted' = Cond!Counted
        /\ Cond!Asleep' = Cond!Asleep
        /\ Cond!Announcing' = Cond!Announcing
    BY <1>0, <1>5 DEF Cond!ProducerUnlocks, Cond!Counted, Cond!Asleep, Cond!Announcing
  <2>3. Cond!NotAllAsleep'
    BY <2>2, <1>5, Zenon DEF CondInv, Cond!NotAllAsleep, Cond!ProducerUnlocks
  <2> QED
    BY <2>1, <2>2, <2>3, <1>5, SameCount DEF CondInv, Cond!ProducerUnlocks
<1> QED
  BY <1>1, <1>2, <1>3, <1>4, <1>5 DEF Cond!ProducerNext

\* A step of MCPrimitives is one of the condition variable or leaves its variables alone.
LEMMA StepsOfCond == ASSUME [MCNext]_allVars PROVE [Cond!Next]_(Cond!vars)
BY DEF MCNext, allVars, OthersStill, cond, Cond!vars

LEMMA CondInvStep ==
  ASSUME CondInv, [Cond!Next]_(Cond!vars)
  PROVE  CondInv'
<1>1. CASE UNCHANGED Cond!vars
  BY <1>1 DEF CondInv, Cond!CountExact, Cond!TypeOK, Cond!NotAllAsleep, Cond!Counted,
              Cond!Asleep, Cond!Announcing, Cond!vars
<1>2. CASE Cond!Next
  BY <1>2, WaiterStep, ProducerStep DEF Cond!Next
<1> QED
  BY <1>1, <1>2

\* A signal or a broadcast is dropped only when nobody is inside a wait, and whatever
\* signals merge and whatever late reset takes a broadcast back, the waiters are not all
\* asleep with items left: for any number of waiters, producers, items and time-outs.
THEOREM ConditionCorrect == MCSpec => []ConditionKeepsCount
<1>1. MCInit => CondInv
  BY CondInvInit DEF MCInit
<1>2. CondInv /\ [MCNext]_allVars => CondInv'
  BY CondInvStep, StepsOfCond
<1>3. CondInv => ConditionKeepsCount
  BY DEF CondInv, ConditionKeepsCount
<1> QED
  BY <1>1, <1>2, <1>3, PTL DEF MCSpec

-----------------------------------------------------------------------------
(* Thread-specific storage                                                 *)

Entries == [value : Values \cup {Tss!NoValue}, key : Keys, next : Nat, freed : BOOLEAN]

\* The list is in use, until the exit begins to free it.
InUse == phase \in {"running", "cleanup", "destructor"}

\* Entry and slot of a key belong together, and the list is what follows head in the order
\* in which the entries were made, at most two of them: new ones come after tail, which is
\* the first one or, once that has been deleted, none.
ListInv ==
  /\ key \in [Keys -> {"none", "plain", "dtor", "deleted"}]
  /\ slot \in [Keys -> Nat]
  /\ \A k \in Keys : slot[k] # 0 =>
       slot[k] \in DOMAIN entry /\ entry[slot[k]].key = k /\ key[k] \in {"plain", "dtor"}
  /\ entry \in Seq(Entries)
  /\ \A i, j \in DOMAIN entry : entry[i].key = entry[j].key => i = j
  /\ \A i \in DOMAIN entry : slot[entry[i].key] # i => key[entry[i].key] = "deleted"
  /\ InUse => \A i \in DOMAIN entry : entry[i].freed <=> slot[entry[i].key] # i
  /\ head \in {0} \cup DOMAIN entry /\ tail \in {0} \cup DOMAIN entry
  /\ \A i \in DOMAIN entry : entry[i].freed <=> head = 0 \/ i < head
  /\ \A i \in DOMAIN entry : head # 0 /\ head <= i =>
       entry[i].next = IF i < Len(entry) THEN i + 1 ELSE 0
  /\ InUse => tail \in {0, head} /\ (head # 0 => Len(entry) <= head + 1)

\* The pass has come by an entry.
Passed(n) == data = 0 \/ n < data \/ (phase = "destructor" /\ n = data)

HasRun(k, p) == \E i \in DOMAIN ran : ran[i][1] = k /\ ran[i][3] = p

\* What the passes of an exit have done: a destructor that ran did so when its entry was
\* passed, a value there was at the exit is given to its destructor or still ahead of the
\* first pass, and what was passed has no value unless there will be another pass.
PassInv ==
  /\ phase \in {"running", "cleanup", "destructor", "freeing", "exited"}
  /\ phase = "running" => ran = <<>> /\ again = FALSE
  /\ ran \in Seq(Keys \X Values \X Nat)
  /\ again \in BOOLEAN /\ pass \in Nat
  /\ \A i \in DOMAIN ran : ran[i][3] <= pass /\ \E n \in DOMAIN entry : entry[n].key = ran[i][1]
  /\ \A i, j \in DOMAIN ran : i # j /\ ran[i][1] = ran[j][1] => ran[i][3] # ran[j][3]
  /\ phase \in {"cleanup", "destructor"} =>
       /\ head # 0 /\ data \in {0} \cup DOMAIN entry
       /\ data # 0 => head <= data
       /\ pass \in 1..TSS_DTOR_ITERATIONS
       /\ \A n \in DOMAIN entry : HasRun(entry[n].key, pass) => Passed(n)
       /\ \A k \in Keys : atExit[k] # Tss!NoValue /\ key[k] = "dtor" =>
            \/ HasRun(k, 1)
            \/ /\ pass = 1 /\ slot[k] # 0 /\ ~Passed(slot[k])
               /\ entry[slot[k]].value # Tss!NoValue
       /\ again = FALSE =>
            \A k \in Keys : key[k] = "dtor" /\ slot[k] # 0 /\ entry[slot[k]].value # Tss!NoValue =>
              ~Passed(slot[k])
  /\ phase = "destructor" => data # 0 /\ again = TRUE
  /\ phase \in {"freeing", "exited"} =>
       \A k \in Keys : atExit[k] # Tss!NoValue /\ key[k] = "dtor" => HasRun(k, 1)
  /\ phase = "freeing" =>
       \A k \in Keys : key[k] = "dtor" /\ slot[k] # 0 /\ entry[slot[k]].value # Tss!NoValue =>
         pass = TSS_DTOR_ITERATIONS
  /\ phase = "exited" => head = 0

-----------------------------------------------------------------------------

LEMMA StorageInit == Tss!Init => ListInv /\ PassInv
<1> SUFFICES ASSUME Tss!Init PROVE ListInv /\ PassInv
  OBVIOUS
<1>1. /\ entry = <<>> /\ ran = <<>> /\ again = FALSE /\ pass = 0 /\ phase = "running"
      /\ head = 0 /\ tail = 0 /\ key = [k \in Keys |-> "none"] /\ slot = [k \in Keys |-> 0]
  BY DEF Tss!Init, Tss!Null
<1>2. again \in BOOLEAN
  BY <1>1, Zenon
<1>3. ListInv
  BY <1>1 DEF ListInv
<1>4. PassInv
  BY <1>1, <1>2 DEF PassInv
<1> QED
  BY <1>3, <1>4

\* What thread_specific_set does to the list: the value is in the key's entry, which is a
\* new last one where there was none, and nothing else is changed.
SetDone(k, v) ==
  /\ \A i \in DOMAIN entry : i \in DOMAIN entry' /\ entry'[i].key = entry[i].key
  /\ \A i \in DOMAIN entry' : i \in DOMAIN entry \/
       /\ i = Len(entry) + 1 /\ entry'[i].key = k
       /\ \A j \in DOMAIN entry : entry[j].key # k
  /\ \A j \in Keys \ {k} : slot'[j] = slot[j] /\ (slot[j] # 0 => entry'[slot[j]].value = entry[slot[j]].value)
  /\ slot'[k] \in {slot[k], Len(entry) + 1} /\ slot'[k] # 0 /\ (slot[k] # 0 => slot'[k] = slot[k])
  /\ entry'[slot'[k]].value = v
  /\ head # 0 => head' = head

LEMMA EntryChanged ==
  ASSUME NEW e \in Entries, NEW v \in Values \cup {Tss!NoValue}, NEW n \in Nat
  PROVE  /\ [e EXCEPT !.value = v] \in Entries /\ [e EXCEPT !.next = n] \in Entries
         /\ [e EXCEPT !.freed = TRUE] \in Entries
BY DEF Entries

LEMMA SetKeepsList ==
  ASSUME ListInv, InUse, NEW k \in Keys, Tss!Alive(k), harm' = {},
         NEW v \in Values \cup {Tss!NoValue}, Tss!SetValue(k, v)
  PROVE  ListInv' /\ SetDone(k, v) /\ UNCHANGED <<key, phase, data, pass, again, atExit, ran>>
<1> USE DEF ListInv
<1>1. /\ key[k] \in {"plain", "dtor"} /\ Tss!Null = 0
      /\ DOMAIN entry = 1..Len(entry) /\ Len(entry) \in Nat
      /\ \A i \in DOMAIN entry : entry[i] \in Entries
  BY DEF Tss!Alive, Tss!Null
<1>2. ~Tss!TailGone
  <2> SUFFICES ASSUME tail # 0 PROVE ~entry[tail].freed
    BY <1>1 DEF Tss!TailGone
  <2>1. tail = head /\ tail \in DOMAIN entry
    OBVIOUS
  <2> QED
    BY <1>1, <2>1
<1>3. UNCHANGED <<key, phase, data, pass, again, atExit, ran>> /\ InUse'
  BY <1>1, <1>2 DEF Tss!SetValue, Tss!cleanup, InUse
<1>4. CASE slot[k] # 0
  <2> DEFINE n == slot[k]
  <2>1. /\ entry' = [entry EXCEPT ![n].value = v] /\ UNCHANGED <<slot, head, tail>>
        /\ n \in DOMAIN entry
    BY <1>1, <1>4 DEF Tss!SetValue, Tss!cleanup
  <2>2. entry' = [entry EXCEPT ![n] = [entry[n] EXCEPT !.value = v]]
    BY <2>1
  <2>3. [entry[n] EXCEPT !.value = v] \in Entries
    BY <1>1, <2>1, EntryChanged
  <2>4. entry' \in Seq(Entries) /\ Len(entry') = Len(entry) /\ DOMAIN entry' = DOMAIN entry
    BY <2>1, <2>2, <2>3
  <2>5. \A i \in DOMAIN entry : /\ entry'[i].key = entry[i].key /\ entry'[i].next = entry[i].next
                                /\ entry'[i].freed = entry[i].freed
                                /\ i # n => entry'[i].value = entry[i].value
    BY <1>1, <2>1, <2>2 DEF Entries
  <2>6. entry'[n].value = v
    BY <1>1, <2>1, <2>2 DEF Entries
  <2>7. ListInv'
    BY <1>1, <1>3, <2>1, <2>4, <2>5
  <2>8. SetDone(k, v)
    BY <1>1, <1>4, <2>1, <2>4, <2>5, <2>6 DEF SetDone
  <2> QED
    BY <1>3, <2>7, <2>8
<1>5. CASE slot[k] = 0
  <2> DEFINE n == Len(entry) + 1
             new == [value |-> v, key |-> k, next |-> 0, freed |-> FALSE]
             old == IF tail = 0 THEN entry ELSE [entry EXCEPT ![tail].next = n]
  <2>1. /\ entry' = Append(old, new) /\ slot' = [slot EXCEPT ![k] = n]
        /\ tail' = (IF tail = 0 THEN n ELSE tail) /\ head' = (IF head = 0 THEN n ELSE head)
    <3>1. Tss!NewEntry(k, v) /\ n \in Nat
      BY <1>1, <1>2, <1>5 DEF Tss!SetValue
    <3> QED
      BY <1>1, <3>1 DEF Tss!NewEntry, Tss!AfterTail, Tss!Track
  <2>2. \A i \in DOMAIN entry : entry[i].key # k
    BY <1>1, <1>5
  <2>3. IF tail = 0 THEN head = 0 ELSE entry[tail].next = 0
    <3>1. Tss!NewEntry(k, v)
      BY <1>1, <1>2, <1>5 DEF Tss!SetValue
    <3>2. Tss!Lost = {}
      BY <3>1 DEF Tss!NewEntry
    <3> QED
      BY <1>1, <3>2 DEF Tss!Lost
  <2>4. tail = head /\ head \in {0, Len(entry)}
    <3>1. CASE tail = 0
      BY <2>3, <3>1
    <3>2. CASE tail # 0
      <4>1. tail = head /\ head \in DOMAIN entry /\ entry[head].next = 0
        BY <2>3, <3>2
      <4>2. entry[head].next = IF head < Len(entry) THEN head + 1 ELSE 0
        BY <1>1, <4>1
      <4> QED
        BY <1>1, <4>1, <4>2
    <3> QED
      BY <3>1, <3>2
  <2>5. new \in Entries
    BY <1>1 DEF Entries
  <2>6. /\ old \in Seq(Entries) /\ Len(old) = Len(entry) /\ DOMAIN old = DOMAIN entry
        /\ \A i \in DOMAIN entry : /\ old[i].key = entry[i].key /\ old[i].value = entry[i].value
                                   /\ old[i].freed = entry[i].freed
                                   /\ old[i].next = IF i = tail THEN n ELSE entry[i].next
    <3>1. CASE tail = 0
      BY <1>1, <3>1
    <3>2. CASE tail # 0
      <4>1. tail \in DOMAIN entry /\ n \in Nat
        BY <1>1, <3>2
      <4>2. old = [entry EXCEPT ![tail] = [entry[tail] EXCEPT !.next = n]]
        BY <3>2
      <4>3. [entry[tail] EXCEPT !.next = n] \in Entries
        BY <1>1, <4>1, EntryChanged
      <4>4. old \in Seq(Entries) /\ Len(old) = Len(entry) /\ DOMAIN old = DOMAIN entry
        BY <4>1, <4>2, <4>3
      <4>5. \A i \in DOMAIN entry : old[i] = IF i = tail THEN [entry[tail] EXCEPT !.next = n] ELSE entry[i]
        BY <4>1, <4>2
      <4>6. /\ [entry[tail] EXCEPT !.next = n].key = entry[tail].key
            /\ [entry[tail] EXCEPT !.next = n].value = entry[tail].value
            /\ [entry[tail] EXCEPT !.next = n].freed = entry[tail].freed
            /\ [entry[tail] EXCEPT !.next = n].next = n
        BY <1>1, <4>1 DEF Entries
      <4> QED
        BY <4>4, <4>5, <4>6
    <3> QED
      BY <3>1, <3>2
  <2>7. /\ entry' \in Seq(Entries) /\ Len(entry') = n /\ DOMAIN entry' = 1..n
        /\ \A i \in DOMAIN entry : entry'[i] = old[i]
        /\ entry'[n] = new
    <3> HIDE DEF old, new
    <3> QED
      BY <1>1, <2>1, <2>5, <2>6
  <2>8. /\ slot' \in [Keys -> Nat] /\ slot'[k] = n
        /\ \A j \in Keys \ {k} : slot'[j] = slot[j]
    BY <1>1, <2>1
  <2>9. SetDone(k, v)
    BY <1>1, <1>5, <2>1, <2>2, <2>6, <2>7, <2>8 DEF SetDone
  <2>10. /\ \A j \in Keys : slot'[j] # 0 =>
              slot'[j] \in DOMAIN entry' /\ entry'[slot'[j]].key = j /\ key[j] \in {"plain", "dtor"}
         /\ \A i, j \in DOMAIN entry' : entry'[i].key = entry'[j].key => i = j
         /\ \A i \in DOMAIN entry' : slot'[entry'[i].key] # i => key[entry'[i].key] = "deleted"
         /\ \A i \in DOMAIN entry' : entry'[i].freed <=> slot'[entry'[i].key] # i
    <3>1. \A i \in DOMAIN entry : entry[i].key \in Keys /\ entry[i].key # k
      BY <1>1, <2>2 DEF Entries
    <3>2. \A i \in DOMAIN entry' : i = n \/ (i \in DOMAIN entry /\ i # n)
      BY <1>1, <2>7
    <3>3. DOMAIN entry \subseteq DOMAIN entry'
      BY <1>1, <2>7
    <3>4. new.key = k /\ new.freed = FALSE
      OBVIOUS
    <3>5. InUse => \A i \in DOMAIN entry : entry[i].freed <=> slot[entry[i].key] # i
      OBVIOUS
    <3>6. \A i \in DOMAIN entry : entry'[i].key = entry[i].key /\ entry'[i].freed = entry[i].freed
      <4> HIDE DEF old, new
      <4>1. \A i \in DOMAIN entry : entry'[i] = old[i]
        BY <2>7
      <4> QED
        BY <2>6, <4>1
    <3>7. \A i \in DOMAIN entry : slot'[entry[i].key] = slot[entry[i].key]
      BY <2>8, <3>1
    <3>8. entry'[n].key = k /\ entry'[n].freed = FALSE /\ slot'[k] = n /\ n \in DOMAIN entry'
      BY <1>1, <2>7, <2>8, <3>4
    <3>9. \A j \in Keys : slot'[j] # 0 =>
            slot'[j] \in DOMAIN entry' /\ entry'[slot'[j]].key = j /\ key[j] \in {"plain", "dtor"}
      BY <1>1, <2>8, <3>3, <3>6, <3>8
    <3>10. \A i, j \in DOMAIN entry' : entry'[i].key = entry'[j].key => i = j
      BY <3>1, <3>2, <3>6, <3>8
    <3>11. \A i \in DOMAIN entry' : slot'[entry'[i].key] # i => key[entry'[i].key] = "deleted"
      BY <3>2, <3>6, <3>7, <3>8
    <3>12. \A i \in DOMAIN entry' : entry'[i].freed <=> slot'[entry'[i].key] # i
      BY <3>2, <3>5, <3>6, <3>7, <3>8
    <3> QED
      BY <3>9, <3>10, <3>11, <3>12
  <2>11. /\ head' \in {0} \cup DOMAIN entry' /\ tail' \in {0} \cup DOMAIN entry'
         /\ \A i \in DOMAIN entry' : entry'[i].freed <=> head' = 0 \/ i < head'
    BY <1>1, <2>1, <2>4, <2>6, <2>7
  <2>12. \A i \in DOMAIN entry' : head' # 0 /\ head' <= i =>
           entry'[i].next = IF i < Len(entry') THEN i + 1 ELSE 0
    BY <1>1, <2>1, <2>4, <2>6, <2>7
  <2>13. tail' \in {0, head'} /\ (head' # 0 => Len(entry') <= head' + 1)
    BY <1>1, <2>1, <2>4, <2>7
  <2> QED
    BY <1>1, <1>3, <2>7, <2>8, <2>9, <2>10, <2>11, <2>12, <2>13
<1> QED
  BY <1>3, <1>4, <1>5

\* The list, when what it holds stays as it is and the exit goes on
LEMMA ListSame ==
  ASSUME ListInv, UNCHANGED <<key, slot, entry, head, tail>>, InUse' => InUse
  PROVE  ListInv'
BY DEF ListInv

\* While the thread runs, no destructor has.
LEMMA PassSame ==
  ASSUME PassInv, phase = "running", UNCHANGED <<phase, ran, again, pass>>
  PROVE  PassInv'
<1>1. again' \in BOOLEAN
  BY Zenon DEF PassInv
<1>2. phase' = "running" /\ ran' = <<>> /\ again' = FALSE
  BY DEF PassInv
<1> QED
  BY <1>1, <1>2 DEF PassInv

\* The entry of a key is on the list as long as the key is not deleted.
LEMMA OnList ==
  ASSUME ListInv, InUse, NEW k \in Keys, slot[k] # 0
  PROVE  /\ slot[k] \in DOMAIN entry /\ entry[slot[k]].key = k
         /\ head # 0 /\ head <= slot[k]
<1>1. slot[k] \in DOMAIN entry /\ entry[slot[k]].key = k
  BY DEF ListInv
<1>2. ~entry[slot[k]].freed
  BY <1>1 DEF ListInv
<1>3. ~(head = 0 \/ slot[k] < head)
  BY <1>1, <1>2 DEF ListInv
<1>4. head \in Nat /\ slot[k] \in Nat
  BY <1>1 DEF ListInv
<1> QED
  BY <1>1, <1>3, <1>4

\* The list is what the entries from head on lead to.
LEMMA Listed ==
  ASSUME ListInv, NEW n \in Tss!ListedFrom(head)
  PROVE  n \in DOMAIN entry /\ head # 0 /\ head <= n
<1> DEFINE live == {m \in DOMAIN entry : head # 0 /\ head <= m}
<1>1. live \in SUBSET DOMAIN entry /\ head \in live \cup {0}
  BY DEF ListInv
<1>2. Tss!FollowsNext(live)
  <2>1. \A m \in live : entry[m].next = IF m < Len(entry) THEN m + 1 ELSE 0
    BY DEF ListInv
  <2>2. DOMAIN entry = 1..Len(entry) /\ Len(entry) \in Nat /\ head \in {0} \cup DOMAIN entry
    BY DEF ListInv
  <2>3. \A m \in live : entry[m].next \in live \cup {0}
    BY <2>1, <2>2
  <2> HIDE DEF live
  <2> QED
    BY <2>3 DEF Tss!FollowsNext, Tss!Null
<1>3. n \in live
  <2> HIDE DEF live
  <2> QED
    BY <1>1, <1>2 DEF Tss!ListedFrom, Tss!Null
<1> QED
  BY <1>3

\* The walk to the second entry comes to it.
LEMMA StraightTo ==
  ASSUME ListInv, InUse, NEW e \in DOMAIN entry, head # 0, head < e
  PROVE  ~Tss!Astray(e)
<1>1. /\ DOMAIN entry = 1..Len(entry) /\ Len(entry) \in Nat
      /\ head \in DOMAIN entry /\ e = head + 1 /\ Len(entry) = e
  BY DEF ListInv
<1>2. entry[head].next = e
  BY <1>1 DEF ListInv
<1>3. e \in Tss!ListedFrom(head)
  <2> SUFFICES ASSUME NEW S \in SUBSET DOMAIN entry, head \in S, Tss!FollowsNext(S)
               PROVE  e \in S
    BY <1>1 DEF Tss!ListedFrom, Tss!Null
  <2> QED
    BY <1>1, <1>2 DEF Tss!FollowsNext, Tss!Null
<1>4. \A m \in Tss!ListedFrom(head) : m < e => ~entry[m].freed
  <2> SUFFICES ASSUME NEW m \in Tss!ListedFrom(head) PROVE ~entry[m].freed
    OBVIOUS
  <2>1. m \in DOMAIN entry /\ head <= m
    BY Listed
  <2> QED
    BY <1>1, <2>1 DEF ListInv
<1> QED
  BY <1>3, <1>4 DEF Tss!Astray

\* Only the first entry is unlinked.
LEMMA DeleteKeepsList ==
  ASSUME ListInv, NEW k \in Keys, Tss!Delete(k), harm' = {}
  PROVE  ListInv' /\ UNCHANGED <<phase, ran, again, pass>>
<1> DEFINE e == slot[k]
<1>0. e = 0 \/ head = e \/ (head # 0 /\ ~Tss!Astray(e))
  <2> SUFFICES ASSUME e # 0, head # e PROVE head # 0 /\ ~Tss!Astray(e)
    OBVIOUS
  <2>1. phase = "running" /\ InUse
    BY DEF Tss!Delete, InUse
  <2>2. e \in DOMAIN entry /\ head # 0 /\ head < e
    BY <2>1, OnList DEF ListInv
  <2> QED
    BY <2>1, <2>2, StraightTo
<1> USE DEF ListInv
<1>1. /\ phase = "running" /\ UNCHANGED <<phase, ran, again, pass>>
      /\ key[k] \in {"plain", "dtor"} /\ e \in {0, head}
      /\ key' = [key EXCEPT ![k] = "deleted"] /\ slot' = [slot EXCEPT ![k] = 0]
      /\ InUse /\ InUse'
  BY <1>0 DEF Tss!Delete, Tss!DeleteEntry, Tss!Null, Tss!Alive, Tss!cleanup, InUse
<1>2. /\ DOMAIN entry = 1..Len(entry) /\ Len(entry) \in Nat
      /\ \A i \in DOMAIN entry : entry[i] \in Entries /\ entry[i].key \in Keys
  <2>1. /\ DOMAIN entry = 1..Len(entry) /\ Len(entry) \in Nat
        /\ \A i \in DOMAIN entry : entry[i] \in Entries
    OBVIOUS
  <2> QED
    BY <2>1 DEF Entries
<1>3. /\ \A j \in Keys : slot'[j] # 0 =>
           j # k /\ slot'[j] = slot[j] /\ slot[j] \in DOMAIN entry
           /\ entry[slot[j]].key = j /\ key'[j] \in {"plain", "dtor"}
      /\ slot' \in [Keys -> Nat] /\ key' \in [Keys -> {"none", "plain", "dtor", "deleted"}]
  BY <1>1
<1>4. CASE e = 0
  <2>1. UNCHANGED <<entry, head, tail>> /\ slot' = slot
    BY <1>1, <1>4 DEF Tss!Delete, Tss!Null
  <2> QED
    BY <1>1, <1>2, <1>3, <1>4, <2>1
<1>5. CASE e # 0
  <2>1. /\ e = head /\ e \in DOMAIN entry /\ entry[e].key = k
        /\ head' = entry[e].next /\ tail' = (IF e # tail THEN tail ELSE 0)
        /\ entry' = [entry EXCEPT ![e] = [entry[e] EXCEPT !.freed = TRUE]]
    BY <1>1, <1>5 DEF Tss!Delete, Tss!DeleteEntry, Tss!Unlink, Tss!Null, Tss!cleanup
  <2>2. [entry[e] EXCEPT !.freed = TRUE] \in Entries
    BY <1>2, <2>1, EntryChanged
  <2>3. entry' \in Seq(Entries) /\ Len(entry') = Len(entry) /\ DOMAIN entry' = DOMAIN entry
    BY <2>1, <2>2
  <2>4. \A i \in DOMAIN entry : entry'[i].key = entry[i].key /\ entry'[i].next = entry[i].next
    BY <1>2, <2>1 DEF Entries
  <2>5. entry'[e].freed = TRUE /\ \A i \in DOMAIN entry \ {e} : entry'[i] = entry[i]
    BY <1>2, <2>1 DEF Entries
  <2>6. head' = IF e < Len(entry) THEN e + 1 ELSE 0
    BY <1>2, <1>5, <2>1
  <2>7. /\ head' \in {0} \cup DOMAIN entry' /\ tail' \in {0} \cup DOMAIN entry'
        /\ tail' \in {0, head'} /\ (head' # 0 => Len(entry') <= head' + 1)
    BY <1>1, <1>2, <2>1, <2>3, <2>6
  <2>8. \A i \in DOMAIN entry' : entry'[i].freed <=> head' = 0 \/ i < head'
    <3>1. \A i \in DOMAIN entry \ {e} : entry[i].freed <=> i < e
      BY <1>5, <2>1
    <3>2. \A i \in DOMAIN entry \ {e} : i < e <=> head' = 0 \/ i < head'
      BY <1>2, <2>1, <2>6
    <3>3. head' = 0 \/ e < head'
      BY <1>2, <2>1, <2>6
    <3> QED
      BY <2>3, <2>5, <3>1, <3>2, <3>3
  <2>9. \A i \in DOMAIN entry' : entry'[i].freed <=> slot'[entry'[i].key] # i
    <3>1. \A i \in DOMAIN entry \ {e} : entry[i].key # k
      BY <2>1
    <3>2. \A i \in DOMAIN entry \ {e} : slot'[entry[i].key] = slot[entry[i].key]
      BY <1>1, <1>2, <3>1
    <3>3. slot'[entry[e].key] = 0
      BY <1>1, <2>1
    <3> QED
      BY <1>1, <1>5, <2>3, <2>4, <2>5, <3>2, <3>3
  <2>10. \A i \in DOMAIN entry' : slot'[entry'[i].key] # i => key'[entry'[i].key] = "deleted"
    BY <1>1, <1>2, <2>1, <2>3, <2>4
  <2>11. \A i, j \in DOMAIN entry' : entry'[i].key = entry'[j].key => i = j
    BY <2>3, <2>4
  <2>12. \A i \in DOMAIN entry' : head' # 0 /\ head' <= i =>
           entry'[i].next = IF i < Len(entry') THEN i + 1 ELSE 0
    BY <1>2, <1>5, <2>1, <2>3, <2>4, <2>6
  <2>13. ASSUME NEW j \in Keys, slot'[j] # 0
         PROVE  /\ slot'[j] \in DOMAIN entry' /\ entry'[slot'[j]].key = j
                /\ key'[j] \in {"plain", "dtor"}
    <3>1. /\ slot'[j] \in DOMAIN entry /\ entry[slot'[j]].key = j
          /\ key'[j] \in {"plain", "dtor"}
      BY <1>3, <2>13
    <3>2. entry'[slot'[j]].key = entry[slot'[j]].key
      BY <2>4, <3>1
    <3> QED
      BY <2>3, <3>1, <3>2
  <2> QED
    BY <1>1, <1>2, <1>3, <2>3, <2>7, <2>8, <2>9, <2>10, <2>11, <2>12, <2>13
<1> QED
  BY <1>4, <1>5

LEMMA RunningStep ==
  ASSUME ListInv, PassInv, harm' = {}, NEW k \in Keys,
         \/ \E kind \in {"plain", "dtor"} : Tss!Create(k, kind)
         \/ Tss!Delete(k)
         \/ \E v \in Values \cup {Tss!NoValue} : Tss!Set(k, v)
  PROVE  ListInv' /\ PassInv'
<1>1. CASE \E kind \in {"plain", "dtor"} : Tss!Create(k, kind)
  <2>1. PICK kind \in {"plain", "dtor"} : key' = [key EXCEPT ![k] = kind] /\ key[k] = "none"
    BY <1>1 DEF Tss!Create
  <2>2. phase = "running" /\ UNCHANGED <<slot, entry, head, tail, phase, ran, again, pass>>
    BY <1>1 DEF Tss!Create, Tss!cleanup
  <2> QED
    BY <2>1, <2>2, PassSame DEF ListInv, InUse
<1>2. ASSUME NEW v \in Values \cup {Tss!NoValue}, Tss!Set(k, v) PROVE ListInv' /\ PassInv'
  <2>1. phase = "running" /\ Tss!Alive(k) /\ Tss!SetValue(k, v) /\ InUse
    BY <1>2 DEF Tss!Set, InUse
  <2>2. ListInv' /\ UNCHANGED <<phase, ran, again, pass>>
    BY <2>1, SetKeepsList
  <2> QED
    BY <2>1, <2>2, PassSame
<1>3. CASE Tss!Delete(k)
  <2>1. phase = "running"
    BY <1>3 DEF Tss!Delete
  <2> QED
    BY <1>3, <2>1, DeleteKeepsList, PassSame
<1> QED
  BY <1>1, <1>2, <1>3

-----------------------------------------------------------------------------
(* The exit                                                                *)

LEMMA ExitStep ==
  ASSUME ListInv, PassInv, Tss!Exit
  PROVE  ListInv' /\ PassInv'
<1> USE StorageAssumption
<1>1. /\ phase = "running" /\ ran = <<>> /\ again = FALSE /\ InUse
      /\ UNCHANGED <<key, slot, entry, head, tail, again, ran>>
      /\ data' = head /\ pass' = 1
      /\ phase' = (IF head = 0 THEN "exited" ELSE "cleanup")
      /\ atExit' = [k \in Keys |-> IF Tss!Alive(k) THEN Tss!Value(k) ELSE Tss!NoValue]
  BY DEF Tss!Exit, Tss!Null, PassInv, InUse
<1>2. ListInv'
  BY <1>1, ListSame
<1>3. \A k \in Keys : atExit'[k] # Tss!NoValue =>
        slot[k] # 0 /\ entry[slot[k]].value # Tss!NoValue
  BY <1>1 DEF Tss!Value, Tss!Null
<1>4. head \in {0} \cup DOMAIN entry
  BY DEF ListInv
<1>5. again' \in BOOLEAN
  BY <1>1, Zenon DEF PassInv
<1>6. DOMAIN ran = {}
  BY <1>1
<1>7. CASE head = 0
  <2>1. phase' = "exited" /\ head' = 0
    BY <1>1, <1>7
  <2>2. \A k \in Keys : atExit'[k] = Tss!NoValue
    BY <1>1, <1>3, <1>7, OnList
  <2> QED
    BY <1>1, <1>2, <1>5, <1>6, <2>1, <2>2 DEF PassInv
<1>8. CASE head # 0
  <2>1. phase' = "cleanup"
    BY <1>1, <1>8
  <2>2. \A k \in Keys : slot[k] # 0 => ~Passed(slot[k])'
    <3> SUFFICES ASSUME NEW k \in Keys, slot[k] # 0 PROVE ~Passed(slot[k])'
      OBVIOUS
    <3>1. head <= slot[k] /\ head \in Nat /\ slot[k] \in Nat
      BY <1>1, <1>4, OnList DEF ListInv
    <3> QED
      BY <1>1, <1>8, <2>1, <3>1 DEF Passed
  <2>3. \A k \in Keys, p \in Nat : ~HasRun(k, p)'
    BY <1>1, <1>6 DEF HasRun
  <2>4. \A n \in DOMAIN entry : ~HasRun(entry[n].key, pass)'
    BY <1>1, <1>6 DEF HasRun
  <2>5. pass' \in 1..TSS_DTOR_ITERATIONS /\ head <= head
    BY <1>1, <1>4, <1>8 DEF ListInv
  <2> QED
    BY <1>1, <1>2, <1>3, <1>4, <1>5, <1>6, <1>8, <2>1, <2>2, <2>4, <2>5 DEF PassInv
<1> QED
  BY <1>7, <1>8

LEMMA ReturnStep ==
  ASSUME ListInv, PassInv, Tss!DestructorReturns
  PROVE  ListInv' /\ PassInv'
<1>1. /\ phase = "destructor" /\ phase' = "cleanup" /\ data' = entry[data].next
      /\ UNCHANGED <<key, slot, entry, head, tail, pass, again, resets, atExit, ran>>
  BY DEF Tss!DestructorReturns
<1>2. ListInv'
  BY <1>1, ListSame DEF InUse
<1>3. /\ data # 0 /\ data \in DOMAIN entry /\ head # 0 /\ head <= data
      /\ DOMAIN entry = 1..Len(entry) /\ Len(entry) \in Nat /\ again = TRUE
  BY <1>1 DEF PassInv, ListInv
<1>4. data' = IF data < Len(entry) THEN data + 1 ELSE 0
  BY <1>1, <1>3 DEF ListInv
<1>5. \A n \in DOMAIN entry : Passed(n)' <=> Passed(n)
  BY <1>1, <1>3, <1>4 DEF Passed
<1>6. /\ data' \in {0} \cup DOMAIN entry
      /\ data' # 0 => head <= data'
  BY <1>3, <1>4 DEF ListInv
<1>7. \A k \in Keys : slot[k] # 0 => slot[k] \in DOMAIN entry
  BY DEF ListInv
<1>8. \A k, p : HasRun(k, p)' <=> HasRun(k, p)
  BY <1>1 DEF HasRun
<1>9. again' \in BOOLEAN /\ again' = TRUE
  BY <1>1, <1>3
<1> QED
  BY <1>1, <1>2, <1>3, <1>5, <1>6, <1>7, <1>8, <1>9 DEF PassInv, HasRun

LEMMA DestructorSetsStep ==
  ASSUME ListInv, PassInv, harm' = {}, NEW k \in Keys, NEW v \in Values,
         Tss!DestructorSets(k, v)
  PROVE  ListInv' /\ PassInv'
<1> USE StorageAssumption
<1>0. /\ phase = "destructor" /\ InUse /\ Tss!Alive(k) /\ Tss!SetValue(k, v)
      /\ v \in Values \cup {Tss!NoValue} /\ v # Tss!NoValue
  BY DEF Tss!DestructorSets, InUse
<1>2. ListInv' /\ SetDone(k, v) /\ UNCHANGED <<key, phase, data, pass, again, atExit, ran>>
  BY <1>0, SetKeepsList
<1>1. /\ phase = "destructor" /\ InUse /\ Tss!Alive(k) /\ Tss!SetValue(k, v)
      /\ UNCHANGED <<key, phase, data, pass, again, atExit, ran>>
      /\ v \in Values \cup {Tss!NoValue} /\ v # Tss!NoValue
  BY <1>0, <1>2
<1>3. /\ data # 0 /\ again = TRUE /\ head # 0 /\ data \in DOMAIN entry /\ head <= data
      /\ pass \in 1..TSS_DTOR_ITERATIONS /\ pass \in Nat
  BY <1>1 DEF PassInv
<1>4. head' = head /\ data' \in DOMAIN entry'
  BY <1>1, <1>2, <1>3 DEF SetDone
<1>5. \A i \in DOMAIN ran : \E n \in DOMAIN entry : entry[n].key = ran[i][1]
  BY DEF PassInv
<1>6. \A i \in DOMAIN ran : \E n \in DOMAIN entry' : entry'[n].key = ran[i][1]
  BY <1>2, <1>5 DEF SetDone
<1>7. \A n : Passed(n)' <=> Passed(n)
  BY <1>1 DEF Passed
<1>8. \A j, p : HasRun(j, p)' <=> HasRun(j, p)
  BY <1>1 DEF HasRun
<1>9. \A n \in DOMAIN entry' : HasRun(entry'[n].key, pass) => Passed(n)
  <2> SUFFICES ASSUME NEW n \in DOMAIN entry', HasRun(entry'[n].key, pass) PROVE Passed(n)
    OBVIOUS
  <2>1. CASE n \in DOMAIN entry
    <3>1. entry'[n].key = entry[n].key
      BY <1>2, <2>1 DEF SetDone
    <3>2. \A m \in DOMAIN entry : HasRun(entry[m].key, pass) => Passed(m)
      BY <1>1 DEF PassInv
    <3> QED
      BY <2>1, <3>1, <3>2
  <2>2. CASE n \notin DOMAIN entry
    <3>1. entry'[n].key = k /\ \A m \in DOMAIN entry : entry[m].key # k
      BY <1>2, <2>2 DEF SetDone
    <3>2. ~HasRun(k, pass)
      BY <1>5, <3>1 DEF HasRun
    <3> QED
      BY <3>1, <3>2
  <2> QED
    BY <2>1, <2>2
<1>10. \A j \in Keys : atExit[j] # Tss!NoValue /\ key[j] = "dtor" =>
         \/ HasRun(j, 1)
         \/ /\ pass = 1 /\ slot'[j] # 0 /\ ~Passed(slot'[j])
            /\ entry'[slot'[j]].value # Tss!NoValue
  <2> SUFFICES ASSUME NEW j \in Keys, atExit[j] # Tss!NoValue, key[j] = "dtor", ~HasRun(j, 1)
               PROVE  /\ pass = 1 /\ slot'[j] # 0 /\ ~Passed(slot'[j])
                      /\ entry'[slot'[j]].value # Tss!NoValue
    OBVIOUS
  <2>1. /\ pass = 1 /\ slot[j] # 0 /\ ~Passed(slot[j])
        /\ entry[slot[j]].value # Tss!NoValue
    BY <1>1 DEF PassInv
  <2>2. slot'[j] = slot[j] /\ entry'[slot'[j]].value # Tss!NoValue
    <3>1. CASE j = k
      BY <1>1, <1>2, <2>1, <3>1 DEF SetDone
    <3>2. CASE j # k
      BY <1>1, <1>2, <2>1, <3>2 DEF SetDone
    <3> QED
      BY <3>1, <3>2
  <2> QED
    BY <2>1, <2>2
<1>11. again' = TRUE /\ again' \in BOOLEAN
  BY <1>1, <1>3
<1>12. PassInv'
  BY <1>1, <1>3, <1>4, <1>6, <1>7, <1>8, <1>9, <1>10, <1>11 DEF PassInv
<1> QED
  BY <1>2, <1>12

\* What follows an entry of the list: the pass has come by one more when it is there.
LEMMA Following ==
  ASSUME ListInv, data \in DOMAIN entry, head # 0, head <= data
  PROVE  /\ entry[data].next \in {0} \cup DOMAIN entry
         /\ entry[data].next # 0 => head <= entry[data].next
         /\ \A n \in DOMAIN entry :
              entry[data].next = 0 \/ n < entry[data].next <=> n <= data
<1>1. DOMAIN entry = 1..Len(entry) /\ Len(entry) \in Nat /\ head \in DOMAIN entry
  BY DEF ListInv
<1>2. entry[data].next = IF data < Len(entry) THEN data + 1 ELSE 0
  BY DEF ListInv
<1> QED
  BY <1>1, <1>2

\* Taking the value out of an entry leaves the list as it is.
LEMMA TakeKeepsList ==
  ASSUME ListInv, data \in DOMAIN entry, InUse, InUse',
         entry' = [entry EXCEPT ![data].value = Tss!NoValue], UNCHANGED <<key, slot, head, tail>>
  PROVE  /\ ListInv' /\ DOMAIN entry' = DOMAIN entry
         /\ \A i \in DOMAIN entry : /\ entry'[i].key = entry[i].key
                                    /\ i # data => entry'[i].value = entry[i].value
         /\ entry'[data].value = Tss!NoValue
<1>1. entry \in Seq(Entries) /\ \A i \in DOMAIN entry : entry[i] \in Entries
  BY DEF ListInv
<1>2. entry' = [entry EXCEPT ![data] = [entry[data] EXCEPT !.value = Tss!NoValue]]
  OBVIOUS
<1>3. [entry[data] EXCEPT !.value = Tss!NoValue] \in Entries
  BY <1>1, EntryChanged
<1>4. entry' \in Seq(Entries) /\ Len(entry') = Len(entry) /\ DOMAIN entry' = DOMAIN entry
  BY <1>1, <1>2, <1>3
<1>5. \A i \in DOMAIN entry : /\ entry'[i].key = entry[i].key /\ entry'[i].next = entry[i].next
                              /\ entry'[i].freed = entry[i].freed
                              /\ i # data => entry'[i].value = entry[i].value
  BY <1>1, <1>2 DEF Entries
<1>6. entry'[data].value = Tss!NoValue
  BY <1>1, <1>2 DEF Entries
<1>7. ListInv'
  BY <1>4, <1>5 DEF ListInv
<1> QED
  BY <1>4, <1>5, <1>6, <1>7

\* The entry that the pass is at, not yet passed
LEMMA AtEntry ==
  ASSUME ListInv, PassInv, phase = "cleanup", data # 0
  PROVE  /\ data \in DOMAIN entry /\ head # 0 /\ head <= data /\ entry[data].key \in Keys
         /\ entry[data].value \in Values \cup {Tss!NoValue}
         /\ pass \in 1..TSS_DTOR_ITERATIONS /\ pass \in Nat
         /\ ~Passed(data) /\ ~HasRun(entry[data].key, pass)
<1>1. /\ data \in DOMAIN entry /\ head # 0 /\ head <= data
      /\ pass \in 1..TSS_DTOR_ITERATIONS /\ pass \in Nat
  BY DEF PassInv
<1>2. entry[data] \in Entries /\ data \in Nat
  BY <1>1 DEF ListInv
<1>3. ~Passed(data)
  BY <1>2 DEF Passed
<1>4. ~HasRun(entry[data].key, pass)
  BY <1>1, <1>3 DEF PassInv
<1> QED
  BY <1>1, <1>2, <1>3, <1>4 DEF Entries

LEMMA VisitRunsStep ==
  ASSUME ListInv, PassInv, Tss!Visit, entry[data].value # Tss!NoValue,
         key[entry[data].key] = "dtor"
  PROVE  ListInv' /\ PassInv'
<1> USE StorageAssumption
<1> DEFINE k == entry[data].key
           passed(n) == Passed(n) \/ n = data
           hasRun(j, p) == HasRun(j, p) \/ (j = k /\ p = pass)
<1>1. /\ phase = "cleanup" /\ data # 0 /\ InUse /\ InUse'
      /\ phase' = "destructor" /\ data' = data
      /\ ran' = Append(ran, <<k, entry[data].value, pass>>)
      /\ entry' = [entry EXCEPT ![data].value = Tss!NoValue]
      /\ UNCHANGED <<key, slot, head, tail, pass, resets, atExit>>
  BY DEF Tss!Visit, InUse, Tss!Null
<1>2. again' = TRUE /\ again' \in BOOLEAN
  <2>1. again' = (again \/ (entry[data].value # Tss!NoValue /\ key[entry[data].key] = "dtor"))
    BY DEF Tss!Visit
  <2>2. again' = TRUE
    BY <2>1, Zenon
  <2> QED
    BY <2>2
<1>3. /\ data \in DOMAIN entry /\ head # 0 /\ head <= data /\ k \in Keys
      /\ entry[data].value \in Values /\ pass \in 1..TSS_DTOR_ITERATIONS /\ pass \in Nat
      /\ ~Passed(data) /\ ~HasRun(k, pass)
  BY <1>1, AtEntry
<1>4. /\ ListInv' /\ DOMAIN entry' = DOMAIN entry
      /\ \A i \in DOMAIN entry : /\ entry'[i].key = entry[i].key
                                 /\ i # data => entry'[i].value = entry[i].value
  BY <1>1, <1>3, TakeKeepsList
<1>5. ran \in Seq(Keys \X Values \X Nat)
  BY DEF PassInv
<1> DEFINE r == <<k, entry[data].value, pass>>
<1>6. /\ r \in Keys \X Values \X Nat /\ r[1] = k /\ r[3] = pass
  BY <1>3
<1>7. /\ ran' \in Seq(Keys \X Values \X Nat)
      /\ DOMAIN ran' = DOMAIN ran \cup {Len(ran) + 1} /\ Len(ran) + 1 \notin DOMAIN ran
      /\ ran'[Len(ran) + 1] = r /\ \A i \in DOMAIN ran : ran'[i] = ran[i]
  <2> DEFINE R == Keys \X Values \X Nat
  <2>1. r \in R /\ ran \in Seq(R) /\ ran' = Append(ran, r)
    BY <1>1, <1>5, <1>6
  <2> HIDE DEF r, R
  <2>2. /\ ran' \in Seq(R) /\ Len(ran) \in Nat /\ DOMAIN ran = 1..Len(ran)
        /\ DOMAIN ran' = 1..(Len(ran) + 1)
        /\ ran'[Len(ran) + 1] = r /\ \A i \in DOMAIN ran : ran'[i] = ran[i]
    BY <2>1
  <2>3. /\ DOMAIN ran' = DOMAIN ran \cup {Len(ran) + 1} /\ Len(ran) + 1 \notin DOMAIN ran
    BY <2>2
  <2> QED
    BY <2>2, <2>3 DEF R
<1>8. \A j, p : HasRun(j, p)' <=> hasRun(j, p)
  <2> HIDE DEF r, k
  <2> QED
    BY <1>6, <1>7 DEF HasRun
<1>9. \A i \in DOMAIN ran' : /\ ran'[i][3] <= pass'
                             /\ \E n \in DOMAIN entry' : entry'[n].key = ran'[i][1]
  <2>1. \A i \in DOMAIN ran : ran[i][3] <= pass /\ \E n \in DOMAIN entry : entry[n].key = ran[i][1]
    BY DEF PassInv
  <2>2. pass <= pass
    BY <1>3
  <2> HIDE DEF r
  <2> QED
    BY <1>1, <1>3, <1>4, <1>6, <1>7, <2>1, <2>2
<1>10. \A i, j \in DOMAIN ran' : i # j /\ ran'[i][1] = ran'[j][1] => ran'[i][3] # ran'[j][3]
  <2>1. \A i, j \in DOMAIN ran : i # j /\ ran[i][1] = ran[j][1] => ran[i][3] # ran[j][3]
    BY DEF PassInv
  <2>2. \A i \in DOMAIN ran : ran[i][1] = k => ran[i][3] # pass
    BY <1>3 DEF HasRun
  <2> HIDE DEF r
  <2> QED
    BY <1>6, <1>7, <2>1, <2>2
<1>11. \A n \in DOMAIN entry : Passed(n)' <=> passed(n)
  BY <1>1, <1>3 DEF Passed
<1>12. \A n \in DOMAIN entry' : hasRun(entry'[n].key, pass) => passed(n)
  <2>1. \A n \in DOMAIN entry : HasRun(entry[n].key, pass) => Passed(n)
    BY <1>1 DEF PassInv
  <2>2. \A n \in DOMAIN entry : entry[n].key = k => n = data
    BY <1>3 DEF ListInv
  <2>3. ASSUME NEW n \in DOMAIN entry, hasRun(entry'[n].key, pass) PROVE passed(n)
    <3>1. HasRun(entry[n].key, pass) \/ entry[n].key = k
      BY <1>4, <2>3
    <3> QED
      BY <2>1, <2>2, <3>1
  <2> QED
    BY <1>4, <2>3
<1>13. \A j \in Keys : atExit[j] # Tss!NoValue /\ key[j] = "dtor" =>
         \/ hasRun(j, 1)
         \/ /\ pass = 1 /\ slot[j] # 0 /\ ~passed(slot[j])
            /\ entry'[slot[j]].value # Tss!NoValue
  <2> SUFFICES ASSUME NEW j \in Keys, atExit[j] # Tss!NoValue, key[j] = "dtor", ~hasRun(j, 1)
               PROVE  /\ pass = 1 /\ slot[j] # 0 /\ ~passed(slot[j])
                      /\ entry'[slot[j]].value # Tss!NoValue
    OBVIOUS
  <2>1. ~HasRun(j, 1) /\ ~(j = k /\ 1 = pass)
    OBVIOUS
  <2>2. /\ pass = 1 /\ slot[j] # 0 /\ ~Passed(slot[j])
        /\ entry[slot[j]].value # Tss!NoValue
    BY <1>1, <2>1 DEF PassInv
  <2>3. slot[j] \in DOMAIN entry /\ slot[j] # data
    BY <2>1, <2>2 DEF ListInv
  <2> QED
    BY <1>4, <2>2, <2>3
<1>14. \A j \in Keys : slot[j] # 0 => slot[j] \in DOMAIN entry
  BY DEF ListInv
<1>15. PassInv'
  <2> HIDE DEF passed, hasRun, k
  <2>1. \A n \in DOMAIN entry' : HasRun(entry[n].key, pass)' => Passed(n)'
    BY <1>1, <1>4, <1>8, <1>11, <1>12 DEF HasRun, Passed
  <2>2. \A j \in Keys : (atExit[j] # Tss!NoValue /\ key[j] = "dtor")' =>
          \/ HasRun(j, 1)'
          \/ (pass = 1 /\ slot[j] # 0 /\ ~Passed(slot[j]) /\ entry[slot[j]].value # Tss!NoValue)'
    BY <1>1, <1>8, <1>11, <1>13, <1>14 DEF HasRun, Passed
  <2> QED
    BY <1>1, <1>2, <1>3, <1>4, <1>7, <1>9, <1>10, <2>1, <2>2 DEF PassInv
<1> QED
  BY <1>4, <1>15

LEMMA VisitSkipsStep ==
  ASSUME ListInv, PassInv, Tss!Visit,
         ~(entry[data].value # Tss!NoValue /\ key[entry[data].key] = "dtor")
  PROVE  ListInv' /\ PassInv'
<1> DEFINE passed(n) == Passed(n) \/ n = data
<1>1. /\ phase = "cleanup" /\ data # 0 /\ InUse /\ InUse'
      /\ phase' = "cleanup" /\ data' = entry[data].next /\ ran' = ran
      /\ entry' = [entry EXCEPT ![data].value = Tss!NoValue]
      /\ UNCHANGED <<key, slot, head, tail, pass, resets, atExit>>
  BY DEF Tss!Visit, InUse, Tss!Null
<1>2. (again' = again) /\ again' \in BOOLEAN
  <2>1. again' = (again \/ (entry[data].value # Tss!NoValue /\ key[entry[data].key] = "dtor"))
    BY DEF Tss!Visit
  <2>2. again \in BOOLEAN
    BY Zenon DEF PassInv
  <2> QED
    BY <2>1, <2>2, Zenon
<1>3. /\ data \in DOMAIN entry /\ head # 0 /\ head <= data
      /\ pass \in 1..TSS_DTOR_ITERATIONS /\ pass \in Nat
  BY <1>1, AtEntry
<1>4. /\ ListInv' /\ DOMAIN entry' = DOMAIN entry
      /\ \A i \in DOMAIN entry : /\ entry'[i].key = entry[i].key
                                 /\ i # data => entry'[i].value = entry[i].value
      /\ entry'[data].value = Tss!NoValue
  BY <1>1, <1>3, TakeKeepsList
<1>5. data' \in {0} \cup DOMAIN entry' /\ (data' # 0 => head <= data')
  BY <1>1, <1>3, <1>4, Following
<1>6. \A n \in DOMAIN entry : Passed(n)' <=> passed(n)
  <2>1. \A n \in DOMAIN entry : data' = 0 \/ n < data' <=> n <= data
    BY <1>1, <1>3, Following
  <2>2. data \in Nat /\ \A n \in DOMAIN entry : n \in Nat
    BY <1>3 DEF ListInv
  <2>3. \A n \in DOMAIN entry : n <= data <=> n < data \/ n = data
    BY <2>2
  <2> QED
    BY <1>1, <2>1, <2>3 DEF Passed
<1>7. \A j, p : HasRun(j, p)' <=> HasRun(j, p)
  BY <1>1 DEF HasRun
<1>8. \A i \in DOMAIN ran : ran[i][3] <= pass /\ \E n \in DOMAIN entry' : entry'[n].key = ran[i][1]
  <2>1. \A i \in DOMAIN ran : ran[i][3] <= pass /\ \E n \in DOMAIN entry : entry[n].key = ran[i][1]
    BY DEF PassInv
  <2> QED
    BY <1>4, <2>1
<1>9. \A n \in DOMAIN entry' : HasRun(entry'[n].key, pass) => passed(n)
  BY <1>1, <1>4 DEF PassInv
<1>10. \A j \in Keys : key[j] = "dtor" /\ slot[j] # 0 /\ entry[slot[j]].value # Tss!NoValue =>
         slot[j] # data /\ slot[j] \in DOMAIN entry
  <2> SUFFICES ASSUME NEW j \in Keys, key[j] = "dtor", slot[j] # 0, entry[slot[j]].value # Tss!NoValue
               PROVE  slot[j] # data /\ slot[j] \in DOMAIN entry
    OBVIOUS
  <2>1. slot[j] \in DOMAIN entry /\ entry[slot[j]].key = j
    BY DEF ListInv
  <2> QED
    BY <2>1
<1>11. \A j \in Keys : atExit[j] # Tss!NoValue /\ key[j] = "dtor" =>
         \/ HasRun(j, 1)
         \/ /\ pass = 1 /\ slot[j] # 0 /\ ~passed(slot[j])
            /\ entry'[slot[j]].value # Tss!NoValue
  <2>1. \A j \in Keys : atExit[j] # Tss!NoValue /\ key[j] = "dtor" =>
         \/ HasRun(j, 1)
         \/ /\ pass = 1 /\ slot[j] # 0 /\ ~Passed(slot[j])
            /\ entry[slot[j]].value # Tss!NoValue
    BY <1>1 DEF PassInv
  <2> QED
    BY <1>4, <1>10, <2>1
<1>12. again = FALSE => \A j \in Keys :
         key[j] = "dtor" /\ slot[j] # 0 /\ entry'[slot[j]].value # Tss!NoValue => ~passed(slot[j])
  <2>1. again = FALSE => \A j \in Keys :
         key[j] = "dtor" /\ slot[j] # 0 /\ entry[slot[j]].value # Tss!NoValue => ~Passed(slot[j])
    BY <1>1 DEF PassInv
  <2>2. \A j \in Keys : slot[j] # 0 => slot[j] \in DOMAIN entry
    BY DEF ListInv
  <2>3. \A j \in Keys : slot[j] # 0 /\ entry'[slot[j]].value # Tss!NoValue =>
          slot[j] # data /\ entry[slot[j]].value = entry'[slot[j]].value
    BY <1>4, <2>2
  <2> QED
    BY <2>1, <2>2, <2>3
<1>13. /\ ran \in Seq(Keys \X Values \X Nat)
       /\ \A i, j \in DOMAIN ran : i # j /\ ran[i][1] = ran[j][1] => ran[i][3] # ran[j][3]
  BY DEF PassInv
<1>14. \A j \in Keys : slot[j] # 0 => slot[j] \in DOMAIN entry
  BY DEF ListInv
<1>15. PassInv'
  <2> HIDE DEF passed
  <2>1. UNCHANGED <<ran, pass, head, key, slot, atExit, again>> /\ phase' = "cleanup"
    BY <1>1, <1>2
  <2>2. \A n \in DOMAIN entry' : HasRun(entry[n].key, pass)' => Passed(n)'
    BY <1>4, <1>6, <1>7, <1>9, <2>1 DEF HasRun, Passed
  <2>3. \A j \in Keys : (atExit[j] # Tss!NoValue /\ key[j] = "dtor")' =>
          \/ HasRun(j, 1)'
          \/ (pass = 1 /\ slot[j] # 0 /\ ~Passed(slot[j]) /\ entry[slot[j]].value # Tss!NoValue)'
    BY <1>6, <1>7, <1>11, <1>14, <2>1 DEF HasRun, Passed
  <2>4. (again = FALSE)' => \A j \in Keys :
          (key[j] = "dtor" /\ slot[j] # 0 /\ entry[slot[j]].value # Tss!NoValue)' => ~Passed(slot[j])'
    BY <1>6, <1>12, <1>14, <2>1 DEF Passed
  <2> QED
    BY <1>2, <1>3, <1>5, <1>8, <1>13, <2>1, <2>2, <2>3, <2>4 DEF PassInv
<1> QED
  BY <1>4, <1>15

LEMMA NextPassStep ==
  ASSUME ListInv, PassInv, Tss!NextPass
  PROVE  ListInv' /\ PassInv'
<1>1. /\ phase = "cleanup" /\ data = 0 /\ data' = head /\ again' = FALSE /\ InUse
      /\ UNCHANGED <<key, slot, entry, head, tail, resets, atExit, ran>>
      /\ head # 0 /\ head \in DOMAIN entry /\ pass \in 1..TSS_DTOR_ITERATIONS /\ pass \in Nat
  BY DEF Tss!NextPass, Tss!Null, InUse, PassInv, ListInv
<1>2. ListInv'
  BY <1>1, ListSame
<1>3. again' \in BOOLEAN
  BY <1>1
<1>4. \A k \in Keys : atExit[k] # Tss!NoValue /\ key[k] = "dtor" => HasRun(k, 1)
  BY <1>1 DEF PassInv, Passed
<1>5. \A j, p : HasRun(j, p)' <=> HasRun(j, p)
  BY <1>1 DEF HasRun
<1>6. \A i \in DOMAIN ran : ran[i][3] \in Nat /\ ran[i][3] <= pass
  BY DEF PassInv
<1>7. CASE again /\ pass < TSS_DTOR_ITERATIONS
  <2>1. pass' = pass + 1 /\ phase' = "cleanup"
    BY <1>7 DEF Tss!NextPass
  <2>2. pass' \in 1..TSS_DTOR_ITERATIONS /\ pass' \in Nat /\ pass <= pass'
    BY <1>1, <1>7, <2>1, StorageAssumption
  <2>3. \A i \in DOMAIN ran' : ran'[i][3] <= pass' /\ ran'[i][3] # pass'
    BY <1>1, <1>6, <2>1
  <2>4. \A k : ~HasRun(k, pass)'
    BY <2>3 DEF HasRun
  <2>5. \A k \in Keys : slot[k] # 0 => ~Passed(slot[k])'
    <3> SUFFICES ASSUME NEW k \in Keys, slot[k] # 0 PROVE ~Passed(slot[k])'
      OBVIOUS
    <3>1. head <= slot[k] /\ head \in Nat /\ slot[k] \in Nat
      BY <1>1, OnList DEF ListInv
    <3> QED
      BY <1>1, <2>1, <3>1 DEF Passed
  <2>6. head' # 0 /\ data' \in DOMAIN entry' /\ head' <= data'
    BY <1>1 DEF ListInv
  <2>7. \A k \in Keys : (atExit[k] # Tss!NoValue /\ key[k] = "dtor")' => HasRun(k, 1)'
    BY <1>1, <1>4, <1>5
  <2> QED
    BY <1>1, <1>2, <1>3, <2>1, <2>2, <2>3, <2>4, <2>5, <2>6, <2>7 DEF PassInv
<1>8. CASE ~(again /\ pass < TSS_DTOR_ITERATIONS)
  <2>1. pass' = pass /\ phase' = "freeing"
    BY <1>8 DEF Tss!NextPass
  <2>2. \A k \in Keys : key[k] = "dtor" /\ slot[k] # 0 /\ entry[slot[k]].value # Tss!NoValue =>
           pass = TSS_DTOR_ITERATIONS
    <3>1. CASE again = FALSE
      BY <1>1, <3>1 DEF PassInv, Passed
    <3>2. CASE again = TRUE
      BY <1>1, <1>8, <3>2, StorageAssumption
    <3>3. again \in BOOLEAN
      BY Zenon DEF PassInv
    <3> QED
      BY <3>1, <3>2, <3>3
  <2>3. \A k \in Keys : (atExit[k] # Tss!NoValue /\ key[k] = "dtor")' => HasRun(k, 1)'
    BY <1>1, <1>4, <1>5
  <2> QED
    BY <1>1, <1>2, <1>3, <2>1, <2>2, <2>3 DEF PassInv
<1> QED
  BY <1>7, <1>8

LEMMA FreeEntryStep ==
  ASSUME ListInv, PassInv, Tss!FreeEntry
  PROVE  ListInv' /\ PassInv'
<1>1. /\ phase = "freeing" /\ phase' \in {"freeing", "exited"} /\ ~InUse'
      /\ UNCHANGED <<key, slot, data, pass, again, resets, atExit, ran>>
  BY DEF Tss!FreeEntry, InUse
<1>2. \A j, p : HasRun(j, p)' <=> HasRun(j, p)
  BY <1>1 DEF HasRun
<1>3. again' \in BOOLEAN
  BY <1>1, Zenon DEF PassInv
<1>4. CASE head = 0
  <2>1. UNCHANGED <<entry, head>> /\ tail' = 0 /\ phase' = "exited"
    BY <1>4 DEF Tss!FreeEntry, Tss!Null
  <2>2. ListInv'
    BY <1>1, <2>1 DEF ListInv
  <2>3. PassInv'
    BY <1>1, <1>2, <1>3, <1>4, <2>1 DEF PassInv
  <2> QED
    BY <2>2, <2>3
<1>5. CASE head # 0
  <2>1. /\ head' = entry[head].next /\ UNCHANGED <<phase, tail>> /\ head \in DOMAIN entry
        /\ entry' = [entry EXCEPT ![head] = [entry[head] EXCEPT !.freed = TRUE]]
    BY <1>5 DEF Tss!FreeEntry, Tss!Null, ListInv
  <2>2. /\ entry \in Seq(Entries) /\ DOMAIN entry = 1..Len(entry) /\ Len(entry) \in Nat
        /\ \A i \in DOMAIN entry : entry[i] \in Entries
    BY DEF ListInv
  <2>3. [entry[head] EXCEPT !.freed = TRUE] \in Entries
    BY <2>1, <2>2, EntryChanged
  <2>4. entry' \in Seq(Entries) /\ Len(entry') = Len(entry) /\ DOMAIN entry' = DOMAIN entry
    BY <2>1, <2>2, <2>3
  <2>5. \A i \in DOMAIN entry : /\ entry'[i].key = entry[i].key /\ entry'[i].next = entry[i].next
                                /\ entry'[i].value = entry[i].value
    BY <2>1, <2>2 DEF Entries
  <2>6. entry'[head].freed = TRUE /\ \A i \in DOMAIN entry \ {head} : entry'[i] = entry[i]
    BY <2>1, <2>2 DEF Entries
  <2>7. head' = IF head < Len(entry) THEN head + 1 ELSE 0
    BY <1>5, <2>1, <2>2 DEF ListInv
  <2>8. head' \in {0} \cup DOMAIN entry' /\ tail' \in {0} \cup DOMAIN entry'
    BY <2>1, <2>2, <2>4, <2>7 DEF ListInv
  <2>9. \A i \in DOMAIN entry' : entry'[i].freed <=> head' = 0 \/ i < head'
    <3>1. \A i \in DOMAIN entry \ {head} : entry[i].freed <=> i < head
      BY <1>5 DEF ListInv
    <3>2. \A i \in DOMAIN entry \ {head} : i < head <=> head' = 0 \/ i < head'
      BY <2>1, <2>2, <2>7
    <3>3. head' = 0 \/ head < head'
      BY <2>1, <2>2, <2>7
    <3> QED
      BY <2>4, <2>6, <3>1, <3>2, <3>3
  <2>10. \A i \in DOMAIN entry' : head' # 0 /\ head' <= i =>
           entry'[i].next = IF i < Len(entry') THEN i + 1 ELSE 0
    <3>1. \A i \in DOMAIN entry : head <= i => entry[i].next = IF i < Len(entry) THEN i + 1 ELSE 0
      BY <1>5 DEF ListInv
    <3> QED
      BY <1>5, <2>1, <2>2, <2>4, <2>5, <2>7, <3>1
  <2>11. \A k \in Keys : slot[k] # 0 => slot[k] \in DOMAIN entry
    BY DEF ListInv
  <2>12. ListInv'
    <3>1. \A k \in Keys : slot'[k] # 0 =>
            slot'[k] \in DOMAIN entry' /\ entry'[slot'[k]].key = k /\ key'[k] \in {"plain", "dtor"}
      <4>1. \A k \in Keys : slot[k] # 0 =>
              slot[k] \in DOMAIN entry /\ entry[slot[k]].key = k /\ key[k] \in {"plain", "dtor"}
        BY DEF ListInv
      <4> QED
        BY <1>1, <2>4, <2>5, <4>1
    <3>2. \A i, j \in DOMAIN entry' : entry'[i].key = entry'[j].key => i = j
      BY <2>4, <2>5 DEF ListInv
    <3>3. \A i \in DOMAIN entry' : slot'[entry'[i].key] # i => key'[entry'[i].key] = "deleted"
      <4>1. \A i \in DOMAIN entry : slot[entry[i].key] # i => key[entry[i].key] = "deleted"
        BY DEF ListInv
      <4> QED
        BY <1>1, <2>4, <2>5, <4>1
    <3>4. /\ key' \in [Keys -> {"none", "plain", "dtor", "deleted"}]
          /\ slot' \in [Keys -> Nat]
      BY <1>1, <2>4 DEF ListInv
    <3> QED
      BY <1>1, <2>4, <2>8, <2>9, <2>10, <3>1, <3>4, <3>2, <3>3 DEF ListInv
  <2>13. PassInv'
    BY <1>1, <1>2, <1>3, <2>1, <2>4, <2>5, <2>11 DEF PassInv
  <2> QED
    BY <2>12, <2>13
<1> QED
  BY <1>4, <1>5

\* No entry of an unharmed list that the exit comes to has been freed.
LEMMA NothingGone ==
  ASSUME ListInv, PassInv PROVE ~Tss!FollowFreed
<1> SUFFICES ASSUME Tss!FollowFreed PROVE FALSE
  OBVIOUS
<1>1. CASE phase = "cleanup" /\ data # 0 /\ entry[data].freed
  <2>1. data \in DOMAIN entry /\ head # 0 /\ head <= data
    BY <1>1, AtEntry
  <2> QED
    BY <1>1, <2>1 DEF ListInv
<1>2. CASE phase = "freeing" /\ head # 0 /\ entry[head].freed
  BY <1>2 DEF ListInv
<1> QED
  BY <1>1, <1>2 DEF Tss!FollowFreed, Tss!Null

LEMMA StorageStep ==
  ASSUME ListInv, PassInv, harm' = {}, [Tss!Next]_(Tss!vars)
  PROVE  ListInv' /\ PassInv'
<1>1. CASE Tss!Next
  BY <1>1, RunningStep, ExitStep, ReturnStep, DestructorSetsStep, VisitRunsStep, VisitSkipsStep,
     NextPassStep, FreeEntryStep, NothingGone DEF Tss!Next
<1>2. CASE UNCHANGED Tss!vars
  <2>1. UNCHANGED <<key, slot, entry, head, tail, phase, data, pass, again, resets, atExit, ran>>
    BY <1>2 DEF Tss!vars
  <2>2. ListInv'
    BY <2>1, ListSame DEF InUse
  <2>3. again' \in BOOLEAN
    BY <2>1, Zenon DEF PassInv
  <2>4. PassInv'
    BY <2>1, <2>3 DEF PassInv, HasRun, Passed
  <2> QED
    BY <2>2, <2>4
<1> QED
  BY <1>1, <1>2

\* What harms the list has come to stay.
LEMMA HarmStays ==
  ASSUME [Tss!Next]_(Tss!vars), harm' = {} PROVE harm = {}
BY DEF Tss!Next, Tss!vars, Tss!Create, Tss!Delete, Tss!DeleteEntry, Tss!Undefined, Tss!Set,
  Tss!SetValue, Tss!NewEntry, Tss!DestructorSets, Tss!Exit, Tss!Visit, Tss!DestructorReturns,
  Tss!NextPass, Tss!FreeEntry, Tss!FollowFreed

LEMMA StepsOfStorage == ASSUME [MCNext]_allVars PROVE [Tss!Next]_(Tss!vars)
BY DEF MCNext, allVars, OthersStill, storage, Tss!vars, Tss!Next

LEMMA InvCleansUp == ListInv /\ PassInv => Tss!CleansUp
<1> SUFFICES ASSUME ListInv, PassInv PROVE Tss!CleansUp
  OBVIOUS
<1>1. Tss!TrackedAreLive
  <2>1. \A n \in Tss!ListedFrom(head) : n \in DOMAIN entry /\ head # 0 /\ head <= n
    BY Listed
  <2>2. \A n \in DOMAIN entry : head # 0 /\ head <= n => ~entry[n].freed
    BY DEF ListInv
  <2> QED
    BY <2>1, <2>2 DEF Tss!TrackedAreLive
<1>2. Tss!DestructorsRun
  BY DEF Tss!DestructorsRun, PassInv, HasRun
<1>3. \A i, j \in DOMAIN ran : i # j /\ ran[i][1] = ran[j][1] => ran[i][3] # ran[j][3]
  BY DEF PassInv
<1>4. phase = "exited" => \A n \in DOMAIN entry : entry[n].freed
  BY DEF PassInv, ListInv
<1>5. phase = "freeing" =>
        \A k \in Keys : key[k] = "dtor" /\ Tss!Value(k) # Tss!NoValue => pass = TSS_DTOR_ITERATIONS
  BY DEF PassInv, Tss!Value, Tss!Null
<1>6. phase # "undefined"
  BY DEF PassInv
<1> QED
  BY <1>1, <1>2, <1>3, <1>4, <1>5, <1>6 DEF Tss!CleansUp

-----------------------------------------------------------------------------
(* The list where entries may have been lost                               *)

\* The links lead to entries that were made later.
Links ==
  /\ entry \in Seq(Entries)
  /\ head \in {0} \cup DOMAIN entry /\ tail \in {0} \cup DOMAIN entry
  /\ data \in {0} \cup DOMAIN entry
  /\ slot \in [Keys -> {0} \cup DOMAIN entry]
  /\ \A i \in DOMAIN entry : entry[i].next = 0 \/ (entry[i].next \in DOMAIN entry /\ i < entry[i].next)

\* S has the first entry and with each entry the next one, and none of them is freed.
Closed(S) ==
  /\ S \in SUBSET DOMAIN entry /\ head \in S \cup {0}
  /\ \A m \in S : entry[m].next \in S \cup {0} /\ ~entry[m].freed

LiveInv == Links /\ \E S \in SUBSET DOMAIN entry : Closed(S)

\* A step that changes no more of an entry than its value leaves the links as they were.
LinksSame(old, new) ==
  /\ new \in Seq(Entries) /\ DOMAIN new = DOMAIN old
  /\ \A i \in DOMAIN old : new[i].next = old[i].next /\ new[i].freed = old[i].freed

LEMMA EntriesAre ==
  ASSUME Links
  PROVE  /\ DOMAIN entry = 1..Len(entry) /\ Len(entry) \in Nat
         /\ \A i \in DOMAIN entry : entry[i] \in Entries
BY DEF Links

LEMMA LinksStay ==
  ASSUME LiveInv, LinksSame(entry, entry'), UNCHANGED <<head, slot>>,
         tail' \in {0, tail}, data' \in {0} \cup DOMAIN entry
  PROVE  LiveInv'
<1>1. Links'
  BY DEF LiveInv, Links, LinksSame
<1>2. PICK S \in SUBSET DOMAIN entry : Closed(S)
  BY DEF LiveInv
<1>3. Closed(S)'
  BY <1>2 DEF Closed, LinksSame
<1>4. S \in SUBSET DOMAIN entry'
  BY DEF LinksSame
<1> QED
  BY <1>1, <1>3, <1>4 DEF LiveInv

LEMMA EntriesSame ==
  ASSUME Links, UNCHANGED entry PROVE LinksSame(entry, entry')
BY DEF Links, LinksSame

LEMMA ValueChanged ==
  ASSUME Links, NEW i \in DOMAIN entry, NEW v \in Values \cup {Tss!NoValue},
         entry' = [entry EXCEPT ![i].value = v]
  PROVE  LinksSame(entry, entry')
<1>1. entry' = [entry EXCEPT ![i] = [entry[i] EXCEPT !.value = v]]
  OBVIOUS
<1>2. [entry[i] EXCEPT !.value = v] \in Entries
  BY EntriesAre, EntryChanged
<1>3. entry' \in Seq(Entries) /\ DOMAIN entry' = DOMAIN entry
  BY <1>1, <1>2 DEF Links
<1>4. \A j \in DOMAIN entry : entry'[j].next = entry[j].next /\ entry'[j].freed = entry[j].freed
  BY <1>1, EntriesAre DEF Entries
<1> QED
  BY <1>3, <1>4 DEF LinksSame

\* The first entry is unlinked, and freed.
LEMMA FirstGoes ==
  ASSUME LiveInv, head # 0, entry' = [entry EXCEPT ![head].freed = TRUE],
         head' = entry[head].next, tail' \in {0, tail}, UNCHANGED data,
         \A k \in Keys : slot'[k] \in {0, slot[k]}, DOMAIN slot' = Keys, slot' \in [Keys -> Nat]
  PROVE  LiveInv'
<1>1. Links /\ head \in DOMAIN entry
  BY DEF LiveInv, Links
<1>2. entry' = [entry EXCEPT ![head] = [entry[head] EXCEPT !.freed = TRUE]]
  OBVIOUS
<1>3. [entry[head] EXCEPT !.freed = TRUE] \in Entries
  BY <1>1, EntriesAre, EntryChanged
<1>4. entry' \in Seq(Entries) /\ DOMAIN entry' = DOMAIN entry
  BY <1>1, <1>2, <1>3 DEF Links
<1>5. \A j \in DOMAIN entry : /\ entry'[j].next = entry[j].next
                              /\ j # head => entry'[j].freed = entry[j].freed
  <2>1. [entry[head] EXCEPT !.freed = TRUE].next = entry[head].next
    BY <1>1, EntriesAre DEF Entries
  <2>2. \A j \in DOMAIN entry :
          entry'[j] = IF j = head THEN [entry[head] EXCEPT !.freed = TRUE] ELSE entry[j]
    BY <1>1, <1>2
  <2> QED
    BY <2>1, <2>2
<1>6. Links'
  BY <1>1, <1>4, <1>5 DEF Links
<1>7. PICK S \in SUBSET DOMAIN entry : Closed(S)
  BY DEF LiveInv
<1>12. PICK T : T = {m \in S : head < m}
  OBVIOUS
<1>8. T \in SUBSET DOMAIN entry'
  BY <1>4, <1>12
<1>9. head' \in T \cup {0}
  <2>1. head \in S
    BY <1>7 DEF Closed
  <2>2. entry[head].next \in S \cup {0}
    BY <1>7, <2>1 DEF Closed
  <2> QED
    BY <1>1, <1>12, <2>2 DEF Links
<1>10. ASSUME NEW m \in T PROVE entry'[m].next \in T \cup {0} /\ ~entry'[m].freed
  <2>1. m \in S /\ m \in DOMAIN entry /\ head < m /\ m # head
    BY <1>1, <1>12, EntriesAre
  <2>2. entry[m].next \in S \cup {0} /\ ~entry[m].freed
    BY <1>7, <2>1 DEF Closed
  <2>3. entry[m].next = 0 \/ (entry[m].next \in S /\ head < entry[m].next)
    BY <1>1, <2>1, <2>2, EntriesAre DEF Links
  <2> QED
    BY <1>5, <1>12, <2>1, <2>2, <2>3
<1>11. Closed(T)'
  BY <1>8, <1>9, <1>10 DEF Closed
<1> QED
  BY <1>6, <1>8, <1>11 DEF LiveInv

\* A new entry comes last, after the tail or as the first one.
LEMMA NewComesLast ==
  ASSUME LiveInv, NEW k \in Keys, NEW v \in Values \cup {Tss!NoValue}, Tss!NewEntry(k, v),
         "dangling" \notin harm', UNCHANGED data
  PROVE  LiveInv'
<1> DEFINE n == Len(entry) + 1
           new == [value |-> v, key |-> k, next |-> 0, freed |-> FALSE]
           old == IF tail = 0 THEN entry ELSE [entry EXCEPT ![tail].next = n]
<1>1. /\ entry' = Append(old, new) /\ slot' = [slot EXCEPT ![k] = n]
      /\ tail' = (IF tail = 0 THEN n ELSE tail) /\ head' = (IF head = 0 THEN n ELSE head)
  BY DEF Tss!NewEntry, Tss!AfterTail, Tss!Track, Tss!Null
<1>2. Links /\ n \in Nat
  BY EntriesAre DEF LiveInv
<1>3. new \in Entries
  BY DEF Entries
<1>4. /\ old \in Seq(Entries) /\ Len(old) = Len(entry)
      /\ \A i \in DOMAIN entry : /\ old[i].freed = entry[i].freed
                                 /\ old[i].next = IF i = tail THEN n ELSE entry[i].next
  <2>1. CASE tail = 0
    BY <1>2, <2>1, EntriesAre DEF Links
  <2>2. CASE tail # 0
    <3>1. tail \in DOMAIN entry /\ old = [entry EXCEPT ![tail] = [entry[tail] EXCEPT !.next = n]]
      BY <1>2, <2>2 DEF Links
    <3>2. [entry[tail] EXCEPT !.next = n] \in Entries
      BY <1>2, <3>1, EntriesAre, EntryChanged
    <3>3. old \in Seq(Entries) /\ Len(old) = Len(entry)
      BY <1>2, <3>1, <3>2 DEF Links
    <3>4. \A i \in DOMAIN entry :
            old[i] = IF i = tail THEN [entry[tail] EXCEPT !.next = n] ELSE entry[i]
      BY <3>1
    <3>5. /\ [entry[tail] EXCEPT !.next = n].next = n
          /\ [entry[tail] EXCEPT !.next = n].freed = entry[tail].freed
      BY <1>2, <3>1, EntriesAre DEF Entries
    <3> QED
      BY <3>3, <3>4, <3>5
  <2> QED
    BY <2>1, <2>2
<1>5. /\ entry' \in Seq(Entries) /\ DOMAIN entry' = 1..n
      /\ \A i \in DOMAIN entry : entry'[i] = old[i]
      /\ entry'[n] = new
  <2> HIDE DEF old, new
  <2> QED
    BY <1>1, <1>2, <1>3, <1>4, EntriesAre
<1>6. DOMAIN entry = 1..Len(entry) /\ DOMAIN entry \subseteq DOMAIN entry' /\ n \in DOMAIN entry'
  BY <1>2, <1>5, EntriesAre
<1>7. /\ \A i \in DOMAIN entry : /\ entry'[i].freed = entry[i].freed
                                 /\ entry'[i].next = IF i = tail THEN n ELSE entry[i].next
      /\ entry'[n].next = 0 /\ ~entry'[n].freed
  <2>1. new.next = 0 /\ ~new.freed
    OBVIOUS
  <2> HIDE DEF old, new
  <2> QED
    BY <1>4, <1>5, <2>1
<1> HIDE DEF old, new
<1>8. Links'
  <2>1. /\ head' \in {0} \cup DOMAIN entry' /\ tail' \in {0} \cup DOMAIN entry'
        /\ data' \in {0} \cup DOMAIN entry'
    BY <1>1, <1>2, <1>6 DEF Links
  <2>2. slot' \in [Keys -> {0} \cup DOMAIN entry']
    BY <1>1, <1>2, <1>6 DEF Links
  <2>3. ASSUME NEW i \in DOMAIN entry'
        PROVE  entry'[i].next = 0 \/ (entry'[i].next \in DOMAIN entry' /\ i < entry'[i].next)
    <3>1. CASE i = n
      BY <1>7, <3>1
    <3>2. CASE i # n
      <4>1. i \in DOMAIN entry /\ i < n
        BY <1>2, <1>5, <1>6, <3>2
      <4> QED
        BY <1>2, <1>6, <1>7, <4>1 DEF Links
    <3> QED
      BY <3>1, <3>2
  <2> QED
    BY <1>5, <2>1, <2>2, <2>3 DEF Links
<1>9. PICK S \in SUBSET DOMAIN entry : Closed(S)
  BY DEF LiveInv
<1>14. PICK T : T = S \cup {n}
  OBVIOUS
<1>10. T \in SUBSET DOMAIN entry'
  BY <1>6, <1>14
<1>11. head' \in T \cup {0}
  BY <1>1, <1>9, <1>14 DEF Closed
<1>12. ASSUME NEW m \in T PROVE entry'[m].next \in T \cup {0} /\ ~entry'[m].freed
  BY <1>7, <1>9, <1>14 DEF Closed
<1>13. Closed(T)'
  BY <1>10, <1>11, <1>12 DEF Closed
<1> QED
  BY <1>8, <1>10, <1>13 DEF LiveInv

LEMMA SetKeepsLive ==
  ASSUME LiveInv, NEW k \in Keys, NEW v \in Values \cup {Tss!NoValue}, Tss!SetValue(k, v),
         "dangling" \notin harm'
  PROVE  LiveInv'
<1>1. Links /\ slot[k] \in {0} \cup DOMAIN entry
  BY DEF LiveInv, Links
<1>2. CASE slot[k] # 0
  <2>1. /\ entry' = [entry EXCEPT ![slot[k]].value = v]
        /\ UNCHANGED <<head, slot, tail, data>>
    BY <1>2 DEF Tss!SetValue, Tss!cleanup, Tss!Null
  <2>2. LinksSame(entry, entry')
    BY <1>1, <1>2, <2>1, ValueChanged
  <2> QED
    BY <1>1, <2>1, <2>2, LinksStay DEF Links
<1>3. CASE slot[k] = 0 /\ Tss!TailGone
  <2>1. UNCHANGED <<entry, head, slot, tail, data>>
    BY <1>3 DEF Tss!SetValue, Tss!Undefined, Tss!Null
  <2> QED
    BY <1>1, <2>1, EntriesSame, LinksStay DEF Links
<1>4. CASE slot[k] = 0 /\ ~Tss!TailGone
  <2>1. Tss!NewEntry(k, v) /\ UNCHANGED data
    BY <1>4 DEF Tss!SetValue, Tss!cleanup, Tss!Null
  <2> QED
    BY <2>1, NewComesLast
<1> QED
  BY <1>2, <1>3, <1>4

LEMMA DeleteKeepsLive ==
  ASSUME LiveInv, NEW k \in Keys, Tss!Delete(k), "dangling" \notin harm'
  PROVE  LiveInv'
<1> DEFINE e == slot[k]
<1>1. Links /\ e \in {0} \cup DOMAIN entry
  BY DEF LiveInv, Links
<1>2. CASE UNCHANGED <<entry, head, tail, data>> /\ \A j \in Keys : slot'[j] \in {0, slot[j]}
           /\ slot' \in [Keys -> Nat]
  <2>1. Links'
    BY <1>1, <1>2 DEF Links
  <2>2. PICK S \in SUBSET DOMAIN entry : Closed(S)
    BY DEF LiveInv
  <2>3. Closed(S)'
    BY <1>2, <2>2 DEF Closed
  <2> QED
    BY <1>2, <2>1, <2>3 DEF LiveInv
<1>3. CASE Tss!Undefined
  <2>1. UNCHANGED <<entry, head, slot, tail, data>>
    BY <1>3 DEF Tss!Undefined
  <2> QED
    BY <1>1, <2>1, EntriesSame, LinksStay DEF Links
<1>4. ASSUME ~Tss!Undefined
      PROVE  /\ slot' = [slot EXCEPT ![k] = 0] /\ UNCHANGED data
             /\ IF e = 0 THEN UNCHANGED <<entry, head, tail>> ELSE Tss!DeleteEntry(e)
  BY <1>4 DEF Tss!Delete, Tss!Null, Tss!cleanup
<1>5. ASSUME ~Tss!Undefined
      PROVE  slot' \in [Keys -> Nat] /\ \A j \in Keys : slot'[j] \in {0, slot[j]}
  BY <1>1, <1>4, <1>5, EntriesAre DEF Links
<1>6. CASE ~Tss!Undefined /\ e = 0
  BY <1>2, <1>4, <1>5, <1>6
<1>7. CASE ~Tss!Undefined /\ e # 0
  <2>1. Tss!DeleteEntry(e)
    BY <1>4, <1>7
  <2>2. head \in {0, e}
    BY <2>1 DEF Tss!DeleteEntry, Tss!Null
  <2>3. /\ entry' = [entry EXCEPT ![e].freed = TRUE] /\ tail' \in {0, tail}
        /\ head' = IF e = head THEN entry[e].next ELSE head
    BY <2>1, <2>2 DEF Tss!DeleteEntry, Tss!Unlink, Tss!Null
  <2>4. CASE head = e
    BY <1>4, <1>5, <1>7, <2>3, <2>4, FirstGoes
  <2>5. CASE head = 0
    <3>1. e \in DOMAIN entry
      BY <1>1, <1>7
    <3>2. entry' = [entry EXCEPT ![e] = [entry[e] EXCEPT !.freed = TRUE]]
      BY <2>3
    <3>3. [entry[e] EXCEPT !.freed = TRUE] \in Entries
      BY <1>1, <3>1, EntriesAre, EntryChanged
    <3>4. entry' \in Seq(Entries) /\ DOMAIN entry' = DOMAIN entry
      BY <1>1, <3>1, <3>2, <3>3 DEF Links
    <3>5. \A j \in DOMAIN entry : entry'[j].next = entry[j].next
      BY <1>1, <3>1, <3>2, EntriesAre DEF Entries
    <3>6. Links'
      BY <1>1, <1>4, <1>5, <1>7, <2>3, <2>5, <3>4, <3>5 DEF Links
    <3>7. Closed({})'
      BY <1>7, <2>3, <2>5 DEF Closed
    <3> QED
      BY <3>6, <3>7 DEF LiveInv
  <2> QED
    BY <2>2, <2>4, <2>5
<1> QED
  BY <1>3, <1>6, <1>7

\* A destructor runs for an entry.
AtDestructor == phase = "destructor" => data # 0

LEMMA StaysAtDestructor ==
  ASSUME AtDestructor, [Tss!Next]_(Tss!vars) PROVE AtDestructor'
BY DEF AtDestructor, Tss!Next, Tss!vars, Tss!Create, Tss!Delete, Tss!Undefined, Tss!Set,
  Tss!SetValue, Tss!DestructorSets, Tss!Exit, Tss!Visit, Tss!DestructorReturns,
  Tss!NextPass, Tss!FreeEntry, Tss!FollowFreed, Tss!cleanup, Tss!Null

\* The steps that change no more than a value
LEMMA WalkKeepsLive ==
  ASSUME LiveInv, AtDestructor,
         \/ \E k \in Keys, kind \in {"plain", "dtor"} : Tss!Create(k, kind)
         \/ Tss!Exit \/ Tss!Visit \/ Tss!DestructorReturns \/ Tss!NextPass \/ Tss!FollowFreed
  PROVE  LiveInv'
<1>1. Links
  BY DEF LiveInv
<1>2. UNCHANGED <<head, slot, tail>>
  BY DEF Tss!Create, Tss!Exit, Tss!Visit, Tss!DestructorReturns, Tss!NextPass, Tss!FollowFreed,
    Tss!Undefined, Tss!cleanup
<1>3. CASE Tss!Visit
  <2>1. data \in DOMAIN entry /\ entry[data].next \in {0} \cup DOMAIN entry
    BY <1>1, <1>3 DEF Tss!Visit, Tss!Null, Links
  <2>2. entry' = [entry EXCEPT ![data].value = Tss!NoValue] /\ data' \in {data, entry[data].next}
    BY <1>3 DEF Tss!Visit
  <2>3. LinksSame(entry, entry')
    BY <1>1, <2>1, <2>2, ValueChanged
  <2> QED
    BY <1>2, <2>1, <2>2, <2>3, LinksStay
<1>4. CASE Tss!DestructorReturns
  <2>1. UNCHANGED entry /\ data' = entry[data].next
    BY <1>4 DEF Tss!DestructorReturns
  <2>2. data \in DOMAIN entry
    BY <1>1, <1>4 DEF Tss!DestructorReturns, AtDestructor, Links
  <2>3. data' \in {0} \cup DOMAIN entry
    BY <1>1, <2>1, <2>2 DEF Links
  <2> QED
    BY <1>1, <1>2, <2>1, <2>3, EntriesSame, LinksStay
<1>5. CASE ~Tss!Visit /\ ~Tss!DestructorReturns
  <2>1. UNCHANGED entry /\ data' \in {data, head}
    BY <1>5 DEF Tss!Create, Tss!Exit, Tss!NextPass, Tss!FollowFreed, Tss!Undefined, Tss!cleanup
  <2>2. data' \in {0} \cup DOMAIN entry
    BY <1>1, <2>1 DEF Links
  <2> QED
    BY <1>1, <1>2, <2>1, <2>2, EntriesSame, LinksStay
<1> QED
  BY <1>3, <1>4, <1>5

LEMMA FreeKeepsLive ==
  ASSUME LiveInv, Tss!FreeEntry
  PROVE  LiveInv'
<1>1. Links
  BY DEF LiveInv
<1>2. CASE head = 0
  <2>1. UNCHANGED <<entry, head, slot, data>> /\ tail' = 0
    BY <1>2 DEF Tss!FreeEntry, Tss!Null
  <2> QED
    BY <1>1, <2>1, EntriesSame, LinksStay DEF Links
<1>3. CASE head # 0
  <2>1. /\ entry' = [entry EXCEPT ![head].freed = TRUE] /\ head' = entry[head].next
        /\ UNCHANGED <<slot, data, tail>>
    BY <1>3 DEF Tss!FreeEntry, Tss!Null
  <2>2. slot \in [Keys -> Nat]
    BY <1>1, EntriesAre DEF Links
  <2> QED
    BY <1>3, <2>1, <2>2, FirstGoes
<1> QED
  BY <1>2, <1>3

LEMMA LiveStep ==
  ASSUME LiveInv, AtDestructor, [Tss!Next]_(Tss!vars), "dangling" \notin harm'
  PROVE  LiveInv'
<1>1. CASE \E k \in Keys : Tss!Delete(k)
  BY <1>1, DeleteKeepsLive
<1>2. CASE \E k \in Keys, v \in Values \cup {Tss!NoValue} : Tss!Set(k, v) \/ Tss!DestructorSets(k, v)
  BY <1>2, SetKeepsLive DEF Tss!Set, Tss!DestructorSets
<1>3. CASE Tss!FreeEntry
  BY <1>3, FreeKeepsLive
<1>4. CASE UNCHANGED Tss!vars
  <2>1. UNCHANGED <<entry, head, slot, tail, data>> /\ Links
    BY <1>4 DEF Tss!vars, LiveInv
  <2> QED
    BY <2>1, EntriesSame, LinksStay DEF Links
<1> QED
  BY <1>1, <1>2, <1>3, <1>4, WalkKeepsLive DEF Tss!Next

LEMMA DanglingStays ==
  ASSUME [Tss!Next]_(Tss!vars), "dangling" \notin harm' PROVE "dangling" \notin harm
BY DEF Tss!Next, Tss!vars, Tss!Create, Tss!Delete, Tss!DeleteEntry, Tss!Undefined, Tss!Set,
  Tss!SetValue, Tss!NewEntry, Tss!DestructorSets, Tss!Exit, Tss!Visit, Tss!DestructorReturns,
  Tss!NextPass, Tss!FreeEntry, Tss!FollowFreed

LEMMA LiveInit == Tss!Init => LiveInv /\ AtDestructor
<1> SUFFICES ASSUME Tss!Init PROVE LiveInv /\ AtDestructor
  OBVIOUS
<1>1. /\ entry = <<>> /\ phase = "running" /\ head = 0 /\ tail = 0 /\ data = 0
      /\ slot = [k \in Keys |-> 0]
  BY DEF Tss!Init, Tss!Null
<1>2. Links /\ Closed({})
  BY <1>1 DEF Links, Closed
<1> QED
  BY <1>1, <1>2 DEF LiveInv, AtDestructor

LEMMA InvTracked == LiveInv => Tss!TrackedAreLive
<1> SUFFICES ASSUME LiveInv PROVE Tss!TrackedAreLive
  OBVIOUS
<1>1. PICK S \in SUBSET DOMAIN entry : Closed(S)
  BY DEF LiveInv
<1>2. head \in S \cup {0} /\ Tss!FollowsNext(S) /\ \A m \in S : ~entry[m].freed
  BY <1>1 DEF Closed, Tss!FollowsNext, Tss!Null
<1>3. \A n \in Tss!ListedFrom(head) : n \in S
  BY <1>2 DEF Tss!ListedFrom, Tss!Null
<1> QED
  BY <1>2, <1>3 DEF Tss!TrackedAreLive

\* A thread that ends gives each value it had to its destructor, in the first pass and once
\* in a pass, walks over live entries only and leaves none behind, whatever values the
\* destructors set again, for any number of keys: unless the list has been harmed by a third
\* entry, by the deletion of a key whose entry is not the first one or by a TlsSetValue that
\* failed.  Where entries were lost to the first two of these and no link dangles, what the
\* list leads to is live all the same.
THEOREM StorageCorrect == MCSpec => []ThreadExitCleansUp
<1> DEFINE unharmed == harm = {} => ListInv /\ PassInv
           undangled == "dangling" \notin harm => LiveInv
           inv == unharmed /\ undangled /\ AtDestructor
<1>1. MCInit => inv
  BY StorageInit, LiveInit DEF MCInit
<1>2. inv /\ [MCNext]_allVars => inv'
  <2> SUFFICES ASSUME inv, [Tss!Next]_(Tss!vars) PROVE inv'
    BY StepsOfStorage
  <2>1. unharmed'
    BY StorageStep, HarmStays
  <2>2. undangled'
    BY LiveStep, DanglingStays
  <2>3. AtDestructor'
    BY StaysAtDestructor
  <2> QED
    BY <2>1, <2>2, <2>3
<1>3. inv => ThreadExitCleansUp
  BY InvCleansUp, InvTracked DEF ThreadExitCleansUp, Tss!ThreadExitCleansUp
<1> QED
  BY <1>1, <1>2, <1>3, PTL DEF MCSpec
===============================================================================
