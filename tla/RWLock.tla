-------------------------------- MODULE RWLock --------------------------------
(***************************************************************************)
(* The read-write lock of concurrent/concurrent.c: three counters under    *)
(* one mutex, and two condition variables.  One action is one critical     *)
(* section; a thread blocked on a condition variable is one whose program  *)
(* counter says so.                                                        *)
(*                                                                         *)
(* A call that is granted at once and one of the try calls that succeeds   *)
(* are the same step; a try call that answers THREAD_BUSY changes nothing. *)
(***************************************************************************)
EXTENDS Integers, FiniteSets

CONSTANT Threads

ASSUME ThreadsAssumption == IsFiniteSet(Threads)

VARIABLES
  active_readers,
  active_writers,
  waiting_writers,
  pc    \* where each thread is in its calls

vars == <<active_readers, active_writers, waiting_writers, pc>>

States == {"idle", "reading", "writing",
           "rBlocked", "rTest",    \* in rwlock_rdlock: on readers_ok, and woken
           "wBlocked", "wTest"}    \* in rwlock_wrlock: on writers_ok, and woken

In(s) == {t \in Threads : pc[t] = s}
Waiting == In("wBlocked") \cup In("wTest")

Init ==
  /\ active_readers = 0
  /\ active_writers = 0
  /\ waiting_writers = 0
  /\ pc = [t \in Threads |-> "idle"]

-----------------------------------------------------------------------------
(* The condition variables.                                                *)

\* condition_signal(&writers_ok), in a step that leaves the threads at next
SignalWriter(next) ==
  IF In("wBlocked") = {}
  THEN pc' = next
  ELSE \E w \in In("wBlocked") : pc' = [next EXCEPT ![w] = "wTest"]

\* condition_broadcast(&readers_ok)
BroadcastReaders(next) ==
  pc' = [t \in Threads |-> IF pc[t] = "rBlocked" THEN "rTest" ELSE next[t]]

SpuriousWake(t) ==
  /\ pc[t] \in {"rBlocked", "wBlocked"}
  /\ pc' = [pc EXCEPT ![t] = IF @ = "rBlocked" THEN "rTest" ELSE "wTest"]
  /\ UNCHANGED <<active_readers, active_writers, waiting_writers>>

-----------------------------------------------------------------------------
(* rwlock_rdlock and rwlock_tryrdlock                                      *)

ReadersMayEnter == active_writers = 0 /\ waiting_writers = 0

StartReading(t) ==
  /\ pc[t] \in {"idle", "rTest"}
  /\ ReadersMayEnter
  /\ active_readers' = active_readers + 1
  /\ pc' = [pc EXCEPT ![t] = "reading"]
  /\ UNCHANGED <<active_writers, waiting_writers>>

\* condition_wait(&readers_ok), on the first test or on a later one
BlockReader(t) ==
  /\ pc[t] \in {"idle", "rTest"}
  /\ ~ReadersMayEnter
  /\ pc' = [pc EXCEPT ![t] = "rBlocked"]
  /\ UNCHANGED <<active_readers, active_writers, waiting_writers>>

-----------------------------------------------------------------------------
(* rwlock_wrlock and rwlock_trywrlock                                      *)

\* Mutant: a writer looks at the other writers only.
WritersMayEnterBesideReaders == active_writers = 0

WritersMayEnter == active_readers = 0 /\ active_writers = 0

\* Granted on the first test: waiting_writers goes up and down in one section.
StartWriting(t) ==
  /\ pc[t] = "idle"
  /\ WritersMayEnter
  /\ active_writers' = 1
  /\ pc' = [pc EXCEPT ![t] = "writing"]
  /\ UNCHANGED <<active_readers, waiting_writers>>

BlockWriter(t) ==
  /\ pc[t] = "idle"
  /\ ~WritersMayEnter
  /\ waiting_writers' = waiting_writers + 1
  /\ pc' = [pc EXCEPT ![t] = "wBlocked"]
  /\ UNCHANGED <<active_readers, active_writers>>

\* Mutant: a writer that had to wait stays counted among the waiting ones.
WriterResumesStillCounted(t) ==
  /\ pc[t] = "wTest"
  /\ WritersMayEnter
  /\ active_writers' = 1
  /\ pc' = [pc EXCEPT ![t] = "writing"]
  /\ UNCHANGED <<active_readers, waiting_writers>>

WriterResumes(t) ==
  /\ pc[t] = "wTest"
  /\ WritersMayEnter
  /\ waiting_writers' = waiting_writers - 1
  /\ active_writers' = 1
  /\ pc' = [pc EXCEPT ![t] = "writing"]
  /\ UNCHANGED active_readers

WriterWaitsAgain(t) ==
  /\ pc[t] = "wTest"
  /\ ~WritersMayEnter
  /\ pc' = [pc EXCEPT ![t] = "wBlocked"]
  /\ UNCHANGED <<active_readers, active_writers, waiting_writers>>

-----------------------------------------------------------------------------
(* rwlock_unlock: the counters, not the caller, say which mode is released *)

UnlockWrite(t) ==
  /\ pc[t] = "writing"
  /\ active_writers > 0
  /\ active_writers' = 0
  /\ LET next == [pc EXCEPT ![t] = "idle"]
     IN  IF waiting_writers > 0 THEN SignalWriter(next) ELSE BroadcastReaders(next)
  /\ UNCHANGED <<active_readers, waiting_writers>>

\* Mutant: the last reader leaves without waking the writer it kept out.
UnlockReadWakingNobody(t) ==
  /\ pc[t] = "reading"
  /\ active_writers = 0
  /\ active_readers > 0
  /\ active_readers' = active_readers - 1
  /\ pc' = [pc EXCEPT ![t] = "idle"]
  /\ UNCHANGED <<active_writers, waiting_writers>>

UnlockRead(t) ==
  /\ pc[t] = "reading"
  /\ active_writers = 0
  /\ active_readers > 0
  /\ active_readers' = active_readers - 1
  /\ LET next == [pc EXCEPT ![t] = "idle"]
     IN  IF active_readers' = 0 /\ waiting_writers > 0
         THEN SignalWriter(next)
         ELSE pc' = next
  /\ UNCHANGED <<active_writers, waiting_writers>>

-----------------------------------------------------------------------------

\* What a thread does once the platform schedules it, the lock it asked for is
\* free or the section it protects is over.
Proceed(t) ==
  \/ pc[t] = "rTest" /\ (StartReading(t) \/ BlockReader(t))
  \/ WriterResumes(t)
  \/ WriterWaitsAgain(t)
  \/ UnlockWrite(t)
  \/ UnlockRead(t)

\* A new call.
Call(t) ==
  \/ pc[t] = "idle" /\ (StartReading(t) \/ BlockReader(t))
  \/ StartWriting(t)
  \/ BlockWriter(t)

Next == \E t \in Threads : Proceed(t) \/ Call(t) \/ SpuriousWake(t)

Spec == Init /\ [][Next]_vars

\* Threads are scheduled and every section ends; nobody is made to call.
FairSpec == Spec /\ \A t \in Threads : WF_vars(Proceed(t))

-----------------------------------------------------------------------------

TypeOK ==
  /\ active_readers \in Nat
  /\ active_writers \in {0, 1}
  /\ waiting_writers \in Nat
  /\ pc \in [Threads -> States]

\* The three counters are what they are named for: rwlock_unlock, which never
\* asks who calls it, can therefore tell a reader from a writer.
CountersExact ==
  /\ active_readers = Cardinality(In("reading"))
  /\ active_writers = Cardinality(In("writing"))
  /\ waiting_writers = Cardinality(Waiting)

\* A writer has the lock to itself.
Exclusive ==
  In("writing") # {} => In("reading") = {} /\ Cardinality(In("writing")) = 1

\* When the lock is free, somebody who can take it is awake: a waiting writer if
\* there is one, else no reader is left on readers_ok.
NobodyForgotten ==
  active_readers = 0 /\ active_writers = 0 =>
    IF Waiting # {} THEN In("wTest") # {} ELSE In("rBlocked") = {}

\* No reader enters past a writer that is waiting in rwlock_wrlock.
WriterPreference ==
  [][ \A t \in Threads : pc[t] # "reading" /\ pc'[t] = "reading" => Waiting = {} ]_vars

\* A steady stream of readers cannot starve the writers: while one waits, writers enter.
WritersEnter == Waiting # {} ~> In("writing") # {}

\* One thread stands for all of them, because nothing tells them apart.
Anyone == CHOOSE t \in Threads : TRUE

\* Which of the waiting writers enters is the platform's choice; the only one does.
OnlyWriterEnters ==
  (Anyone \in Waiting /\ [](In("writing") \cup Waiting \subseteq {Anyone}))
    ~> pc[Anyone] = "writing"

\* A reader is kept out only as long as writers keep coming.
ReadersEnter ==
  (pc[Anyone] = "rBlocked" /\ [](In("writing") \cup Waiting = {})) ~> pc[Anyone] = "reading"

\* Neither side keeps the other out by itself.
WaitersEnter == WritersEnter /\ OnlyWriterEnters /\ ReadersEnter

-----------------------------------------------------------------------------

Mode(t) == IF pc[t] \in {"reading", "writing"} THEN pc[t] ELSE "none"

Shared == INSTANCE SharedLock WITH mode <- [t \in Threads |-> Mode(t)]

ImplementsSharedLock == Shared!Spec
===============================================================================
