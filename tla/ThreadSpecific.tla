---------------------------- MODULE ThreadSpecific ----------------------------
(***************************************************************************)
(* Thread-specific storage of concurrent/concurrent.c on Windows, for one  *)
(* thread: the slot TlsGetValue answers from, the list of the entries that *)
(* its exit goes through, and the pass over that list, in which each       *)
(* destructor may set values again.                                        *)
(***************************************************************************)
EXTENDS Naturals, Sequences

CONSTANTS
  Keys,
  Values,
  TSS_DTOR_ITERATIONS,
  Deletable,       \* the keys that the program may delete
  MaxResets,       \* bounds the values that destructors set
  Failing          \* the entries, as they are made, for which TlsSetValue may fail

VARIABLES
  key,        \* of each key "none", "plain", "dtor" (has a destructor) or "deleted"
  slot,       \* the entry of each key, Null where there is none
  entry,      \* what has been allocated; freed says whether it has been freed
  head, tail, \* _cthread_tss_head, _cthread_tss_tail
  phase,      \* "running", "cleanup", "destructor", "freeing" or "exited"; "undefined" once
              \* an entry that has been freed, or none at all, has been followed
  data, pass, again,   \* the locals of _cthread_tss_cleanup
  resets,
  atExit,     \* history: what the keys had when the exit began
  ran,        \* history: the destructors that ran, with their values
  harm        \* history: "lost" when an entry has dropped out of the list, "dangling" when
              \* one has been freed that the list or the tail still leads to

vars == <<key, slot, entry, head, tail, phase, data, pass, again, resets, atExit, ran, harm>>
cleanup == <<data, pass, again, atExit, ran>>

Null == 0
NoValue == "NULL"

Init ==
  /\ key = [k \in Keys |-> "none"]
  /\ slot = [k \in Keys |-> Null]
  /\ entry = <<>>
  /\ head = Null /\ tail = Null
  /\ phase = "running"
  /\ data = Null /\ pass = 0 /\ again = FALSE
  /\ resets = 0
  /\ atExit = [k \in Keys |-> NoValue]
  /\ ran = <<>>
  /\ harm = {}

Alive(k) == key[k] \in {"plain", "dtor"}
Value(k) == IF slot[k] = Null THEN NoValue ELSE entry[slot[k]].value

-----------------------------------------------------------------------------

Undefined ==
  /\ phase' = "undefined"
  /\ UNCHANGED <<key, slot, entry, head, tail, data, pass, again, atExit, ran, harm>>

Create(k, kind) ==
  /\ phase = "running" /\ key[k] = "none"
  /\ key' = [key EXCEPT ![k] = kind]
  /\ UNCHANGED <<slot, entry, head, tail, phase, resets, harm, cleanup>>

\* What is reached from the entry n: it is in every set that contains n and what comes next.
FollowsNext(S) == \A m \in S : entry[m].next \in S \cup {Null}
ListedFrom(n) ==
  {m \in DOMAIN entry :
     \A S \in SUBSET DOMAIN entry : n \in S \cup {Null} /\ FollowsNext(S) => m \in S}

\* The walk from head to the entry before e, entries being linked in the order in which
\* they were made: it goes astray when it follows an entry that has been freed or comes to
\* the list's end.
Astray(e) ==
  \/ e \notin ListedFrom(head)
  \/ \E m \in ListedFrom(head) : m < e /\ entry[m].freed

Before(e) == CHOOSE m \in ListedFrom(head) : entry[m].next = e

\* Mutant: the first entry is freed and stays the first one.
UnlinkFromTail(e, prev) ==
  /\ head' = head
  /\ tail' = IF e = tail THEN prev ELSE tail

\* Only the first entry is unlinked; the entry before any other keeps leading to it.
Unlink(e, prev) ==
  /\ head' = IF e = head THEN entry[e].next ELSE head
  /\ tail' = IF e = tail THEN prev ELSE tail

\* thread_specific_delete where the thread has an entry of the key, which it frees
DeleteEntry(e) ==
  /\ Unlink(e, IF head \in {Null, e} THEN Null ELSE Before(e))
  /\ entry' = [entry EXCEPT ![e].freed = TRUE]
  /\ harm' = IF head \in {Null, e} THEN harm ELSE harm \cup {"dangling"}

\* Only the calling thread's slot is looked at; the walk to the entry before it may go
\* astray on a list that has been harmed.
Delete(k) ==
  LET e == slot[k]
      astray == e # Null /\ head \notin {Null, e} /\ Astray(e)
  IN  /\ phase = "running" /\ Alive(k) /\ k \in Deletable
      /\ UNCHANGED resets
      /\ \/ astray /\ Undefined
         \/ /\ ~astray
            /\ key' = [key EXCEPT ![k] = "deleted"]
            /\ slot' = [slot EXCEPT ![k] = Null]
            /\ IF e = Null THEN UNCHANGED <<entry, head, tail, harm>> ELSE DeleteEntry(e)
            /\ UNCHANGED <<phase, cleanup>>

\* A new entry n comes after tail, which stays where it is.
Track(n) ==
  /\ tail' = IF tail = Null THEN n ELSE tail
  /\ head' = IF head = Null THEN n ELSE head

AfterTail(n, new) ==
  Append(IF tail = Null THEN entry ELSE [entry EXCEPT ![tail].next = n], new)

TailGone == tail # Null /\ entry[tail].freed

\* A new entry that becomes the tail is led to by head alone, and one that comes after
\* the tail takes the place of what came there before.
Lost == IF (IF tail = Null THEN head # Null ELSE entry[tail].next # Null)
        THEN {"lost"} ELSE {}

\* thread_specific_set of a key without an entry, where there is memory for one: when
\* TlsSetValue fails the entry, which is on the list by then, is freed.
NewEntry(k, v) ==
  LET n == Len(entry) + 1
      new == [value |-> v, key |-> k, next |-> Null, freed |-> FALSE]
  IN  /\ Track(n)
      /\ \/ /\ entry' = AfterTail(n, new)
            /\ slot' = [slot EXCEPT ![k] = n]
            /\ harm' = harm \cup Lost
         \/ /\ n \in Failing
            /\ entry' = AfterTail(n, [new EXCEPT !.value = NoValue, !.freed = TRUE])
            /\ slot' = slot
            /\ harm' = harm \cup Lost \cup {"dangling"}

\* thread_specific_set: the value is v.
SetValue(k, v) ==
  \/ /\ slot[k] # Null
     /\ entry' = [entry EXCEPT ![slot[k]].value = v]
     /\ UNCHANGED <<key, slot, head, tail, phase, harm, cleanup>>
  \/ /\ slot[k] = Null /\ ~TailGone
     /\ NewEntry(k, v)
     /\ UNCHANGED <<key, phase, cleanup>>
  \/ slot[k] = Null /\ TailGone /\ Undefined

Set(k, v) == phase = "running" /\ Alive(k) /\ SetValue(k, v) /\ UNCHANGED resets

-----------------------------------------------------------------------------
(* _cthread_tss_cleanup, when the thread ends                              *)

Exit ==
  /\ phase = "running"
  /\ atExit' = [k \in Keys |-> IF Alive(k) THEN Value(k) ELSE NoValue]
  /\ phase' = IF head = Null THEN "exited" ELSE "cleanup"
  /\ data' = head /\ pass' = 1
  /\ UNCHANGED <<key, slot, entry, head, tail, again, resets, ran, harm>>

\* A value is taken out first; then its destructor runs, which may set a value of any
\* key; what comes next on the list is looked up after that.
Visit ==
  LET e == entry[data]
      runs == e.value # NoValue /\ key[e.key] = "dtor"
  IN  /\ phase = "cleanup" /\ data # Null /\ ~e.freed
      /\ again' = (again \/ runs)
      /\ ran' = IF runs THEN Append(ran, <<e.key, e.value, pass>>) ELSE ran
      /\ entry' = [entry EXCEPT ![data].value = NoValue]
      /\ phase' = IF runs THEN "destructor" ELSE phase
      /\ data' = IF runs THEN data ELSE e.next
      /\ UNCHANGED <<key, slot, head, tail, pass, resets, atExit, harm>>

DestructorReturns ==
  /\ phase = "destructor"
  /\ phase' = "cleanup"
  /\ data' = entry[data].next
  /\ UNCHANGED <<key, slot, entry, head, tail, pass, again, resets, atExit, ran, harm>>

DestructorSets(k, v) ==
  /\ phase = "destructor" /\ Alive(k)
  /\ resets < MaxResets
  /\ resets' = resets + 1
  /\ SetValue(k, v)

\* Another pass where a destructor ran, up to TSS_DTOR_ITERATIONS of them
NextPass ==
  /\ phase = "cleanup" /\ data = Null
  /\ IF again /\ pass < TSS_DTOR_ITERATIONS
     THEN data' = head /\ pass' = pass + 1 /\ phase' = "cleanup"
     ELSE data' = head /\ phase' = "freeing" /\ UNCHANGED pass
  /\ again' = FALSE
  /\ UNCHANGED <<key, slot, entry, head, tail, resets, atExit, ran, harm>>

FreeEntry ==
  /\ phase = "freeing"
  /\ IF head = Null THEN phase' = "exited" /\ tail' = Null /\ UNCHANGED <<entry, head>>
     ELSE /\ ~entry[head].freed
          /\ head' = entry[head].next
          /\ entry' = [entry EXCEPT ![head].freed = TRUE]
          /\ UNCHANGED <<phase, tail>>
  /\ UNCHANGED <<key, slot, data, pass, again, resets, atExit, ran, harm>>

\* The walk of the pass, or of the loop that frees, comes to an entry that has been freed.
FollowFreed ==
  /\ \/ phase = "cleanup" /\ data # Null /\ entry[data].freed
     \/ phase = "freeing" /\ head # Null /\ entry[head].freed
  /\ Undefined /\ UNCHANGED resets

Next ==
  \/ \E k \in Keys :
       \/ \E kind \in {"plain", "dtor"} : Create(k, kind)
       \/ Delete(k)
       \/ \E v \in Values \cup {NoValue} : Set(k, v)
       \/ \E v \in Values : DestructorSets(k, v)
  \/ Exit \/ Visit \/ DestructorReturns \/ NextPass \/ FreeEntry \/ FollowFreed

Spec == Init /\ [][Next]_vars

-----------------------------------------------------------------------------

\* The entries that the exit goes through are not freed.
TrackedAreLive == \A n \in ListedFrom(head) : ~entry[n].freed

\* What thread_specific_create documents: each value that a key with a destructor has
\* when the thread ends is given to it, in the first pass and once.
DestructorsRun ==
  phase \in {"freeing", "exited"} =>
    \A k \in Keys : atExit[k] # NoValue /\ key[k] = "dtor" =>
      \E i \in DOMAIN ran : ran[i][1] = k /\ ran[i][3] = 1

\* The end of a thread follows no entry that is gone, leaves none behind, and no value
\* but what destructors set again in each of the passes that they get.
CleansUp ==
  /\ phase # "undefined"
  /\ TrackedAreLive
  /\ DestructorsRun
  /\ \A i, j \in DOMAIN ran : i # j /\ ran[i][1] = ran[j][1] => ran[i][3] # ran[j][3]
  /\ phase = "exited" => \A n \in DOMAIN entry : entry[n].freed
  /\ phase = "freeing" =>
       \A k \in Keys : key[k] = "dtor" /\ Value(k) # NoValue => pass = TSS_DTOR_ITERATIONS

\* The end of a thread cleans up, for any number of keys, as long as the list has not been
\* harmed: no third entry came after the tail and none after the first was deleted with
\* its key (both "lost"), no key was deleted whose entry is not the first one and no
\* TlsSetValue failed (both "dangling").  Where entries were only lost, every entry that
\* is still on the list is there.
ThreadExitCleansUp ==
  /\ harm = {} => CleansUp
  /\ "dangling" \notin harm => TrackedAreLive
===============================================================================
