------------------------------ MODULE SharedLock ------------------------------
(***************************************************************************)
(* What a read-write lock promises: any number of readers or one writer,   *)
(* one thread changing its mode at a time.                                 *)
(***************************************************************************)
CONSTANT Threads

VARIABLE mode

vars == <<mode>>

Init == mode = [t \in Threads |-> "none"]

Read(t) ==
  /\ mode[t] = "none"
  /\ \A u \in Threads : mode[u] # "writing"
  /\ mode' = [mode EXCEPT ![t] = "reading"]

Write(t) ==
  /\ \A u \in Threads : mode[u] = "none"
  /\ mode' = [mode EXCEPT ![t] = "writing"]

Release(t) ==
  /\ mode[t] # "none"
  /\ mode' = [mode EXCEPT ![t] = "none"]

Next == \E t \in Threads : Read(t) \/ Write(t) \/ Release(t)

Spec == Init /\ [][Next]_vars
===============================================================================
