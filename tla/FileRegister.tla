------------------------------ MODULE FileRegister ------------------------------
(***************************************************************************)
(* What an atomic replacement of a file promises: the file holds one whole *)
(* content, which a call replaces at once or leaves alone, and the answer  *)
(* says which. The machine may keep the content on its disk at any time,   *)
(* and a crash goes back to the content that it kept.                      *)
(***************************************************************************)
CONSTANTS Threads, Payloads, Nothing

VARIABLES value, durable, asked, answer

vars == <<value, durable, asked, answer>>

Init ==
  /\ value \in Payloads \union {Nothing}
  /\ durable = value
  /\ asked = [t \in Threads |-> Nothing]
  /\ answer = [t \in Threads |-> FALSE]

Ask(t, payload) ==
  /\ asked[t] = Nothing
  /\ asked' = [asked EXCEPT ![t] = payload]
  /\ answer' = [answer EXCEPT ![t] = FALSE]
  /\ UNCHANGED <<value, durable>>

Replace(t) ==
  /\ asked[t] # Nothing
  /\ value' = asked[t]
  /\ asked' = [asked EXCEPT ![t] = Nothing]
  /\ answer' = [answer EXCEPT ![t] = TRUE]
  /\ UNCHANGED durable

Refuse(t) ==
  /\ asked[t] # Nothing
  /\ asked' = [asked EXCEPT ![t] = Nothing]
  /\ UNCHANGED <<value, durable, answer>>

Keep ==
  /\ durable' = value
  /\ UNCHANGED <<value, asked, answer>>

\* Some threads are killed in their calls.
Kill(killed) ==
  /\ asked' = [t \in Threads |-> IF t \in killed THEN Nothing ELSE asked[t]]
  /\ UNCHANGED <<value, durable, answer>>

Crash ==
  /\ value' = durable
  /\ asked' = [t \in Threads |-> Nothing]
  /\ UNCHANGED <<durable, answer>>

Next ==
  \/ \E t \in Threads : (\E payload \in Payloads : Ask(t, payload)) \/ Replace(t) \/ Refuse(t)
  \/ \E killed \in SUBSET Threads : Kill(killed)
  \/ Keep
  \/ Crash

Spec == Init /\ [][Next]_vars
================================================================================
