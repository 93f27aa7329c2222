-------------------------------- MODULE ItemMap --------------------------------
(***************************************************************************)
(* What the containers with keys promise: each object is a function from   *)
(* some keys to values, and a call either does to it what its name says    *)
(* or, where there was no memory, nothing.  Map, Set and HashMap implement *)
(* it; a set holds the value Nothing with each of its keys.                *)
(***************************************************************************)
EXTENDS Calls, FiniteSetsExt

CONSTANTS
  Objects,
  Owners    \* the objects that were made with functions to deallocate keys and values

VARIABLES
  entries,  \* the function of each object
  owns,     \* whether the object deallocates keys and values
  call      \* the last call; its result is what it deallocated, in that order

vars == <<entries, owns, call>>

Is(ops) == call'.op \in ops
Mine == entries[call'.on]
Other == entries[call'.with]
Arg == call'.args

Becomes(f) == entries' = [entries EXCEPT ![call'.on] = f] /\ UNCHANGED owns
With(f, k, v) == [j \in DOMAIN f \cup {k} |-> IF j = k THEN v ELSE f[j]]
Only(f, keys) == [j \in keys |-> f[j]]

\* Keys and values that are deallocated: each as often as it was there, if at all
Releases(keys, values) ==
  IF owns[call'.on]
  THEN LET times(what) == Quantify(DOMAIN call'.result, LAMBDA i : call'.result[i] = what)
           live == {j \in DOMAIN values : values[j] # Nothing}
       IN  /\ \A k \in keys : times(<<"key", k>>) = 1
           /\ \A j \in live :
                times(<<"value", values[j]>>) = Quantify(live, LAMBDA i : values[i] = values[j])
           /\ Len(call'.result) = Cardinality(keys) + Cardinality(live)
  ELSE call'.result = NULL

Done(f) == call'.ok /\ Becomes(f)
Refused == ~call'.ok /\ call'.result = NULL /\ UNCHANGED <<entries, owns>>
OutOfMemory == ~call'.memory /\ Refused

Init ==
  /\ entries = [o \in Objects |-> [k \in {} |-> Nothing]]
  /\ owns = [o \in Objects |-> o \in Owners]
  /\ call = NoCall

-----------------------------------------------------------------------------

\* A value in place of the one the key has, which is deallocated, and so is the key
\* where it is another copy than the one that stays
Insert ==
  /\ Is({"insert"})
  /\ LET k == Arg[1]
     IN  \/ k \in DOMAIN Mine /\ Releases(IF Arg[3] THEN {k} ELSE {}, Only(Mine, {k}))
            /\ Done(With(Mine, k, Arg[2]))
         \/ k \notin DOMAIN Mine /\ Done(With(Mine, k, Arg[2])) /\ call'.result = NULL
         \/ OutOfMemory

\* The value Nothing where there is none yet
Bracket ==
  /\ Is({"bracket"})
  /\ \/ Done(With(Mine, Arg[1], IF Arg[1] \in DOMAIN Mine THEN Mine[Arg[1]] ELSE Nothing))
        /\ call'.result = NULL
     \/ OutOfMemory

\* Only where the key is not there
Emplace ==
  /\ Is({"emplace"})
  /\ IF Arg[1] \in DOMAIN Mine THEN Refused
     ELSE (Done(With(Mine, Arg[1], Arg[2])) /\ call'.result = NULL) \/ OutOfMemory

Erase ==
  /\ Is({"erase"})
  /\ IF Arg[1] \in DOMAIN Mine
     THEN /\ Releases({Arg[1]}, Only(Mine, {Arg[1]}))
          /\ Done(Only(Mine, DOMAIN Mine \ {Arg[1]}))
     ELSE Refused

Clear ==
  /\ Is({"clear"})
  /\ Releases(DOMAIN Mine, Mine)
  /\ Done(Only(Mine, {}))

Swap ==
  /\ Is({"swap"})
  /\ call'.ok /\ call'.result = NULL
  /\ entries' = [entries EXCEPT ![call'.on] = Other, ![call'.with] = Mine]
  /\ owns' = [owns EXCEPT ![call'.on] = owns[call'.with], ![call'.with] = owns[call'.on]]

\* A copy in place of the object: it owns nothing.
Replaced == call'.ok /\ owns' = [owns EXCEPT ![call'.on] = FALSE]
CopyOf(keys) ==
  /\ Is({"copy"}) /\ Replaced
  /\ call'.on # call'.with => Releases(DOMAIN Mine, Mine)
  /\ entries' = [entries EXCEPT ![call'.on] = Only(Other, keys)]

\* What two sets make, in place of the first
Both == [k \in DOMAIN Mine \cup DOMAIN Other |-> IF k \in DOMAIN Mine THEN Mine[k] ELSE Other[k]]
Combined ==
  LET common == DOMAIN Mine \cap DOMAIN Other
  IN  CASE Is({"union"}) -> DOMAIN Both
        [] Is({"intersection"}) -> common
        [] Is({"difference"}) -> DOMAIN Mine \ common
        [] OTHER -> DOMAIN Both \ common
Operations == {"union", "intersection", "difference", "symmetric_difference"}
CombinationOf(keys) == Is(Operations) /\ Done(Only(Both, keys)) /\ call'.result = NULL

Copy == CopyOf(DOMAIN Other) \/ (Is({"copy"}) /\ OutOfMemory)
Combine == CombinationOf(Combined) \/ (Is(Operations) /\ OutOfMemory)

\* What is not promised, and what map_copy, hashmap_copy and the set operations do where
\* memory fails in between: the copy or the combination lacks some keys, and is handed
\* out as if it were whole.
Partial ==
  /\ ~call'.memory
  /\ \/ \E keys \in SUBSET DOMAIN Other \ {DOMAIN Other} : CopyOf(keys)
     \/ \E keys \in SUBSET Combined \ {Combined} : CombinationOf(keys)

\* What is inside is not touched.
Keep == Is({"rehash", "reserve", "max_load_factor"}) /\ UNCHANGED <<entries, owns>>

Next ==
  /\ call' # NoCall
  /\ Insert \/ Bracket \/ Emplace \/ Erase \/ Clear \/ Swap \/ Copy \/ Combine \/ Keep

Spec == Init /\ [][Next]_vars

\* The promise, but for copies and combinations that memory did not suffice for
SpecButPartial == Init /\ [][Next \/ (call' # NoCall /\ Partial)]_vars
===============================================================================
