------------------------------- MODULE LogProofs -------------------------------
(***************************************************************************)
(* Safety of the logger, for any number of threads, levels, files and      *)
(* messages, whatever operations on files fail.                            *)
(***************************************************************************)
EXTENDS Log, FiniteSetTheorems, TLAPS

Files == Paths \cup Archives

\* A thread that holds the mutex, and one that has a message on its way
Inside == {"rate", "count", "filter", "console", "file"}
Active == Inside \cup {"lock"}
Unshown == Active \ {"file"}

\* The mutex lets one thread in, and a message belongs to one thread.
LockInv ==
  /\ TypeOK
  /\ \A t \in Threads : pc[t] \in Inside => lock = {t}
  /\ \A t \in Threads : pc[t] \in Active =>
       call[t].message \in Messages /\ call[t].message < next /\ call[t].level \in Levels
  /\ \A t, u \in Threads :
       pc[t] \in Active /\ pc[u] \in Active /\ call[t].message = call[u].message => t = u

\* A window lets through no more than it has counted, and a thread that is about to count
\* has found room, in this window or, if the limit was set since, in an empty one.
RateInv ==
  /\ \A l \in Levels : inWindow[l] <= log_counts[l]
  /\ RateLimited
  /\ \A t \in Threads : pc[t] = "count" =>
       /\ log_counts[call[t].level] <= call[t].count
       /\ rate_limit > 0 => inWindow[call[t].level] < rate_limit

-----------------------------------------------------------------------------
(* The mutex and the types                                                 *)

LEMMA LockInvInit == Init => LockInv
<1> SUFFICES ASSUME Init PROVE LockInv
  OBVIOUS
<1>1. \A t \in Threads : pc[t] \notin Inside /\ pc[t] \notin Active
  BY DEF Init, Inside, Active
<1>2. NoCall \in [message : Nat, level : Nat, count : Nat] /\ <<>> \in Seq(Lines)
  BY DEF NoCall
<1>3. call \in [Threads -> [message : Nat, level : Nat, count : Nat]]
  BY <1>2 DEF Init
<1>4. disk \in [Files -> Seq(Lines) \cup {None}] /\ disk[writer] = <<>>
  BY <1>2, LogAssumption DEF Init, Files
<1>5. disk[writer] # None
  BY <1>2, <1>4, LogAssumption
<1>6. TypeOK
  BY <1>2, <1>3, <1>4, <1>5, LogAssumption DEF Init, TypeOK, Files
<1> QED
  BY <1>1, <1>6 DEF LockInv

\* What a file is after an operation on the files
LEMMA Opened ==
  ASSUME NEW d \in [Files -> Seq(Lines) \cup {None}], NEW path \in Paths,
         NEW opened \in BOOLEAN, OpenWriter(d, path, opened)
  PROVE  /\ disk' \in [Files -> Seq(Lines) \cup {None}]
         /\ writer' \in Paths \cup {None}
         /\ writer' # None => disk'[writer'] # None
         /\ opened => writer' # None
         /\ \A p \in Files : disk'[p] = <<>> \/ disk'[p] = d[p]
         /\ \A p \in Files \ {path} : disk'[p] = d[p]
         /\ ~opened => disk' = d
<1>1. /\ path \in Files /\ path # None
      /\ <<>> \in Seq(Lines) /\ <<>> # None
  <2>1. <<>> \in Seq(Lines)
    OBVIOUS
  <2> QED
    BY <2>1, LogAssumption DEF Files
<1>2. CASE opened
  BY <1>1, <1>2 DEF OpenWriter
<1>3. CASE ~opened
  BY <1>3 DEF OpenWriter
<1> QED
  BY <1>2, <1>3

\* What the operations on files have in common: they run while nobody holds the mutex,
\* they move whole files, and unless they fail or write over a file they keep each of them.
FileStep ==
  /\ lock = {}
  /\ UNCHANGED <<gates, rate, lock, call, sinks, next>>
  /\ pc' \in [Threads -> {"idle", "lock", "rate", "count", "filter", "console",
                          "file", "rotate"}]
  /\ \A t \in Threads : pc'[t] = pc[t] \/ (pc[t] = "rotate" /\ pc'[t] = "idle")
  /\ output' \in {"console", "file", "both"}
  /\ current_file_path' \in Paths
  /\ writer' \in Paths \cup {None}
  /\ disk' \in [Files -> Seq(Lines) \cup {None}]
  /\ writer' # None => disk'[writer'] # None
  /\ \A p \in Files : disk'[p] \in {None, <<>>} \/ \E q \in Files : disk'[p] = disk[q]
  /\ failed => failed'
  /\ ~failed' /\ writer # None => writer' # None
  /\ ~failed' /\ ~reused' =>
       ~reused /\ \A q \in Files : disk[q] # None => \E p \in Files : disk'[p] = disk[q]

LEMMA RotateSteps ==
  ASSUME LockInv, NEW t \in Threads, Rotate(t)
  PROVE  FileStep
<1> USE DEF LockInv
<1>1. /\ lock = {} /\ pc[t] = "rotate" /\ pc' = [pc EXCEPT ![t] = "idle"]
      /\ UNCHANGED <<gates, rate, lock, call, sinks, next, output, current_file_path>>
  BY DEF Rotate, Goto
<1>2. /\ pc' \in [Threads -> {"idle", "lock", "rate", "count", "filter", "console",
                              "file", "rotate"}]
      /\ \A u \in Threads : pc'[u] = pc[u] \/ (pc[u] = "rotate" /\ pc'[u] = "idle")
  <2>1. pc \in [Threads -> {"idle", "lock", "rate", "count", "filter", "console",
                            "file", "rotate"}]
    BY DEF TypeOK
  <2> QED
    BY <1>1, <2>1
<1>3. CASE UNCHANGED <<writer, disk, reused, failed>>
  BY <1>1, <1>2, <1>3 DEF FileStep, TypeOK, Files
<1>4. ASSUME NEW archive \in Archives, NEW renamed \in BOOLEAN, NEW opened \in BOOLEAN,
             RotateFile(archive, renamed, opened),
             failed' = (failed \/ ~opened \/ ~renamed), Overwrites({archive})
      PROVE  FileStep
  <2> DEFINE source == current_file_path
             removed == [disk EXCEPT ![archive] = None]
             moved == [removed EXCEPT ![archive] = removed[source], ![source] = None]
  <2>1. /\ source \in Files /\ archive \in Files /\ source # archive /\ source \in Paths
        /\ disk \in [Files -> Seq(Lines) \cup {None}]
    BY LogAssumption DEF TypeOK, Files
  <2>2. PICK d \in [Files -> Seq(Lines) \cup {None}] :
          /\ OpenWriter(d, source, opened)
          /\ \/ d = moved /\ renamed /\ disk[source] # None
             \/ d = removed /\ (renamed => disk[source] = None)
    <3>1. removed \in [Files -> Seq(Lines) \cup {None}] /\ removed[source] = disk[source]
      BY <2>1
    <3>2. moved \in [Files -> Seq(Lines) \cup {None}]
      BY <2>1, <3>1
    <3>3. CASE renamed /\ removed[source] # None
      <4>1. OpenWriter(moved, source, opened)
        BY <1>4, <3>3 DEF RotateFile
      <4> QED
        BY <3>1, <3>2, <3>3, <4>1
    <3>4. CASE ~(renamed /\ removed[source] # None)
      <4>1. OpenWriter(removed, source, opened)
        BY <1>4, <3>4 DEF RotateFile
      <4> QED
        BY <3>1, <3>4, <4>1
    <3> QED
      BY <3>3, <3>4
  <2>3. \A p \in Files : d[p] = None \/ \E q \in Files : d[p] = disk[q]
    BY <2>1, <2>2
  <2>4. \A p \in Files : disk'[p] \in {None, <<>>} \/ \E q \in Files : disk'[p] = disk[q]
    BY <2>1, <2>2, <2>3, Opened
  <2>5. ASSUME ~failed', ~reused'
        PROVE  ~reused /\ \A q \in Files : disk[q] # None => \E p \in Files : disk'[p] = disk[q]
    <3>1. opened /\ renamed /\ ~reused /\ disk[archive] = None
      BY <1>4, <2>5 DEF Overwrites
    <3>2. \A p \in Files \ {source} : disk'[p] = d[p]
      BY <2>1, <2>2, Opened
    <3>3. CASE disk[source] = None
      BY <2>1, <2>2, <3>1, <3>2, <3>3
    <3>4. CASE disk[source] # None
      <4>1. d[archive] = disk[source]
        BY <2>1, <2>2, <3>1, <3>4
      <4>2. \A q \in Files \ {source, archive} : d[q] = disk[q]
        BY <2>1, <2>2
      <4> QED
        BY <2>1, <3>1, <3>2, <4>1, <4>2
    <3> QED
      BY <3>3, <3>4
  <2>6. /\ disk' \in [Files -> Seq(Lines) \cup {None}] /\ writer' \in Paths \cup {None}
        /\ writer' # None => disk'[writer'] # None
        /\ opened => writer' # None
    BY <2>1, <2>2, Opened
  <2>7. output \in {"console", "file", "both"} /\ (~failed' => opened) /\ (failed => failed')
    BY <1>4 DEF TypeOK
  <2> QED
    BY <1>1, <1>2, <2>1, <2>4, <2>5, <2>6, <2>7 DEF FileStep
<1> QED
  BY <1>3, <1>4 DEF Rotate, Opens

LEMMA SettingSteps ==
  ASSUME LockInv, SetOutput \/ SetFilePath \/ SetFilePathInvalid
  PROVE  FileStep
<1> USE DEF LockInv
<1>1. /\ lock = {} /\ UNCHANGED <<gates, rate, lock, call, sinks, next, pc>>
      /\ pc \in [Threads -> {"idle", "lock", "rate", "count", "filter", "console",
                             "file", "rotate"}]
      /\ disk \in [Files -> Seq(Lines) \cup {None}] /\ DefaultPath \in Paths
      /\ current_file_path \in Paths /\ writer \in Paths \cup {None}
      /\ output \in {"console", "file", "both"}
      /\ writer # None => disk[writer] # None
  BY LogAssumption DEF SetOutput, SetFilePath, SetFilePathInvalid, threads, TypeOK, Files
<1>2. ASSUME NEW path \in Paths, NEW opened \in BOOLEAN,
             OpenWriter(disk, path, opened), failed' = (failed \/ ~opened), Overwrites({path}),
             output' \in {"console", "file", "both"}, current_file_path' \in Paths
      PROVE  FileStep
  <2>1. path \in Files
    BY DEF Files
  <2>2. ASSUME ~failed', ~reused'
        PROVE  ~reused /\ \A q \in Files : disk[q] # None => \E p \in Files : disk'[p] = disk[q]
    <3>1. ~reused /\ disk[path] = None
      BY <1>2, <2>2 DEF Overwrites
    <3>2. \A p \in Files \ {path} : disk'[p] = disk[p]
      BY <1>1, <1>2, Opened
    <3> QED
      BY <3>1, <3>2
  <2>3. /\ disk' \in [Files -> Seq(Lines) \cup {None}] /\ writer' \in Paths \cup {None}
        /\ writer' # None => disk'[writer'] # None
        /\ opened => writer' # None
        /\ \A p \in Files : disk'[p] = <<>> \/ disk'[p] = disk[p]
    BY <1>1, <1>2, Opened
  <2>4. (~failed' => opened) /\ (failed => failed')
    BY <1>2
  <2> QED
    BY <1>1, <1>2, <2>2, <2>3, <2>4 DEF FileStep
<1>3. CASE SetFilePath
  <2>1. PICK path \in Paths, opened \in BOOLEAN :
          /\ OpenWriter(disk, path, opened)
          /\ failed' = (failed \/ ~opened)
          /\ Overwrites({path})
          /\ current_file_path' = IF opened THEN path ELSE current_file_path
          /\ output' \in IF opened THEN {output} ELSE {output, "console"}
    BY <1>3 DEF SetFilePath, Opens
  <2> QED
    BY <1>1, <1>2, <2>1
<1>4. CASE SetFilePathInvalid
  BY <1>1, <1>4 DEF SetFilePathInvalid, FileStep
<1>5. CASE SetOutput
  <2>1. PICK o \in {"console", "file", "both"}, opened \in BOOLEAN :
          IF o = "file" /\ writer = None
          THEN /\ OpenWriter(disk, DefaultPath, opened)
               /\ output' = IF opened THEN o ELSE "console"
               /\ failed' = (failed \/ ~opened)
               /\ Overwrites({DefaultPath})
          ELSE output' = o /\ UNCHANGED <<writer, disk, reused, failed>>
    BY <1>5 DEF SetOutput, Opens
  <2>2. UNCHANGED current_file_path
    BY <1>5 DEF SetOutput
  <2>3. CASE o = "file" /\ writer = None
    BY <1>1, <1>2, <2>1, <2>2, <2>3
  <2>4. CASE ~(o = "file" /\ writer = None)
    BY <1>1, <2>1, <2>2, <2>4 DEF FileStep
  <2> QED
    BY <2>3, <2>4
<1> QED
  BY <1>3, <1>4, <1>5

-----------------------------------------------------------------------------
(* The steps of a thread                                                   *)

States == {"idle", "lock", "rate", "count", "filter", "console", "file", "rotate"}
Calls == [message : Nat, level : Nat, count : Nat]

\* A thread goes from one state of its call to another, with the message it has, a new one
\* or none, and enters or leaves the mutex as it does.
LEMMA Moves ==
  ASSUME LockInv, NEW t \in Threads, NEW s \in States, NEW c \in Calls,
         pc' = [pc EXCEPT ![t] = s], call' = [call EXCEPT ![t] = c],
         s \in Inside => pc[t] \in Inside \/ lock = {},
         lock' = IF s \in Inside THEN {t} ELSE IF pc[t] \in Inside THEN {} ELSE lock,
         \/ s \notin Active /\ next' = next
         \/ /\ pc[t] \in Active /\ next' = next
            /\ c.message = call[t].message /\ c.level = call[t].level
         \/ c.message = next /\ next \in Messages /\ c.level \in Levels /\ next' = next + 1,
         TypeOK'
  PROVE  LockInv'
<1> USE DEF LockInv
<1>1. pc'[t] = s /\ call'[t] = c
  BY DEF TypeOK
<1>2. \A u \in Threads \ {t} : pc'[u] = pc[u] /\ call'[u] = call[u]
  BY DEF TypeOK
<1>3. next \in Nat /\ Messages \subseteq Nat /\ (next' = next \/ next' = next + 1)
  BY LogAssumption DEF TypeOK, Messages
<1>4. ASSUME NEW u \in Threads, pc'[u] \in Inside PROVE lock' = {u}
  BY <1>1, <1>2, <1>4
<1>5. ASSUME NEW u \in Threads, pc'[u] \in Active
      PROVE  call'[u].message \in Messages /\ call'[u].message < next' /\ call'[u].level \in Levels
  <2>1. CASE u = t
    BY <1>1, <1>3, <1>5, <2>1
  <2>2. CASE u # t
    <3>1. pc[u] \in Active /\ call'[u] = call[u]
      BY <1>2, <1>5, <2>2
    <3>2. call[u].message \in Messages /\ call[u].message < next /\ call[u].level \in Levels
      BY <3>1
    <3>3. call[u].message \in Nat
      BY <1>3, <3>2
    <3>4. next' >= next
      BY <1>3
    <3>5. call[u].message < next'
      BY <1>3, <3>2, <3>3, <3>4
    <3> QED
      BY <3>1, <3>2, <3>5
  <2> QED
    BY <2>1, <2>2
<1>6. ASSUME NEW u \in Threads, NEW v \in Threads, pc'[u] \in Active, pc'[v] \in Active,
             call'[u].message = call'[v].message
      PROVE  u = v
  BY <1>1, <1>2, <1>3, <1>6
<1> QED
  BY <1>4, <1>5, <1>6

\* log_message, once it has returned, is in no state that holds a message.
LEMMA Leaving ==
  ASSUME LockInv, NEW t \in Threads, pc[t] \in Inside, Leave(t), next' = next, TypeOK'
  PROVE  LockInv'
<1>1. NoCall \in Calls /\ "idle" \in States \ Active /\ "idle" \notin Inside
  BY DEF NoCall, Calls, States, Active, Inside
<1> QED
  BY <1>1, Moves DEF Leave, Goto

\* What a thread inside the mutex may do, and what it leaves alone
LEMMA LockInvThread ==
  ASSUME LockInv, NEW t \in Threads, LogMessage(t) \/ CallRotate(t)
  PROVE  LockInv'
<1> USE DEF LockInv, Goto, gates, files, rate, threads, sinks
<1>0. /\ pc \in [Threads -> States] /\ call \in [Threads -> Calls]
      /\ call' = [call EXCEPT ![t] = call[t]] <=> call' = call
      /\ Levels \subseteq Nat
      /\ NoCall \in Calls
  BY LogAssumption DEF TypeOK, States, Calls, NoCall
<1>1. CASE PassGates(t)
  <2>1. PICK l \in Levels : call' = [call EXCEPT ![t] = [message |-> next, level |-> l, count |-> 0]]
    BY <1>1 DEF PassGates
  <2>2. [message |-> next, level |-> l, count |-> 0] \in Calls /\ next \in Messages /\ next + 1 \in Nat \ {0}
    BY <1>0, <1>1 DEF PassGates, Calls, TypeOK
  <2>3. TypeOK'
    BY <1>0, <1>1, <2>1, <2>2 DEF PassGates, TypeOK, Calls, States
  <2>4. pc[t] \notin Inside /\ "lock" \notin Inside /\ "lock" \in States
    BY <1>1 DEF PassGates, Inside, States
  <2>5. [message |-> next, level |-> l, count |-> 0].message = next
        /\ [message |-> next, level |-> l, count |-> 0].level = l
    OBVIOUS
  <2> QED
    BY <1>1, <2>1, <2>2, <2>3, <2>4, <2>5, Moves DEF PassGates
<1>2. CASE EnterLog(t)
  <2>1. TypeOK'
    BY <1>2 DEF EnterLog, TypeOK
  <2>2. "rate" \in Inside /\ "rate" \in States /\ pc[t] \in Active
    BY <1>2 DEF EnterLog, Inside, States, Active
  <2> QED
    BY <1>0, <1>2, <2>1, <2>2, Moves DEF EnterLog
<1>3. CASE TestRate(t)
  <2> DEFINE counts == IF expired THEN [k \in Levels |-> 0] ELSE log_counts
             l == call[t].level
  <2>1. /\ pc[t] = "rate" /\ pc[t] \in Inside /\ pc[t] \in Active
        /\ l \in Levels /\ counts \in [Levels -> Nat] /\ counts[l] \in Nat
        /\ log_counts' = counts /\ inWindow' \in [Levels -> Nat]
    BY <1>3 DEF TestRate, TypeOK, Inside, Active
  <2>2. CASE Leave(t)
    <3>1. TypeOK'
      BY <1>0, <1>3, <2>1, <2>2 DEF TestRate, Leave, TypeOK, Calls
    <3> QED
      BY <1>3, <2>1, <2>2, <3>1, Leaving DEF TestRate
  <2>3. CASE /\ Goto(t, IF rate_limit > 0 THEN "count" ELSE "filter")
             /\ call' = [call EXCEPT ![t].count = counts[l]]
             /\ UNCHANGED lock
    <3>1. PICK s \in {"count", "filter"} : pc' = [pc EXCEPT ![t] = s]
      BY <2>3
    <3>2. PICK c \in Calls : /\ call' = [call EXCEPT ![t] = c]
                             /\ c.message = call[t].message /\ c.level = call[t].level
      <4>1. /\ [call[t] EXCEPT !.count = counts[l]] \in Calls
            /\ [call[t] EXCEPT !.count = counts[l]].message = call[t].message
            /\ [call[t] EXCEPT !.count = counts[l]].level = call[t].level
        BY <1>0, <2>1 DEF Calls
      <4> QED
        BY <2>3, <4>1
    <3>3. TypeOK'
      <4>1. call' \in [Threads -> Calls] /\ pc' \in [Threads -> States]
        BY <1>0, <3>1, <3>2 DEF States
      <4>2. UNCHANGED <<files, rate_limit, sinks, next, lock>>
        BY <1>3, <2>3 DEF TestRate
      <4> QED
        BY <2>1, <4>1, <4>2 DEF TypeOK, Calls, States
    <3>4. lock' = {t} /\ s \in Inside /\ s \in States
      BY <2>1, <2>3 DEF Inside, States
    <3>5. UNCHANGED next
      BY <1>3 DEF TestRate
    <3> QED
      BY <2>1, <3>1, <3>2, <3>3, <3>4, <3>5, Moves
  <2> QED
    BY <1>3, <2>2, <2>3 DEF TestRate
<1>4. CASE CountForRate(t)
  <2>1. /\ pc[t] \in Inside /\ pc[t] \in Active /\ "filter" \in Inside /\ "filter" \in States
        /\ call[t].level \in Levels /\ call[t].count \in Nat /\ lock = {t}
    BY <1>0, <1>4 DEF CountForRate, Inside, Active, States, Calls
  <2>2. log_counts' \in [Levels -> Nat] /\ inWindow' \in [Levels -> Nat]
    BY <1>4, <2>1 DEF CountForRate, TypeOK
  <2>3. TypeOK'
    BY <1>4, <2>1, <2>2 DEF CountForRate, TypeOK
  <2> QED
    BY <1>0, <1>4, <2>1, <2>3, Moves DEF CountForRate
<1>5. CASE Filter(t)
  <2>1. /\ pc[t] \in Inside /\ pc[t] \in Active /\ "console" \in Inside /\ "console" \in States
        /\ call[t].level \in Levels /\ lock = {t} /\ UNCHANGED next
    BY <1>5 DEF Filter, Inside, Active, States
  <2>2. CASE Leave(t) /\ UNCHANGED total_log_counts
    <3>1. TypeOK'
      BY <1>0, <1>5, <2>1, <2>2 DEF Filter, Leave, TypeOK, Calls
    <3> QED
      BY <2>1, <2>2, <3>1, Leaving
  <2>3. CASE /\ total_log_counts' = [total_log_counts EXCEPT ![call[t].level] = @ + 1]
             /\ Goto(t, "console")
             /\ UNCHANGED <<lock, call>>
    <3>1. TypeOK'
      BY <1>5, <2>1, <2>3 DEF Filter, TypeOK
    <3> QED
      BY <1>0, <2>1, <2>3, <3>1, Moves
  <2> QED
    BY <1>5, <2>2, <2>3 DEF Filter
<1>6. CASE WriteConsole(t)
  <2>1. /\ pc[t] \in Inside /\ pc[t] \in Active /\ "file" \in Inside /\ "file" \in States
        /\ Line(t) \in Lines /\ lock = {t}
    BY <1>6 DEF WriteConsole, Inside, Active, States, Line, Lines
  <2>2. TypeOK'
    BY <1>6, <2>1 DEF WriteConsole, TypeOK
  <2> QED
    BY <1>0, <1>6, <2>1, <2>2, Moves DEF WriteConsole
<1>7. CASE WriteFile(t)
  <2>1. pc[t] \in Inside /\ Line(t) \in Lines
    BY <1>7 DEF WriteFile, Inside, Active, Line, Lines
  <2>2. /\ disk' \in [Files -> Seq(Lines) \cup {None}] /\ written' \subseteq Lines
        /\ writer # None => disk'[writer] # None
    <3>1. disk \in [Files -> Seq(Lines) \cup {None}] /\ written \subseteq Lines
          /\ (writer # None => writer \in Files /\ disk[writer] \in Seq(Lines))
      BY DEF TypeOK, Files
    <3>2. writer # None => Append(disk[writer], Line(t)) \in Seq(Lines)
      BY <2>1, <3>1
    <3>3. None \notin Seq(Lines)
      BY LogAssumption
    <3> QED
      BY <1>7, <2>1, <3>1, <3>2, <3>3 DEF WriteFile
  <2>3. TypeOK'
    BY <1>0, <1>7, <2>2 DEF WriteFile, Leave, TypeOK, Files, Calls
  <2> QED
    BY <1>7, <2>1, <2>3, Leaving DEF WriteFile
<1>8. CASE CallRotate(t)
  <2>1. TypeOK'
    BY <1>8 DEF CallRotate, TypeOK
  <2>2. "rotate" \notin Active /\ "rotate" \notin Inside /\ "rotate" \in States /\ pc[t] \notin Inside
    BY <1>8 DEF CallRotate, Active, Inside, States
  <2> QED
    BY <1>0, <1>8, <2>1, <2>2, Moves DEF CallRotate
<1> QED
  BY <1>1, <1>2, <1>3, <1>4, <1>5, <1>6, <1>7, <1>8 DEF LogMessage

-----------------------------------------------------------------------------
(* The mutex, over all steps                                               *)

\* The steps that only meet the gates and the limit
SettingStep ==
  /\ UNCHANGED <<files, threads, sinks, next>>
  /\ \/ UNCHANGED rate
     \/ /\ rate_limit' \in Limits
        /\ log_counts' = [l \in Levels |-> 0]
        /\ inWindow' = [l \in Levels |-> 0]
     \/ UNCHANGED <<rate_limit, log_counts, inWindow>>

LEMMA Steps ==
  ASSUME LockInv, [Next]_vars
  PROVE  FileStep \/ SettingStep \/ \E t \in Threads : LogMessage(t) \/ CallRotate(t)
<1>1. CASE \E t \in Threads : Rotate(t)
  BY <1>1, RotateSteps
<1>2. CASE SetOutput \/ SetFilePath \/ SetFilePathInvalid
  BY <1>2, SettingSteps
<1>3. CASE SetGates \/ SetRateLimit \/ WindowEnds \/ UNCHANGED vars
  BY <1>3 DEF SettingStep, SetGates, SetRateLimit, WindowEnds, vars, files, threads, sinks, rate
<1> QED
  BY <1>1, <1>2, <1>3 DEF Next

LEMMA LockInvStep == LockInv /\ [Next]_vars => LockInv'
<1> SUFFICES ASSUME LockInv, [Next]_vars PROVE LockInv'
  OBVIOUS
<1> USE DEF LockInv
<1>1. CASE FileStep
  <2>1. UNCHANGED <<rate_limit, log_counts, inWindow, lock, call, console, written, total_log_counts, next>>
    BY <1>1 DEF FileStep, rate, sinks
  <2>2. TypeOK'
    BY <1>1, <2>1 DEF FileStep, TypeOK, Files
  <2>3. \A t \in Threads : (pc'[t] \in Inside => pc[t] \in Inside) /\ (pc'[t] \in Active => pc[t] \in Active)
    BY <1>1 DEF FileStep, Inside, Active
  <2> QED
    BY <2>1, <2>2, <2>3
<1>2. CASE SettingStep
  <2>1. UNCHANGED <<output, writer, current_file_path, disk, lock, pc, call,
                    console, written, total_log_counts, next>>
    BY <1>2 DEF SettingStep, files, threads, sinks
  <2>2. rate_limit' \in Nat /\ log_counts' \in [Levels -> Nat] /\ inWindow' \in [Levels -> Nat]
    <3>1. rate_limit \in Nat /\ log_counts \in [Levels -> Nat] /\ inWindow \in [Levels -> Nat]
      BY DEF TypeOK
    <3>2. [l \in Levels |-> 0] \in [Levels -> Nat]
      OBVIOUS
    <3> QED
      BY <1>2, <3>1, <3>2, LogAssumption DEF SettingStep, rate
  <2>3. TypeOK'
    BY <2>1, <2>2 DEF TypeOK
  <2> QED
    BY <2>1, <2>3
<1> QED
  BY <1>1, <1>2, Steps, LockInvThread

\* One thread is inside the mutex, and the messages on their way are all different.
THEOREM Locked == Spec => []LockInv
BY LockInvInit, LockInvStep, PTL DEF Spec

-----------------------------------------------------------------------------
(* The rate limit                                                          *)

LEMMA RateInvInit == Init => RateInv
BY DEF Init, RateInv, RateLimited

\* Nobody else counts while a thread is inside the mutex.
LEMMA RateInvStep == LockInv /\ RateInv /\ [Next]_vars => RateInv'
<1> SUFFICES ASSUME LockInv, RateInv, [Next]_vars PROVE RateInv'
  OBVIOUS
<1> USE DEF LockInv, RateInv, RateLimited
<1>1. /\ log_counts \in [Levels -> Nat] /\ inWindow \in [Levels -> Nat] /\ rate_limit \in Nat
      /\ pc \in [Threads -> States] /\ call \in [Threads -> Calls] /\ NoCall.level \in Nat
      /\ \A t \in Threads : pc[t] = "count" => call[t].level \in Levels
      /\ \A l \in Levels : log_counts[l] \in Nat /\ inWindow[l] \in Nat
      /\ \A t \in Threads : call[t].count \in Nat
  BY DEF TypeOK, States, Calls, Active, Inside, NoCall
<1>2. CASE FileStep
  <2>1. \A t \in Threads : pc'[t] = "count" => pc[t] = "count"
    BY <1>2 DEF FileStep
  <2> QED
    BY <1>2, <2>1 DEF FileStep, rate
<1>3. CASE SettingStep
  <2>1. UNCHANGED <<pc, call>>
    BY <1>3 DEF SettingStep, threads
  <2>2. CASE UNCHANGED <<rate_limit, log_counts, inWindow>>
    BY <2>1, <2>2
  <2>3. CASE /\ rate_limit' \in Limits
             /\ log_counts' = [l \in Levels |-> 0]
             /\ inWindow' = [l \in Levels |-> 0]
    <3>1. rate_limit' \in Nat
      BY <2>3, LogAssumption
    <3>2. \A l \in Levels : log_counts'[l] = 0 /\ inWindow'[l] = 0
      BY <2>3
    <3> QED
      BY <1>1, <2>1, <3>1, <3>2
  <2> QED
    BY <1>3, <2>2, <2>3 DEF SettingStep, rate
<1>4. ASSUME NEW t \in Threads, UNCHANGED <<rate_limit, log_counts, inWindow>>,
             NEW s \in States \ {"count"}, pc' = [pc EXCEPT ![t] = s],
             \A u \in Threads \ {t} : call'[u] = call[u]
      PROVE  RateInv'
  <2>1. \A u \in Threads : pc'[u] = "count" => u # t /\ pc[u] = "count" /\ call'[u] = call[u]
    BY <1>1, <1>4
  <2> QED
    BY <1>4, <2>1
<1>5. ASSUME NEW t \in Threads, TestRate(t) PROVE RateInv'
  <2> DEFINE counts == IF expired THEN [k \in Levels |-> 0] ELSE log_counts
             l == call[t].level
  <2>1. /\ pc[t] = "rate" /\ lock = {t} /\ l \in Levels
        /\ log_counts' = counts /\ UNCHANGED rate_limit
        /\ inWindow' = IF expired THEN counts ELSE inWindow
        /\ \A k \in Levels : counts[k] \in Nat /\ inWindow'[k] \in Nat /\ inWindow'[k] <= counts[k]
        /\ rate_limit > 0 => \A k \in Levels : inWindow'[k] <= rate_limit
    BY <1>1, <1>5 DEF TestRate, Inside, Active
  <2>2. \A u \in Threads \ {t} : pc[u] # "count" /\ pc'[u] = pc[u]
    BY <1>1, <1>5, <2>1 DEF TestRate, Leave, Goto, Inside
  <2>3. pc'[t] = "count" =>
          call'[t].level = l /\ call'[t].count = counts[l] /\ counts[l] < rate_limit
    BY <1>1, <1>5, <2>1 DEF TestRate, Leave, Goto, Calls
  <2> QED
    BY <1>1, <2>1, <2>2, <2>3
<1>6. ASSUME NEW t \in Threads, CountForRate(t) PROVE RateInv'
  <2> DEFINE l == call[t].level
  <2>1. /\ pc[t] = "count" /\ lock = {t} /\ l \in Levels /\ UNCHANGED rate_limit
        /\ inWindow' = [inWindow EXCEPT ![l] = @ + 1]
        /\ pc' = [pc EXCEPT ![t] = "filter"]
    BY <1>1, <1>6 DEF CountForRate, Goto, Inside
  <2>2. PICK c \in {call[t].count, log_counts[l]} : log_counts' = [log_counts EXCEPT ![l] = c + 1]
    BY <1>6 DEF CountForRate
  <2>3. c \in Nat /\ log_counts[l] <= c
    BY <1>1, <2>1, <2>2
  <2>4. \A u \in Threads : pc'[u] # "count"
    BY <1>1, <2>1 DEF Inside
  <2>5. \A k \in Levels : inWindow'[k] <= log_counts'[k]
    BY <1>1, <2>1, <2>2, <2>3
  <2>6. rate_limit > 0 => \A k \in Levels : inWindow'[k] <= rate_limit
    BY <1>1, <2>1
  <2> QED
    BY <2>1, <2>4, <2>5, <2>6
<1>7. ASSUME NEW t \in Threads, LogMessage(t) \/ CallRotate(t) PROVE RateInv'
  <2>1. CASE PassGates(t) \/ EnterLog(t) \/ Filter(t) \/ WriteConsole(t) \/ WriteFile(t) \/ CallRotate(t)
    <3>1. /\ UNCHANGED <<rate_limit, log_counts, inWindow>>
          /\ \E s \in States \ {"count"} : pc' = [pc EXCEPT ![t] = s]
      BY <2>1 DEF PassGates, EnterLog, Filter, WriteConsole, WriteFile, CallRotate, Leave, Goto,
                  rate, threads, States
    <3>2. \A u \in Threads \ {t} : call'[u] = call[u]
      BY <1>1, <2>1
         DEF PassGates, EnterLog, Filter, WriteConsole, WriteFile, CallRotate, Leave, threads
    <3> QED
      BY <3>1, <3>2, <1>4
  <2> QED
    BY <1>5, <1>6, <1>7, <2>1 DEF LogMessage
<1> QED
  BY <1>2, <1>3, <1>7, Steps

\* No level gets more messages through in a window than the limit allows.
THEOREM LimitKept == Spec => []RateLimited
<1>1. RateInv => RateLimited
  BY DEF RateInv
<1> QED
  BY <1>1, RateInvInit, RateInvStep, Locked, PTL DEF Spec

-----------------------------------------------------------------------------
(* What the console and the files show                                     *)

\* A message on its way is on no output, but for the thread's that has just written it to the
\* console, where it is last; and what is in the files has been written to a file.
ShownInv ==
  /\ \A i \in DOMAIN console : console[i].message < next
  /\ \A t \in Threads, i \in DOMAIN console :
       pc[t] \in Active /\ console[i].message = call[t].message =>
         pc[t] = "file" /\ i = Len(console)
  /\ \A x \in written :
       x.message < next /\ \A t \in Threads : pc[t] \in Active => x.message # call[t].message
  /\ \A p \in Files : disk[p] # None => \A i \in DOMAIN disk[p] : disk[p][i] \in written
  /\ SameOrder

LEMMA ShownInvInit == Init => ShownInv
<1> SUFFICES ASSUME Init PROVE ShownInv
  OBVIOUS
<1>1. console = <<>> /\ written = {} /\ \A p \in Files : disk[p] # None => disk[p] = <<>>
  BY LogAssumption DEF Init, Files
<1> QED
  BY <1>1 DEF ShownInv, SameOrder, Before, Files

\* The outputs stay as they are, and a message that is on its way then was so before.
LEMMA QuietStep ==
  ASSUME LockInv, ShownInv, UNCHANGED <<console, written, disk>>, next' \in Nat, next' >= next,
         \A u \in Threads : pc'[u] \in Active =>
           \/ /\ pc[u] \in Active /\ call'[u].message = call[u].message
              /\ pc[u] = "file" => pc'[u] = "file"
           \/ call'[u].message = next
  PROVE  ShownInv'
<1> USE DEF ShownInv
<1>1. /\ next \in Nat /\ Messages \subseteq Nat
      /\ \A i \in DOMAIN console : console[i].message \in Nat
      /\ \A x \in written : x.message \in Nat
  <2>1. next \in Nat /\ console \in Seq(Lines) /\ written \subseteq Lines
    BY DEF LockInv, TypeOK
  <2>2. \A i \in DOMAIN console : console[i] \in Lines
    BY <2>1
  <2>3. Messages \subseteq Nat
    BY LogAssumption DEF Messages
  <2> QED
    BY <2>1, <2>2, <2>3 DEF Lines
<1>2. ASSUME NEW t \in Threads, NEW i \in DOMAIN console,
             pc'[t] \in Active, console[i].message = call'[t].message
      PROVE  pc'[t] = "file" /\ i = Len(console)
  <2>1. call'[t].message # next
    BY <1>1, <1>2
  <2> QED
    BY <1>2, <2>1
<1>3. ASSUME NEW x \in written
      PROVE  x.message < next' /\ \A t \in Threads : pc'[t] \in Active => x.message # call'[t].message
  <2>1. x.message < next /\ x.message \in Nat
    BY <1>1
  <2>2. x.message < next'
    BY <1>1, <2>1
  <2>3. x.message # next
    BY <1>1, <2>1
  <2> QED
    BY <2>2, <2>3
<1>4. \A i \in DOMAIN console : console[i].message < next'
  BY <1>1
<1>5. SameOrder'
  BY DEF SameOrder, Before
<1> QED
  BY <1>2, <1>3, <1>4, <1>5

\* Whole files are moved: the order in each is one there was before.
LEMMA ShownInvFile == ASSUME LockInv, ShownInv, FileStep PROVE ShownInv'
<1> USE DEF ShownInv
<1>1. UNCHANGED <<console, written, next, call>>
  BY DEF FileStep, sinks
<1>2. \A u \in Threads : pc'[u] \in Active => pc'[u] = pc[u]
  BY DEF FileStep, Active, Inside
<1>3. \A p \in Files : disk'[p] = None \/ disk'[p] = <<>> \/ \E q \in Files : disk'[p] = disk[q]
  BY DEF FileStep
<1>4. ASSUME NEW p \in Files, disk'[p] # None, NEW i \in DOMAIN disk'[p]
      PROVE  disk'[p][i] \in written
  BY <1>3, <1>4
<1>5. SameOrder'
  <2>1. ASSUME NEW m \in Messages, NEW n \in Messages, NEW p \in Files,
               disk'[p] # None, Before(console, m, n), Before(disk'[p], n, m)
        PROVE  FALSE
    <3>1. disk'[p] # <<>>
      BY <2>1 DEF Before
    <3>2. PICK q \in Files : disk'[p] = disk[q]
      BY <1>3, <2>1, <3>1
    <3> QED
      BY <2>1, <3>2 DEF SameOrder, Files
  <2>2. \A m \in Messages : ~Before(console', m, m)
    BY <1>1 DEF SameOrder
  <2> QED
    BY <1>1, <2>1, <2>2 DEF SameOrder, Files, Before
<1> QED
  BY <1>1, <1>2, <1>4, <1>5

\* A thread writes a message that no output shows to the console.
LEMMA ShownInvConsole ==
  ASSUME LockInv, ShownInv, NEW t \in Threads, WriteConsole(t)
  PROVE  ShownInv'
<1> USE DEF ShownInv, LockInv
<1>1. /\ pc[t] = "console" /\ pc' = [pc EXCEPT ![t] = "file"] /\ pc \in [Threads -> States]
      /\ UNCHANGED <<call, written, disk, next>>
      /\ Line(t) \in Lines /\ Line(t).message = call[t].message
      /\ call[t].message \in Messages /\ call[t].message < next
      /\ console \in Seq(Lines) /\ next \in Nat
  BY DEF WriteConsole, Goto, files, TypeOK, States, Line, Lines, Active, Inside
<1>2. \A u \in Threads \ {t} : pc'[u] = pc[u]
  BY <1>1
<1>3. CASE console' = console
  <2>1. \A u \in Threads : pc'[u] \in Active =>
          /\ pc[u] \in Active /\ call'[u].message = call[u].message
          /\ pc[u] = "file" => pc'[u] = "file"
    BY <1>1, <1>2 DEF Active, Inside
  <2> QED
    BY <1>1, <1>3, <2>1, QuietStep
<1>4. CASE console' = Append(console, Line(t))
  <2>1. /\ Len(console') = Len(console) + 1 /\ DOMAIN console' = 1..(Len(console) + 1)
        /\ DOMAIN console = 1..Len(console) /\ Len(console) \in Nat
        /\ console'[Len(console) + 1] = Line(t)
        /\ \A i \in DOMAIN console : console'[i] = console[i]
    BY <1>1, <1>4
  <2>2. \A i \in DOMAIN console : console[i].message # call[t].message
    BY <1>1 DEF Active, Inside
  <2>3. \A i \in DOMAIN console' : console'[i].message < next
    BY <1>1, <2>1
  <2>4. ASSUME NEW u \in Threads, NEW i \in DOMAIN console',
               pc'[u] \in Active, console'[i].message = call[u].message
        PROVE  pc'[u] = "file" /\ i = Len(console')
    <3>0. pc[u] \in Active /\ pc[t] \in Inside /\ pc[t] \in Active
      BY <1>1, <1>2, <2>4 DEF Active, Inside
    <3>1. CASE i = Len(console) + 1
      BY <1>1, <2>1, <2>4, <3>0, <3>1
    <3>2. CASE i \in DOMAIN console
      <4>1. pc[u] = "file"
        BY <2>1, <2>4, <3>0, <3>2
      <4>2. u = t
        BY <3>0, <4>1 DEF Inside
      <4> QED
        BY <1>1, <4>1, <4>2
    <3> QED
      BY <2>1, <3>1, <3>2
  <2>5. \A x \in written, u \in Threads : pc'[u] \in Active => x.message # call[u].message
    BY <1>1, <1>2 DEF Active, Inside
  <2>6. ASSUME NEW m, NEW n, Before(console', m, n)
        PROVE  Before(console, m, n) \/ (n = call[t].message /\ m # n)
    <3>1. PICK i, j \in DOMAIN console' : i < j /\ console'[i].message = m /\ console'[j].message = n
      BY <2>6 DEF Before
    <3>2. i \in DOMAIN console
      BY <2>1, <3>1
    <3>3. CASE j = Len(console) + 1
      BY <1>1, <2>1, <2>2, <3>1, <3>2, <3>3
    <3>4. CASE j \in DOMAIN console
      BY <2>1, <3>1, <3>2, <3>4 DEF Before
    <3> QED
      BY <2>1, <3>3, <3>4
  <2>7. ASSUME NEW p \in Files, NEW m, NEW n, disk[p] # None, Before(disk[p], n, m)
        PROVE  n # call[t].message
    BY <1>1, <2>7 DEF Before, Active, Inside
  <2>8. SameOrder'
    <3>1. ASSUME NEW m \in Messages, NEW n \in Messages, NEW p \in Files,
                 disk[p] # None, Before(console', m, n), Before(disk[p], n, m)
          PROVE  FALSE
      BY <2>6, <2>7, <3>1 DEF SameOrder, Files
    <3>2. \A m \in Messages : ~Before(console', m, m)
      BY <2>6 DEF SameOrder
    <3> QED
      BY <1>1, <3>1, <3>2 DEF SameOrder, Files, Before
  <2> QED
    BY <1>1, <2>3, <2>4, <2>5, <2>8
<1> QED
  BY <1>3, <1>4 DEF WriteConsole

\* A thread writes a message to a file: if it is on the console it is the last there.
LEMMA ShownInvWrite ==
  ASSUME LockInv, ShownInv, NEW t \in Threads, WriteFile(t)
  PROVE  ShownInv'
<1> USE DEF ShownInv, LockInv
<1>1. /\ pc[t] = "file" /\ pc' = [pc EXCEPT ![t] = "idle"] /\ pc \in [Threads -> States]
      /\ call' = [call EXCEPT ![t] = NoCall] /\ call \in [Threads -> Calls]
      /\ UNCHANGED <<console, next>>
      /\ Line(t) \in Lines /\ Line(t).message = call[t].message
      /\ call[t].message \in Messages /\ call[t].message < next /\ next \in Nat
      /\ disk \in [Files -> Seq(Lines) \cup {None}]
      /\ pc[t] \in Active
  BY DEF WriteFile, Leave, Goto, TypeOK, States, Calls, Line, Lines, Active, Inside, Files
<1>2. /\ \A u \in Threads \ {t} : pc'[u] = pc[u] /\ call'[u] = call[u]
      /\ pc'[t] \notin Active
  BY <1>1 DEF Active, Inside
<1>3. CASE UNCHANGED <<disk, written>>
  BY <1>1, <1>2, <1>3, QuietStep
<1>4. CASE /\ writer # None
           /\ disk' = [disk EXCEPT ![writer] = Append(@, Line(t))]
           /\ written' = written \cup {Line(t)}
  <2>1. writer \in Files /\ disk[writer] \in Seq(Lines)
    BY <1>4 DEF TypeOK, Files
  <2> DEFINE d == disk[writer]
  <2>2. /\ disk'[writer] = Append(d, Line(t))
        /\ \A p \in Files \ {writer} : disk'[p] = disk[p]
    BY <1>1, <1>4, <2>1
  <2>3. /\ DOMAIN Append(d, Line(t)) = 1..(Len(d) + 1) /\ DOMAIN d = 1..Len(d) /\ Len(d) \in Nat
        /\ Append(d, Line(t))[Len(d) + 1] = Line(t)
        /\ \A i \in DOMAIN d : Append(d, Line(t))[i] = d[i]
    BY <1>1, <2>1
  <2>4. d # None
    BY <2>1, LogAssumption
  <2>5. \A p \in Files : disk'[p] # None => \A i \in DOMAIN disk'[p] : disk'[p][i] \in written'
    BY <1>4, <2>1, <2>2, <2>3, <2>4
  <2>6. \A x \in written' : x.message < next /\
          \A u \in Threads : pc'[u] \in Active => x.message # call'[u].message
    BY <1>1, <1>2, <1>4
  <2>7. \A u \in Threads, i \in DOMAIN console :
          pc'[u] \in Active /\ console[i].message = call'[u].message =>
            pc'[u] = "file" /\ i = Len(console)
    BY <1>1, <1>2
  <2>8. ASSUME NEW m \in Messages, NEW n \in Messages,
               Before(console, m, n), Before(Append(d, Line(t)), n, m)
        PROVE  FALSE
    <3>1. PICK i, j \in DOMAIN Append(d, Line(t)) :
            /\ i < j /\ Append(d, Line(t))[i].message = n /\ Append(d, Line(t))[j].message = m
      BY <2>8 DEF Before
    <3>2. i \in DOMAIN d
      BY <2>3, <3>1
    <3>3. CASE j \in DOMAIN d
      <4>1. Before(d, n, m)
        BY <2>3, <3>1, <3>2, <3>3 DEF Before
      <4> QED
        BY <2>1, <2>4, <2>8, <4>1 DEF SameOrder, Files
    <3>4. CASE j = Len(d) + 1
      <4>1. m = call[t].message
        BY <1>1, <2>3, <3>1, <3>4
      <4>2. PICK k, l \in DOMAIN console : k < l /\ console[k].message = m
        BY <2>8 DEF Before
      <4>3. k = Len(console) /\ l \in 1..Len(console) /\ Len(console) \in Nat
        BY <1>1, <4>1, <4>2 DEF TypeOK
      <4> QED
        BY <4>2, <4>3
    <3> QED
      BY <2>3, <3>3, <3>4
  <2>9. SameOrder'
    <3>1. ASSUME NEW m \in Messages, NEW n \in Messages, NEW p \in Files,
                 disk'[p] # None, Before(console, m, n), Before(disk'[p], n, m)
          PROVE  FALSE
      BY <2>2, <2>8, <3>1 DEF SameOrder, Files
    <3>2. \A m \in Messages : ~Before(console, m, m)
      BY DEF SameOrder
    <3> QED
      BY <1>1, <3>1, <3>2 DEF SameOrder, Files, Before
  <2> QED
    BY <1>1, <2>5, <2>6, <2>7, <2>9
<1> QED
  BY <1>3, <1>4 DEF WriteFile

LEMMA ShownInvStep == LockInv /\ ShownInv /\ [Next]_vars => ShownInv'
<1> SUFFICES ASSUME LockInv, ShownInv, [Next]_vars PROVE ShownInv'
  OBVIOUS
<1>0. next \in Nat /\ next + 1 \in Nat /\ next + 1 >= next
      /\ pc \in [Threads -> States] /\ call \in [Threads -> Calls]
  BY DEF LockInv, TypeOK, States, Calls
<1>1. CASE SettingStep
  BY <1>0, <1>1, QuietStep DEF SettingStep, files, threads, sinks
<1>2. ASSUME NEW t \in Threads, PassGates(t) PROVE ShownInv'
  <2>1. UNCHANGED <<console, written, disk>> /\ next' = next + 1
    BY <1>2 DEF PassGates, files, sinks
  <2>2. ASSUME NEW u \in Threads, pc'[u] \in Active
        PROVE  \/ pc'[u] = pc[u] /\ call'[u].message = call[u].message
               \/ call'[u].message = next
    BY <1>0, <1>2 DEF PassGates, Goto, Calls
  <2> QED
    BY <1>0, <2>1, <2>2, QuietStep
<1>3. ASSUME NEW t \in Threads,
             EnterLog(t) \/ TestRate(t) \/ CountForRate(t) \/ Filter(t) \/ CallRotate(t)
      PROVE  ShownInv'
  <2>1. /\ UNCHANGED <<console, written, disk, next>>
        /\ pc[t] \in {"lock", "rate", "count", "filter"} \/ pc'[t] = "rotate"
    BY <1>0, <1>3 DEF EnterLog, TestRate, CountForRate, Filter, CallRotate, Goto, files, sinks
  <2>2. \A u \in Threads \ {t} : pc'[u] = pc[u] /\ call'[u] = call[u]
    BY <1>0, <1>3 DEF EnterLog, TestRate, CountForRate, Filter, CallRotate, Leave, Goto, threads
  <2>3. pc'[t] \in Active => call'[t].message = call[t].message
    BY <1>0, <1>3
       DEF EnterLog, TestRate, CountForRate, Filter, CallRotate, Leave, Goto, Calls, Active, Inside
  <2>4. ASSUME NEW u \in Threads, pc'[u] \in Active
        PROVE  /\ pc[u] \in Active /\ call'[u].message = call[u].message
               /\ pc[u] = "file" => pc'[u] = "file"
    BY <2>1, <2>2, <2>3, <2>4 DEF Active, Inside
  <2> QED
    BY <1>0, <2>1, <2>4, QuietStep
<1> QED
  BY <1>1, <1>2, <1>3, Steps, ShownInvFile, ShownInvConsole, ShownInvWrite DEF LogMessage

-----------------------------------------------------------------------------
(* What was written stays                                                  *)

LEMMA NothingLostStep == LockInv /\ NothingLost /\ [Next]_vars => NothingLost'
<1> SUFFICES ASSUME LockInv, NothingLost, [Next]_vars, ~failed', ~reused', NEW x \in written'
             PROVE  \E p \in Files : disk'[p] # None /\ \E i \in DOMAIN disk'[p] : disk'[p][i] = x
  BY DEF NothingLost, Files
<1> DEFINE Found == \E p \in Files : disk'[p] # None /\ \E i \in DOMAIN disk'[p] : disk'[p][i] = x
<1>1. CASE FileStep
  <2>1. ~failed /\ ~reused /\ x \in written
    BY <1>1 DEF FileStep, sinks
  <2>2. PICK q \in Files : disk[q] # None /\ \E i \in DOMAIN disk[q] : disk[q][i] = x
    BY <2>1 DEF NothingLost, Files
  <2>3. PICK p \in Files : disk'[p] = disk[q]
    BY <1>1, <2>2 DEF FileStep
  <2> QED
    BY <2>2, <2>3
<1>2. CASE UNCHANGED <<disk, written, failed, reused>>
  BY <1>2 DEF NothingLost, Files
<1>3. ASSUME NEW t \in Threads, WriteFile(t), writer # None,
             disk' = [disk EXCEPT ![writer] = Append(@, Line(t))],
             written' = written \cup {Line(t)}
      PROVE  Found
  <2>1. /\ disk \in [Files -> Seq(Lines) \cup {None}] /\ writer \in Files
        /\ disk[writer] \in Seq(Lines) /\ None \notin Seq(Lines) /\ Line(t) \in Lines
    BY <1>3, LogAssumption
       DEF LockInv, TypeOK, Files, WriteFile, Line, Lines, Active, Inside
  <2>2. /\ disk'[writer] = Append(disk[writer], Line(t))
        /\ \A p \in Files \ {writer} : disk'[p] = disk[p]
    BY <1>3, <2>1
  <2>3. /\ Append(disk[writer], Line(t)) # None
        /\ DOMAIN Append(disk[writer], Line(t)) = 1..(Len(disk[writer]) + 1)
        /\ DOMAIN disk[writer] = 1..Len(disk[writer]) /\ Len(disk[writer]) \in Nat
        /\ Append(disk[writer], Line(t))[Len(disk[writer]) + 1] = Line(t)
        /\ \A i \in DOMAIN disk[writer] : Append(disk[writer], Line(t))[i] = disk[writer][i]
    BY <2>1
  <2>4. CASE x = Line(t)
    BY <2>1, <2>2, <2>3, <2>4
  <2>5. CASE x \in written
    <3>1. ~failed /\ ~reused
      BY <1>3 DEF WriteFile
    <3>2. PICK q \in Files : disk[q] # None /\ \E i \in DOMAIN disk[q] : disk[q][i] = x
      BY <2>5, <3>1 DEF NothingLost, Files
    <3>3. \E i \in DOMAIN disk'[q] : disk'[q][i] = x
      BY <2>2, <2>3, <3>2
    <3>4. disk'[q] # None
      BY <2>2, <2>3, <3>2
    <3> QED
      BY <3>3, <3>4
  <2> QED
    BY <1>3, <2>4, <2>5
<1>4. ASSUME NEW t \in Threads, LogMessage(t) \/ CallRotate(t) PROVE Found
  <2>1. CASE WriteFile(t)
    BY <1>2, <1>3, <2>1 DEF WriteFile
  <2>2. CASE ~WriteFile(t)
    <3>1. UNCHANGED <<disk, written, failed, reused>>
      BY <1>4, <2>2 DEF LogMessage, PassGates, EnterLog, TestRate, CountForRate, Filter,
                        WriteConsole, CallRotate, files, sinks
    <3> QED
      BY <1>2, <3>1
  <2> QED
    BY <2>1, <2>2
<1> QED
  BY <1>1, <1>2, <1>4, Steps DEF SettingStep, files, sinks

\* Whatever threads write, switch and rotate at once, what was written stays in some file,
\* in the order of the console, unless an operation on files fails or a path is used again.
THEOREM Kept == Spec => []MessagesKept
<1>1. Init => NothingLost
  BY DEF Init, NothingLost
<1>2. LockInv /\ ShownInv /\ NothingLost => MessagesKept
  BY DEF LockInv, ShownInv, MessagesKept
<1> QED
  BY <1>1, <1>2, ShownInvInit, ShownInvStep, NothingLostStep, Locked, PTL DEF Spec

-----------------------------------------------------------------------------
(* What is counted                                                         *)

\* The lines of the messages that were counted: emitted, or about to be
Pending == {Line(t) : t \in {u \in Threads : pc[u] \in {"console", "file"}}}
Counted == Emitted \cup Pending
OfLevel(S, l) == {x \in S : x.level = l}

\* Each line counted is emitted or about to be. As long as nothing failed there is a file to
\* write to, so that a message that the console does not get will reach it.
CountInv ==
  /\ IsFiniteSet(Counted)
  /\ \A t \in Threads : pc[t] = "file" =>
       output = "file" \/ \E i \in DOMAIN console : console[i] = Line(t)
  /\ ~failed =>
       /\ writer # None
       /\ \A l \in Levels : total_log_counts[l] = Cardinality(OfLevel(Counted, l))

LEMMA CountInvInit == Init => CountInv
<1> SUFFICES ASSUME Init PROVE CountInv
  OBVIOUS
<1>1. Counted = {}
  BY DEF Init, Counted, Emitted, Pending
<1>2. \A l \in Levels : OfLevel(Counted, l) = {}
  BY <1>1 DEF OfLevel
<1>3. writer # None /\ (\A l \in Levels : total_log_counts[l] = 0) /\ (\A t \in Threads : pc[t] = "idle")
  BY LogAssumption DEF Init
<1> QED
  BY <1>1, <1>2, <1>3, FS_EmptySet DEF CountInv

\* A step that counts nothing and loses none of the lines counted
LEMMA SameCount ==
  ASSUME CountInv, UNCHANGED total_log_counts, Counted' \subseteq Counted,
         failed => failed',
         ~failed' => Counted' = Counted /\ writer' # None,
         \A t \in Threads : pc'[t] = "file" =>
           output' = "file" \/ \E i \in DOMAIN console' : console'[i] = Line(t)'
  PROVE  CountInv'
<1>1. IsFiniteSet(Counted')
  BY FS_Subset DEF CountInv
<1>2. ~failed' => \A l \in Levels : total_log_counts'[l] = Cardinality(OfLevel(Counted, l)')
  BY DEF CountInv, OfLevel
<1> QED
  BY <1>1, <1>2 DEF CountInv, OfLevel

\* Outside the states in which its message is counted, a thread changes nothing that counts.
LEMMA CountInvQuiet ==
  ASSUME LockInv, CountInv, NEW t \in Threads,
         PassGates(t) \/ EnterLog(t) \/ TestRate(t) \/ CountForRate(t) \/ CallRotate(t)
           \/ (Filter(t) /\ Leave(t) /\ UNCHANGED total_log_counts)
  PROVE  CountInv'
<1>1. /\ UNCHANGED <<console, written, total_log_counts, output, writer, failed>>
      /\ pc \in [Threads -> States] /\ call \in [Threads -> Calls]
  BY DEF PassGates, EnterLog, TestRate, CountForRate, CallRotate, Filter, files, sinks,
         LockInv, TypeOK, States, Calls
<1>2. /\ pc[t] \notin {"console", "file"} /\ pc'[t] \notin {"console", "file"}
      /\ \A u \in Threads \ {t} : pc'[u] = pc[u] /\ call'[u] = call[u]
  BY <1>1 DEF PassGates, EnterLog, TestRate, CountForRate, CallRotate, Filter, Leave, Goto, threads
<1>3. \A u \in Threads : pc'[u] \in {"console", "file"} =>
        pc[u] = pc'[u] /\ Line(u)' = Line(u)
  BY <1>2 DEF Line
<1>4. \A u \in Threads : pc[u] \in {"console", "file"} =>
        pc'[u] = pc[u] /\ Line(u)' = Line(u)
  BY <1>2 DEF Line
<1>5. Pending' = Pending
  BY <1>3, <1>4 DEF Pending
<1>6. Counted' = Counted
  BY <1>1, <1>5 DEF Counted, Emitted
<1>7. \A u \in Threads : pc'[u] = "file" =>
        output' = "file" \/ \E i \in DOMAIN console' : console'[i] = Line(u)'
  BY <1>1, <1>3 DEF CountInv
<1>8. failed => failed'
  BY <1>1, Zenon
<1>9. ~failed' => Counted' = Counted /\ writer' # None
  BY <1>1, <1>6 DEF CountInv
<1> QED
  BY <1>1, <1>6, <1>7, <1>8, <1>9, SameCount

\* The filters let a message pass: it is counted, and was on no output before.
LEMMA CountInvFilter ==
  ASSUME LockInv, ShownInv, CountInv, NEW t \in Threads, Filter(t),
         total_log_counts' = [total_log_counts EXCEPT ![call[t].level] = @ + 1],
         Goto(t, "console"), UNCHANGED <<lock, call>>
  PROVE  CountInv'
<1> DEFINE x == Line(t)
<1>1. /\ UNCHANGED <<console, written, output, writer, failed>>
      /\ pc[t] = "filter" /\ pc' = [pc EXCEPT ![t] = "console"] /\ pc \in [Threads -> States]
      /\ call[t].level \in Levels /\ x.level = call[t].level /\ x.message = call[t].message
      /\ total_log_counts \in [Levels -> Nat]
  BY DEF Filter, Goto, files, LockInv, TypeOK, States, Active, Inside, Line
<1>2. \A u \in Threads \ {t} : pc'[u] = pc[u] /\ pc[u] \notin {"console", "file"}
  BY <1>1 DEF LockInv, Inside
<1>3. \A u \in Threads : Line(u)' = Line(u)
  BY DEF Line
<1>4. Pending = {} /\ Pending' = {x}
  BY <1>1, <1>2, <1>3 DEF Pending
<1>5. x \notin Emitted
  BY <1>1 DEF ShownInv, Emitted, Active, Inside
<1>6. Counted' = Counted \cup {x} /\ x \notin Counted
  BY <1>1, <1>4, <1>5 DEF Counted, Emitted
<1>7. IsFiniteSet(Counted')
  BY <1>6, FS_AddElement DEF CountInv
<1>8. ASSUME ~failed', NEW l \in Levels
      PROVE  total_log_counts'[l] = Cardinality(OfLevel(Counted', l))
  <2>1. /\ total_log_counts[l] = Cardinality(OfLevel(Counted, l))
        /\ IsFiniteSet(OfLevel(Counted, l)) /\ x \notin OfLevel(Counted, l)
    <3>1. OfLevel(Counted, l) \subseteq Counted
      BY DEF OfLevel
    <3>2. IsFiniteSet(OfLevel(Counted, l))
      BY <3>1, FS_Subset DEF CountInv
    <3> QED
      BY <1>1, <1>6, <1>8, <3>1, <3>2 DEF CountInv
  <2>2. CASE l = x.level
    <3>1. OfLevel(Counted', l) = OfLevel(Counted, l) \cup {x}
      BY <1>6, <2>2 DEF OfLevel
    <3>2. Cardinality(OfLevel(Counted', l)) = Cardinality(OfLevel(Counted, l)) + 1
      BY <2>1, <3>1, FS_AddElement
    <3> QED
      BY <1>1, <2>1, <2>2, <3>2
  <2>3. CASE l # x.level
    <3>1. OfLevel(Counted', l) = OfLevel(Counted, l)
      BY <1>6, <2>3 DEF OfLevel
    <3> QED
      BY <1>1, <2>1, <2>3, <3>1
  <2> QED
    BY <2>2, <2>3
<1>9. \A u \in Threads : pc'[u] # "file"
  BY <1>1, <1>2
<1> QED
  BY <1>1, <1>7, <1>8, <1>9 DEF CountInv, OfLevel

LEMMA CountInvConsole ==
  ASSUME LockInv, CountInv, NEW t \in Threads, WriteConsole(t)
  PROVE  CountInv'
<1> DEFINE x == Line(t)
<1>1. /\ UNCHANGED <<call, written, output, writer, failed, total_log_counts>>
      /\ pc[t] = "console" /\ pc' = [pc EXCEPT ![t] = "file"] /\ pc \in [Threads -> States]
      /\ console \in Seq(Lines) /\ x \in Lines
      /\ console' = IF output # "file" THEN Append(console, x) ELSE console
  BY DEF WriteConsole, Goto, files, LockInv, TypeOK, States, Active, Inside, Line, Lines
<1>2. \A u \in Threads \ {t} : pc'[u] = pc[u] /\ pc[u] \notin {"console", "file"}
  BY <1>1 DEF LockInv, Inside
<1>3. \A u \in Threads : Line(u)' = Line(u)
  BY <1>1 DEF Line
<1>4. Pending = {x} /\ Pending' = {x}
  BY <1>1, <1>2, <1>3 DEF Pending
<1>5. /\ {console'[i] : i \in DOMAIN console'} \subseteq {console[i] : i \in DOMAIN console} \cup {x}
      /\ {console[i] : i \in DOMAIN console} \subseteq {console'[i] : i \in DOMAIN console'}
      /\ output # "file" => \E i \in DOMAIN console' : console'[i] = x
  <2>1. CASE output # "file"
    <3>1. /\ DOMAIN console' = 1..(Len(console) + 1) /\ DOMAIN console = 1..Len(console)
          /\ Len(console) \in Nat /\ console'[Len(console) + 1] = x
          /\ \A i \in DOMAIN console : console'[i] = console[i]
      BY <1>1, <2>1
    <3> QED
      BY <3>1
  <2>2. CASE output = "file"
    BY <1>1, <2>2
  <2> QED
    BY <2>1, <2>2
<1>6. Counted' = Counted
  BY <1>1, <1>4, <1>5 DEF Counted, Emitted
<1>7. \A u \in Threads : pc'[u] = "file" =>
        output' = "file" \/ \E i \in DOMAIN console' : console'[i] = Line(u)'
  BY <1>1, <1>2, <1>3, <1>5
<1>8. failed => failed'
  BY <1>1, Zenon
<1>9. ~failed' => Counted' = Counted /\ writer' # None
  BY <1>1, <1>6 DEF CountInv
<1> QED
  BY <1>1, <1>6, <1>7, <1>8, <1>9, SameCount

\* A message that the console did not get is written to the file, unless there is none.
LEMMA CountInvWrite ==
  ASSUME LockInv, CountInv, NEW t \in Threads, WriteFile(t)
  PROVE  CountInv'
<1> DEFINE x == Line(t)
<1>1. /\ UNCHANGED <<console, output, writer, failed, total_log_counts>>
      /\ pc[t] = "file" /\ pc' = [pc EXCEPT ![t] = "idle"] /\ pc \in [Threads -> States]
      /\ written' = IF output # "console" /\ writer # None THEN written \cup {x} ELSE written
  BY DEF WriteFile, Leave, Goto, LockInv, TypeOK, States
<1>2. \A u \in Threads \ {t} : pc'[u] = pc[u] /\ pc[u] \notin {"console", "file"}
  BY <1>1 DEF LockInv, Inside
<1>3. Pending = {x} /\ Pending' = {}
  BY <1>1, <1>2 DEF Pending
<1>4. Counted' \subseteq Counted
  BY <1>1, <1>3 DEF Counted, Emitted
<1>5. ~failed' => Counted' = Counted /\ writer' # None
  <2> SUFFICES ASSUME ~failed' PROVE Counted \subseteq Counted' /\ writer' # None
    BY <1>4
  <2>1. writer # None
    BY <1>1 DEF CountInv
  <2>2. x \in Emitted'
    BY <1>1, <2>1 DEF CountInv, Emitted
  <2> QED
    BY <1>1, <1>3, <2>1, <2>2 DEF Counted, Emitted
<1>6. \A u \in Threads : pc'[u] # "file"
  BY <1>1, <1>2
<1>7. failed => failed'
  BY <1>1, Zenon
<1> QED
  BY <1>1, <1>4, <1>5, <1>6, <1>7, SameCount

LEMMA CountInvStep == LockInv /\ ShownInv /\ CountInv /\ [Next]_vars => CountInv'
<1> SUFFICES ASSUME LockInv, ShownInv, CountInv, [Next]_vars PROVE CountInv'
  OBVIOUS
<1>1. CASE FileStep
  <2>1. UNCHANGED <<console, written, total_log_counts>> /\ (failed => failed')
    BY <1>1, Zenon DEF FileStep, sinks
  <2>2. \A t \in Threads : pc[t] \notin {"console", "file"} /\ pc'[t] \notin {"console", "file"}
    BY <1>1 DEF FileStep, LockInv, Inside
  <2>3. Counted' = Counted
    BY <2>1, <2>2 DEF Counted, Emitted, Pending
  <2>4. ~failed' => Counted' = Counted /\ writer' # None
    BY <1>1, <2>3 DEF FileStep, CountInv
  <2> QED
    BY <2>1, <2>2, <2>3, <2>4, SameCount
<1>2. CASE SettingStep
  <2>1. UNCHANGED <<console, written, total_log_counts, pc, call, output, writer, failed>>
    BY <1>2 DEF SettingStep, files, threads, sinks
  <2> QED
    BY <2>1 DEF CountInv, OfLevel, Counted, Emitted, Pending, Line
<1>3. ASSUME NEW t \in Threads, LogMessage(t) \/ CallRotate(t) PROVE CountInv'
  <2>1. CASE Filter(t)
    BY <2>1, CountInvQuiet, CountInvFilter DEF Filter
  <2> QED
    BY <1>3, <2>1, CountInvQuiet, CountInvConsole, CountInvWrite DEF LogMessage
<1> QED
  BY <1>1, <1>2, <1>3, Steps

\* Of each level, what was counted is what an output shows, as long as no operation failed.
THEOREM Counts == Spec => []CountsWritten
<1>1. CountInv => CountsWritten
  <2> SUFFICES ASSUME CountInv, ~failed, \A t \in Threads : pc[t] \notin {"console", "file"},
                      NEW l \in Levels
               PROVE  total_log_counts[l] = Cardinality({x \in Emitted : x.level = l})
    BY DEF CountsWritten
  <2>1. Pending = {}
    BY DEF Pending
  <2> QED
    BY <2>1 DEF CountInv, OfLevel, Counted
<1>2. Spec => []ShownInv
  BY ShownInvInit, ShownInvStep, Locked, PTL DEF Spec
<1> QED
  BY <1>1, <1>2, CountInvInit, CountInvStep, Locked, PTL DEF Spec

================================================================================
