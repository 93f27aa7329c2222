--------------------------------- MODULE Log ---------------------------------
(***************************************************************************)
(* The logger of log/log.c: threads that log messages through the unlocked *)
(* gates, the rate limiter and the filters to the console and a file, and  *)
(* threads that change the settings, switch the file or rotate it.         *)
(*                                                                         *)
(* What runs under the logger's mutex is split where an unlocked setter    *)
(* can get in between; the operations on files, which only meet others     *)
(* that hold the mutex, are one step each.                                 *)
(***************************************************************************)
EXTENDS Naturals, Sequences, FiniteSets, TLC

CONSTANTS
  Threads,
  Levels,       \* 0..n, in the order of severity
  Paths,        \* what log files are called
  Archives,     \* what rotated files are called
  DefaultPath,  \* "log.txt"
  None,
  MaxMessages,  \* bounds the messages of a run
  MaxSize,      \* bounds the size at which a file is rotated
  Limits,       \* the rate limits that are set; 0 is none
  MayFail       \* whether files fail to open or to be renamed, and paths are invalid

Messages == 1..MaxMessages
Lines == [message : Messages, level : Levels]

ASSUME LogAssumption ==
  /\ Levels \subseteq Nat
  /\ DefaultPath \in Paths
  /\ Paths \cap Archives = {}
  /\ None \notin Paths \cup Archives /\ None \notin Seq(Lines)
  /\ MaxMessages \in Nat /\ MaxSize \in Nat
  /\ Limits \subseteq Nat
  /\ MayFail \in BOOLEAN

VARIABLES
  suspended, level, visibility,   \* the gates, read without the mutex
  output,                         \* "console", "file" or "both"
  writer,                         \* the path file_writer writes to, or None
  current_file_path,
  rate_limit,
  expired,                        \* the interval of the rate limit is over
  log_counts, total_log_counts,
  lock,                           \* the threads inside the mutex
  pc, call,                       \* where a thread is, and its message
  disk,                           \* the lines of each file, or None
  console,                        \* the lines of the console
  next,                           \* history: the number of the next message
  inWindow,                       \* history: messages let through in this window
  written,                        \* history: lines written to a file
  reused,                         \* history: a path with lines was written over
  failed                          \* history: an operation on files failed

gates == <<suspended, level, visibility>>
files == <<output, writer, current_file_path, disk, reused, failed>>
rate == <<rate_limit, expired, log_counts, inWindow>>
threads == <<lock, pc, call>>
sinks == <<console, written, total_log_counts>>
vars == <<gates, files, rate, threads, sinks, next>>

NoCall == [message |-> 0, level |-> 0, count |-> 0]

Init ==
  /\ suspended = FALSE
  /\ level = 0
  /\ visibility = [l \in Levels |-> TRUE]
  /\ output = "both"
  /\ writer = DefaultPath
  /\ current_file_path = DefaultPath
  /\ rate_limit = 0
  /\ expired = FALSE
  /\ log_counts = [l \in Levels |-> 0]
  /\ total_log_counts = [l \in Levels |-> 0]
  /\ lock = {}
  /\ pc = [t \in Threads |-> "idle"]
  /\ call = [t \in Threads |-> NoCall]
  /\ disk = [p \in Paths \cup Archives |-> IF p = DefaultPath THEN <<>> ELSE None]
  /\ console = <<>>
  /\ next = 1
  /\ inWindow = [l \in Levels |-> 0]
  /\ written = {}
  /\ reused = FALSE
  /\ failed = FALSE

Goto(t, s) == pc' = [pc EXCEPT ![t] = s]

\* A message as it is shown, with the name of its level
Line(t) == [message |-> call[t].message, level |-> call[t].level]

\* logp_unlock and the return of log_message
Leave(t) ==
  /\ lock' = {}
  /\ Goto(t, "idle")
  /\ call' = [call EXCEPT ![t] = NoCall]

-----------------------------------------------------------------------------
(* log_message                                                             *)

\* The gates are passed before the mutex is asked for.
PassGates(t) ==
  /\ pc[t] = "idle"
  /\ next \in Messages
  /\ ~suspended
  /\ \E l \in Levels :
       /\ l >= level
       /\ visibility[l]
       /\ call' = [call EXCEPT ![t] = [message |-> next, level |-> l, count |-> 0]]
  /\ next' = next + 1
  /\ Goto(t, "lock")
  /\ UNCHANGED <<gates, files, rate, lock, sinks>>

EnterLog(t) ==
  /\ pc[t] = "lock"
  /\ lock = {}
  /\ lock' = {t}
  /\ Goto(t, "rate")
  /\ UNCHANGED <<gates, files, rate, call, sinks, next>>

\* Mutant: the limit is tested as if it were exceeded only beyond it.
TestRateLate(t) ==
  LET l == call[t].level
      counts == IF expired THEN [k \in Levels |-> 0] ELSE log_counts
  IN  /\ pc[t] = "rate"
      /\ log_counts' = counts
      /\ inWindow' = IF expired THEN counts ELSE inWindow
      /\ expired' = FALSE
      /\ IF rate_limit > 0 /\ counts[l] > rate_limit
         THEN Leave(t)
         ELSE /\ Goto(t, IF rate_limit > 0 THEN "count" ELSE "filter")
              /\ call' = [call EXCEPT ![t].count = counts[l]]
              /\ UNCHANGED lock
      /\ UNCHANGED <<gates, files, rate_limit, sinks, next>>

\* A window that is over starts anew; a level that has had its share is refused.
TestRate(t) ==
  LET l == call[t].level
      counts == IF expired THEN [k \in Levels |-> 0] ELSE log_counts
  IN  /\ pc[t] = "rate"
      /\ log_counts' = counts
      /\ inWindow' = IF expired THEN counts ELSE inWindow
      /\ expired' = FALSE
      /\ IF rate_limit > 0 /\ counts[l] >= rate_limit
         THEN Leave(t)
         ELSE /\ Goto(t, IF rate_limit > 0 THEN "count" ELSE "filter")
              /\ call' = [call EXCEPT ![t].count = counts[l]]
              /\ UNCHANGED lock
      /\ UNCHANGED <<gates, files, rate_limit, sinks, next>>

\* log_counts[level]++, which may store a count read before log_set_rate_limit
\* cleared it. Messages that a filter drops afterwards have used up their share.
CountForRate(t) ==
  LET l == call[t].level
  IN  /\ pc[t] = "count"
      /\ \E c \in {call[t].count, log_counts[l]} :
           log_counts' = [log_counts EXCEPT ![l] = c + 1]
      /\ inWindow' = [inWindow EXCEPT ![l] = @ + 1]
      /\ Goto(t, "filter")
      /\ UNCHANGED <<gates, files, rate_limit, expired, lock, call, sinks, next>>

\* Mutant: a message is counted before the filters have seen it.
CountThenFilter(t) ==
  /\ pc[t] = "filter"
  /\ total_log_counts' = [total_log_counts EXCEPT ![call[t].level] = @ + 1]
  /\ \/ Leave(t)
     \/ Goto(t, "console") /\ UNCHANGED <<lock, call>>
  /\ UNCHANGED <<gates, files, rate, console, written, next>>

\* The keyword, the size of the formatted line or the custom filter may drop the
\* message; a filter may be set or removed at any time.
Filter(t) ==
  /\ pc[t] = "filter"
  /\ \/ Leave(t) /\ UNCHANGED total_log_counts
     \/ /\ total_log_counts' = [total_log_counts EXCEPT ![call[t].level] = @ + 1]
        /\ Goto(t, "console")
        /\ UNCHANGED <<lock, call>>
  /\ UNCHANGED <<gates, files, rate, console, written, next>>

WriteConsole(t) ==
  /\ pc[t] = "console"
  /\ console' = IF output # "file" THEN Append(console, Line(t)) ELSE console
  /\ Goto(t, "file")
  /\ UNCHANGED <<gates, files, rate, lock, call, written, total_log_counts, next>>

WriteFile(t) ==
  /\ pc[t] = "file"
  /\ IF output # "console" /\ writer # None
     THEN /\ disk' = [disk EXCEPT ![writer] = Append(@, Line(t))]
          /\ written' = written \cup {Line(t)}
     ELSE UNCHANGED <<disk, written>>
  /\ Leave(t)
  /\ UNCHANGED <<gates, output, writer, current_file_path, reused, failed, rate,
                 console, total_log_counts, next>>

-----------------------------------------------------------------------------
(* The file: log_set_output, log_set_file_path, log_redirect_output,       *)
(* log_rotate and log_set_max_file_size, each inside the mutex.            *)

Opens == IF MayFail THEN BOOLEAN ELSE {TRUE}

\* The paths were used before.
Overwrites(paths) == reused' = (reused \/ \E path \in paths : disk[path] # None)

\* file_writer_open(path, WRITE_TEXT) on the files d: mode "w" truncates.
OpenWriter(d, path, opened) ==
  /\ writer' = IF opened THEN path ELSE None
  /\ disk' = IF opened THEN [d EXCEPT ![path] = <<>>] ELSE d

\* Only LOG_OUTPUT_FILE opens a file, and always the default one.
SetOutput ==
  /\ lock = {}
  /\ \E o \in {"console", "file", "both"}, opened \in Opens :
       IF o = "file" /\ writer = None
       THEN /\ OpenWriter(disk, DefaultPath, opened)
            /\ output' = IF opened THEN o ELSE "console"
            /\ failed' = (failed \/ ~opened)
            /\ Overwrites({DefaultPath})
       ELSE output' = o /\ UNCHANGED <<writer, disk, reused, failed>>
  /\ UNCHANGED <<gates, current_file_path, rate, threads, sinks, next>>

\* The old file is closed before the new path is looked at.
SetFilePathInvalid ==
  /\ MayFail
  /\ lock = {}
  /\ writer' = None
  /\ failed' = TRUE
  /\ UNCHANGED <<gates, output, current_file_path, disk, reused, rate, threads, sinks, next>>

\* log_set_file_path and log_redirect_output; the former falls back to the console.
SetFilePath ==
  /\ lock = {}
  /\ \E path \in Paths, opened \in Opens :
       /\ OpenWriter(disk, path, opened)
       /\ failed' = (failed \/ ~opened)
       /\ Overwrites({path})
       /\ current_file_path' = IF opened THEN path ELSE current_file_path
       /\ output' \in IF opened THEN {output} ELSE {output, "console"}
  /\ UNCHANGED <<gates, rate, threads, sinks, next>>

\* The writer is looked at before the mutex is asked for.
CallRotate(t) ==
  /\ pc[t] = "idle"
  /\ writer # None
  /\ Goto(t, "rotate")
  /\ UNCHANGED <<gates, files, rate, lock, call, sinks, next>>

\* file_writer_get_size answers 0 where there is no writer.
Size == IF writer = None THEN 0 ELSE Len(disk[writer])

\* Mutant: the default file is renamed, whatever the current one is.
RotateDefault(archive, renamed, opened) ==
  LET source == DefaultPath
      removed == [disk EXCEPT ![archive] = None]
  IN  IF renamed /\ removed[source] # None
      THEN OpenWriter([removed EXCEPT ![archive] = removed[source], ![source] = None],
                      current_file_path, opened)
      ELSE OpenWriter(removed, current_file_path, opened)

\* The archive is removed, the log renamed, and opened again whether or not that
\* went well: where the renaming failed its messages are truncated away.
RotateFile(archive, renamed, opened) ==
  LET source == current_file_path
      removed == [disk EXCEPT ![archive] = None]
  IN  IF renamed /\ removed[source] # None
      THEN OpenWriter([removed EXCEPT ![archive] = removed[source], ![source] = None],
                      source, opened)
      ELSE OpenWriter(removed, source, opened)

Rotate(t) ==
  /\ pc[t] = "rotate"
  /\ lock = {}
  /\ \E maxSize \in 0..MaxSize :
       \/ /\ Size >= maxSize
          /\ \E archive \in Archives, renamed, opened \in Opens :
               /\ RotateFile(archive, renamed, opened)
               /\ failed' = (failed \/ ~opened \/ ~renamed)
               /\ Overwrites({archive})
       \/ Size < maxSize /\ UNCHANGED <<writer, disk, reused, failed>>
  /\ Goto(t, "idle")
  /\ UNCHANGED <<gates, output, current_file_path, rate, lock, call, sinks, next>>

-----------------------------------------------------------------------------
(* The setters that do not take the mutex                                  *)

SetGates ==
  /\ \/ suspended' = ~suspended /\ UNCHANGED <<level, visibility>>
     \/ level' \in Levels /\ UNCHANGED <<suspended, visibility>>
     \/ /\ \E l \in Levels : visibility' = [visibility EXCEPT ![l] = ~@]
        /\ UNCHANGED <<suspended, level>>
  /\ UNCHANGED <<files, rate, threads, sinks, next>>

\* The limit, and a fresh window for it
SetRateLimit ==
  /\ rate_limit' \in Limits
  /\ log_counts' = [l \in Levels |-> 0]
  /\ inWindow' = [l \in Levels |-> 0]
  /\ expired' = FALSE
  /\ UNCHANGED <<gates, files, threads, sinks, next>>

WindowEnds ==
  /\ rate_limit > 0
  /\ expired' = TRUE
  /\ UNCHANGED <<gates, files, rate_limit, log_counts, inWindow, threads, sinks, next>>

-----------------------------------------------------------------------------

LogMessage(t) ==
  \/ PassGates(t)
  \/ EnterLog(t)
  \/ TestRate(t)
  \/ CountForRate(t)
  \/ Filter(t)
  \/ WriteConsole(t)
  \/ WriteFile(t)

Next ==
  \/ \E t \in Threads : LogMessage(t) \/ CallRotate(t) \/ Rotate(t)
  \/ SetOutput \/ SetFilePath \/ SetFilePathInvalid
  \/ SetGates \/ SetRateLimit \/ WindowEnds

Spec == Init /\ [][Next]_vars

-----------------------------------------------------------------------------

\* The state is well-typed, and a file that is written to exists.
TypeOK ==
  /\ output \in {"console", "file", "both"}
  /\ writer \in Paths \cup {None}
  /\ current_file_path \in Paths
  /\ disk \in [Paths \cup Archives -> Seq(Lines) \cup {None}]
  /\ writer # None => disk[writer] # None
  /\ rate_limit \in Nat
  /\ log_counts \in [Levels -> Nat] /\ inWindow \in [Levels -> Nat]
  /\ total_log_counts \in [Levels -> Nat]
  /\ lock \subseteq Threads
  /\ pc \in [Threads -> {"idle", "lock", "rate", "count", "filter", "console",
                         "file", "rotate"}]
  /\ call \in [Threads -> [message : Nat, level : Nat, count : Nat]]
  /\ console \in Seq(Lines)
  /\ written \subseteq Lines
  /\ next \in Nat \ {0}

Before(s, m, n) == \E i, j \in DOMAIN s : i < j /\ s[i].message = m /\ s[j].message = n

\* In a window no level gets more messages through than the limit allows, although
\* the limit may be set while a message is between the test and the count.
RateLimited == rate_limit > 0 => \A l \in Levels : inWindow[l] <= rate_limit

Emitted == written \cup {console[i] : i \in DOMAIN console}

\* Of each level, the messages counted are those written to an output, once nobody is
\* between the count and the writing and as long as there was a file to write to.
CountsWritten ==
  ~failed /\ (\A t \in Threads : pc[t] \notin {"console", "file"}) =>
    \A l \in Levels : total_log_counts[l] = Cardinality({x \in Emitted : x.level = l})

\* The console and the files show the messages in one order, each at most once.
SameOrder ==
  /\ \A m, n \in Messages, p \in Paths \cup Archives :
       disk[p] # None => ~(Before(console, m, n) /\ Before(disk[p], n, m))
  /\ \A m \in Messages : ~Before(console, m, m)

\* A line written to a file is found in some file: switching and rotating lose
\* nothing unless an operation on files fails or a path is used again.
NothingLost ==
  ~failed /\ ~reused =>
    \A x \in written : \E p \in Paths \cup Archives :
      disk[p] # None /\ \E i \in DOMAIN disk[p] : disk[p][i] = x

\* Whatever threads write, switch and rotate at once, what was written stays, in the
\* order in which it was written, and the file that is written to exists.
MessagesKept == TypeOK /\ SameOrder /\ NothingLost

-----------------------------------------------------------------------------

\* Threads are interchangeable.
ThreadSymmetry == Permutations(Threads)
================================================================================
