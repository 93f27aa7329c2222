------------------------------- MODULE AtomicFile -------------------------------
(***************************************************************************)
(* file_writer_write_all_atomic of file_io/file_writer.c: threads of       *)
(* several processes replace the file of one path, each by a temporary     *)
(* file named after its process, while others read the path.  A content is *)
(* a set of pieces, <<position, block>>, and a payload the set of all the  *)
(* pieces that a call was given.                                           *)
(*                                                                         *)
(* The file system is external: names lead to inodes; what the disk keeps  *)
(* of names and contents follows behind, until fsync or on its own; a      *)
(* crash of the machine goes back to the disk.  Faults says which calls of *)
(* the C library may fail.                                                 *)
(***************************************************************************)
EXTENDS Integers, FiniteSets

CONSTANTS Threads, Processes, ProcessOf, Readers, Inodes, NoInode, Payloads, Faults, MaxCalls, MaxCrashes

ASSUME ThreadsAssumption == ProcessOf \in [Threads -> Processes]
ASSUME InodesAssumption == NoInode \notin Inodes
ASSUME PayloadsAssumption ==
  /\ NoInode \notin Payloads
  /\ \A payload \in Payloads : \A x, y \in payload : x[1] \in Int /\ (x[1] = y[1] => x = y)

VARIABLES
  dir,      \* the names: path, and temp, one for each process
  kept,     \* the names on the disk
  content,  \* the pieces of each inode
  disk,     \* those on the disk
  pc,       \* the next step of each thread's call
  data,     \* what it writes
  file,     \* the inode it has open
  buffer,   \* the pieces the C library has not handed on yet
  answer,   \* what its last call returned
  source,   \* the inode each reader has open
  seen,     \* what it has read of it
  calls,    \* how many there have been
  crashes   \* of processes and of the machine

vars == <<dir, kept, content, disk, pc, data, file, buffer, answer, source, seen, calls, crashes>>

MaybeInode == Inodes \union {NoInode}
Steps == {"idle", "open", "write", "flush", "sync", "close", "closeFailed", "rename", "remove"}

Temp(t) == dir.temp[ProcessOf[t]]
Named(names) == {names.path} \union {names.temp[p] : p \in Processes}
Free(i) ==
  /\ i \notin Named(dir) \union Named(kept)
  /\ \A t \in Threads : file[t] # i
  /\ \A r \in Readers : source[r] # i

\* Pieces over a content
Put(old, pieces) == {x \in old : \A y \in pieces : x[1] # y[1]} \union pieces
\* The first pieces of a content
Prefixes(all) == {some \in SUBSET all : \A x \in some, y \in all : y[1] < x[1] => y \in some}
Beyond(all, some) == {x \in all : \A y \in some : y[1] < x[1]}

Init ==
  /\ \E i \in MaybeInode : dir = [path |-> i, temp |-> [p \in Processes |-> NoInode]]
  /\ kept = dir
  /\ \E old \in Payloads : content = [i \in Inodes |-> IF i = dir.path THEN old ELSE {}]
  /\ disk = content
  /\ pc = [t \in Threads |-> "idle"]
  /\ data = [t \in Threads |-> {}]
  /\ file = [t \in Threads |-> NoInode]
  /\ buffer = [t \in Threads |-> {}]
  /\ answer = [t \in Threads |-> FALSE]
  /\ source = [r \in Readers |-> NoInode]
  /\ seen = [r \in Readers |-> {}]
  /\ calls = 0
  /\ crashes = 0

-----------------------------------------------------------------------------
(* A call.                                                                 *)

Call(t, payload) ==
  /\ pc[t] = "idle" /\ calls < MaxCalls
  /\ calls' = calls + 1
  /\ pc' = [pc EXCEPT ![t] = "open"]
  /\ data' = [data EXCEPT ![t] = payload]
  /\ answer' = [answer EXCEPT ![t] = FALSE]
  /\ UNCHANGED <<dir, kept, content, disk, file, buffer, source, seen, crashes>>

\* fopen(tmp, "wb") empties the file of that name, or makes one
Open(t, i) ==
  /\ pc[t] = "open"
  /\ IF Temp(t) = NoInode THEN Free(i) ELSE i = Temp(t)
  /\ dir' = [dir EXCEPT !.temp = [@ EXCEPT ![ProcessOf[t]] = i]]
  /\ content' = [content EXCEPT ![i] = {}]
  /\ disk' = [disk EXCEPT ![i] = IF Temp(t) = NoInode THEN {} ELSE @]
  /\ file' = [file EXCEPT ![t] = i]
  /\ pc' = [pc EXCEPT ![t] = "write"]
  /\ UNCHANGED <<kept, data, buffer, answer, source, seen, calls, crashes>>

OpenFails(t) ==
  /\ pc[t] = "open" /\ "open" \in Faults
  /\ pc' = [pc EXCEPT ![t] = "idle"]
  /\ data' = [data EXCEPT ![t] = {}]
  /\ UNCHANGED <<dir, kept, content, disk, file, buffer, answer, source, seen, calls, crashes>>

\* Pieces go to the inode, and the rest stays in the buffer.
HandOn(t, pieces, rest, next) ==
  /\ content' = [content EXCEPT ![file[t]] = Put(@, pieces)]
  /\ buffer' = [buffer EXCEPT ![t] = rest]
  /\ pc' = [pc EXCEPT ![t] = next]
  /\ UNCHANGED <<dir, kept, disk, data, answer, source, seen, calls, crashes>>

Write(t) ==
  /\ pc[t] = "write"
  /\ \E pieces \in Prefixes(data[t]) : HandOn(t, pieces, data[t] \ pieces, "flush")
  /\ UNCHANGED file

\* Mutant: a short fwrite goes unnoticed.
WriteFailsUnnoticed(t) ==
  /\ pc[t] = "write" /\ "write" \in Faults /\ data[t] # {}
  /\ \E pieces \in Prefixes(data[t]) : HandOn(t, pieces, {}, "flush")
  /\ UNCHANGED file

\* fwrite counts less than size
WriteFails(t) ==
  /\ pc[t] = "write" /\ "write" \in Faults /\ data[t] # {}
  /\ \E pieces \in Prefixes(data[t]) : HandOn(t, pieces, data[t] \ pieces, "closeFailed")
  /\ UNCHANGED file

\* Mutant: what is in the buffer is not flushed before the fsync.
FlushSkipped(t) ==
  /\ pc[t] = "flush"
  /\ HandOn(t, {}, buffer[t], "sync")
  /\ UNCHANGED file

\* fflush, whose result nobody looks at
Flush(t) ==
  /\ pc[t] = "flush"
  /\ \E pieces \in Prefixes(buffer[t]) :
       /\ pieces = buffer[t] \/ "flush" \in Faults
       /\ HandOn(t, pieces, buffer[t] \ pieces, "sync")
  /\ UNCHANGED file

\* fsync, the same
Sync(t) ==
  /\ pc[t] = "sync"
  /\ \/ disk' = [disk EXCEPT ![file[t]] = content[file[t]]]
     \/ "sync" \in Faults /\ disk' = disk
  /\ pc' = [pc EXCEPT ![t] = "close"]
  /\ UNCHANGED <<dir, kept, content, data, file, buffer, answer, source, seen, calls, crashes>>

\* fclose tries what is left in the buffer once more.
Close(t) ==
  /\ pc[t] \in {"close", "closeFailed"}
  /\ \E pieces \in Prefixes(buffer[t]) :
       /\ pieces = buffer[t] \/ Faults \intersect {"flush", "write"} # {}
       /\ HandOn(t, pieces, {}, IF pc[t] = "close" THEN "rename" ELSE "remove")
  /\ file' = [file EXCEPT ![t] = NoInode]

\* The call ends.
Return(t, done) ==
  /\ pc' = [pc EXCEPT ![t] = "idle"]
  /\ data' = [data EXCEPT ![t] = {}]
  /\ answer' = [answer EXCEPT ![t] = done]
  /\ UNCHANGED <<kept, disk, file, buffer, source, seen, calls, crashes>>

\* Mutant: the file is written over instead of replaced.
RenameByCopy(t) ==
  /\ pc[t] = "rename" /\ Temp(t) # NoInode /\ dir.path # NoInode
  /\ content' = [content EXCEPT ![dir.path] = content[Temp(t)]]
  /\ dir' = [dir EXCEPT !.temp = [@ EXCEPT ![ProcessOf[t]] = NoInode]]
  /\ Return(t, TRUE)

Rename(t) ==
  /\ pc[t] = "rename" /\ Temp(t) # NoInode
  /\ dir' = [path |-> Temp(t), temp |-> [dir.temp EXCEPT ![ProcessOf[t]] = NoInode]]
  /\ Return(t, TRUE)
  /\ UNCHANGED content

\* Mutant: the temporary file stays when the rename fails.
RenameFailsTempStays(t) ==
  /\ pc[t] = "rename" /\ (Temp(t) = NoInode \/ "rename" \in Faults)
  /\ Return(t, FALSE)
  /\ UNCHANGED <<dir, content>>

RenameFails(t) ==
  /\ pc[t] = "rename" /\ (Temp(t) = NoInode \/ "rename" \in Faults)
  /\ pc' = [pc EXCEPT ![t] = "remove"]
  /\ UNCHANGED <<dir, kept, content, disk, data, file, buffer, answer, source, seen, calls, crashes>>

Remove(t) ==
  /\ pc[t] = "remove"
  /\ dir' = [dir EXCEPT !.temp = [@ EXCEPT ![ProcessOf[t]] = NoInode]]
  /\ Return(t, FALSE)
  /\ UNCHANGED content

-----------------------------------------------------------------------------
(* The others: readers, the kernel and crashes.                            *)

StartReading(r) ==
  /\ source[r] = NoInode /\ dir.path # NoInode
  /\ source' = [source EXCEPT ![r] = dir.path]
  /\ UNCHANGED <<dir, kept, content, disk, pc, data, file, buffer, answer, seen, calls, crashes>>

Read(r) ==
  /\ source[r] # NoInode
  /\ \E more \in Prefixes(Beyond(content[source[r]], seen[r])) : seen' = [seen EXCEPT ![r] = @ \union more]
  /\ UNCHANGED <<dir, kept, content, disk, pc, data, file, buffer, answer, source, calls, crashes>>

StopReading(r) ==
  /\ source[r] # NoInode
  /\ source' = [source EXCEPT ![r] = NoInode]
  /\ seen' = [seen EXCEPT ![r] = {}]
  /\ UNCHANGED <<dir, kept, content, disk, pc, data, file, buffer, answer, calls, crashes>>

\* The disk catches up with some of a content.
WriteBack(i) ==
  /\ \E some \in SUBSET content[i] :
       /\ content[i] \intersect disk[i] \subseteq some
       /\ disk' = [disk EXCEPT ![i] = some]
  /\ UNCHANGED <<dir, kept, content, pc, data, file, buffer, answer, source, seen, calls, crashes>>

KeepNames ==
  /\ kept' = dir
  /\ UNCHANGED <<dir, content, disk, pc, data, file, buffer, answer, source, seen, calls, crashes>>

\* The calls of some threads end where they are.
Dies(killed) ==
  /\ crashes < MaxCrashes
  /\ crashes' = crashes + 1
  /\ pc' = [t \in Threads |-> IF t \in killed THEN "idle" ELSE pc[t]]
  /\ file' = [t \in Threads |-> IF t \in killed THEN NoInode ELSE file[t]]
  /\ buffer' = [t \in Threads |-> IF t \in killed THEN {} ELSE buffer[t]]
  /\ data' = [t \in Threads |-> IF t \in killed THEN {} ELSE data[t]]
  /\ UNCHANGED <<kept, disk, answer, calls>>

ProcessDies(p) ==
  /\ Dies({t \in Threads : ProcessOf[t] = p})
  /\ UNCHANGED <<dir, content, source, seen>>

MachineCrashes ==
  /\ Dies(Threads)
  /\ dir' = kept
  /\ content' = disk
  /\ source' = [r \in Readers |-> NoInode]
  /\ seen' = [r \in Readers |-> {}]

Next ==
  \/ \E t \in Threads :
       \/ \E payload \in Payloads : Call(t, payload)
       \/ \E i \in Inodes : Open(t, i)
       \/ OpenFails(t) \/ Write(t) \/ WriteFails(t) \/ Flush(t) \/ Sync(t) \/ Close(t)
       \/ Rename(t) \/ RenameFails(t) \/ Remove(t)
  \/ \E r \in Readers : StartReading(r) \/ Read(r) \/ StopReading(r)
  \/ \E i \in Inodes : WriteBack(i)
  \/ \E p \in Processes : ProcessDies(p)
  \/ KeepNames
  \/ MachineCrashes

Spec == Init /\ [][Next]_vars

-----------------------------------------------------------------------------
TypeOK ==
  /\ dir \in [path : MaybeInode, temp : [Processes -> MaybeInode]]
  /\ kept \in [path : MaybeInode, temp : [Processes -> MaybeInode]]
  /\ DOMAIN content = Inodes /\ DOMAIN disk = Inodes
  /\ pc \in [Threads -> Steps]
  /\ data \in [Threads -> Payloads \union {{}}]
  /\ file \in [Threads -> MaybeInode]
  /\ DOMAIN buffer = Threads
  /\ answer \in [Threads -> BOOLEAN]
  /\ source \in [Readers -> MaybeInode]
  /\ DOMAIN seen = Readers
  /\ calls \in Nat /\ crashes \in Nat

\* Whenever the path has a file, in memory as on the disk, it is all of what
\* one call wrote: never a part, and never a mixture.
NeverHalfWritten ==
  \A names \in {dir, kept} : names.path # NoInode =>
    content[names.path] \in Payloads /\ disk[names.path] \in Payloads

\* A reader that comes to the end of the file has read one whole content,
\* though the path was replaced while it read.
ReadersSeeOneWrite ==
  \A r \in Readers : source[r] # NoInode /\ Beyond(content[source[r]], seen[r]) = {} => seen[r] \in Payloads

\* Only a crash leaves a temporary file behind: with every call of a process
\* answered, whatever failed in it, none is there.
TempsOnlyLeftByCrash ==
  crashes = 0 => \A p \in Processes :
    (\A t \in Threads : ProcessOf[t] = p => pc[t] \in {"idle", "open"}) => dir.temp[p] = NoInode

Held(where, names) == IF names.path = NoInode THEN NoInode ELSE where[names.path]
R == INSTANCE FileRegister WITH
       value <- Held(content, dir), durable <- Held(disk, kept), Nothing <- NoInode,
       asked <- [t \in Threads |-> IF pc[t] = "idle" THEN NoInode ELSE data[t]]
\* The steps of the call amount to an atomic replacement that survives crashes.
ImplementsFileRegister == R!Spec

-----------------------------------------------------------------------------
(* Instances. Payloads are of one piece and of two.                         *)

OwnProcess == CHOOSE f \in [Threads -> Processes] : \A p \in Processes : \E t \in Threads : f[t] = p
TwoPayloads == {{<<1, "one">>}, {<<1, "two">>, <<2, "two">>}}
\* An inode is what leads to it, and a free one makes no difference.
Links(i) ==
  <<dir.path = i, kept.path = i, {p \in Processes : dir.temp[p] = i}, {p \in Processes : kept.temp[p] = i},
    {t \in Threads : file[t] = i}, {r \in Readers : source[r] = i}>>
Seen == <<{<<Links(i), content[i], disk[i]>> : i \in {j \in Inodes : ~Free(j)}}, pc, data, buffer, answer, seen, calls, crashes>>
================================================================================
