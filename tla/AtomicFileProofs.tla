---------------------------- MODULE AtomicFileProofs ----------------------------
(***************************************************************************)
(* Proofs about AtomicFile, for any threads, payloads and inodes, as long  *)
(* as a process replaces the path in one thread at a time and neither      *)
(* fflush nor fsync fails unnoticed: each is needed, as the runs of the    *)
(* documentation's claims show.                                            *)
(***************************************************************************)
EXTENDS AtomicFile, TLAPS

Careful ==
  /\ \A t, u \in Threads : ProcessOf[t] = ProcessOf[u] => t = u
  /\ Faults \intersect {"flush", "sync"} = {}

Apart(names) ==
  /\ \A p \in Processes : names.temp[p] # NoInode => names.temp[p] # names.path
  /\ \A p, q \in Processes : names.temp[p] = names.temp[q] /\ names.temp[p] # NoInode => p = q

\* A temporary file is nobody else's: not what a reader has open, nor what
\* the disk takes for the path's file.
TempsAlone ==
  \A p \in Processes : dir.temp[p] # NoInode =>
    dir.temp[p] # kept.path /\ \A r \in Readers : source[r] # dir.temp[p]

Visible(i) == i = dir.path \/ i = kept.path \/ \E r \in Readers : source[r] = i
Settled == \A i \in Inodes : Visible(i) => content[i] \in Payloads /\ disk[i] = content[i]

ReadInOrder ==
  \A r \in Readers : IF source[r] = NoInode THEN seen[r] = {} ELSE seen[r] \in Prefixes(content[source[r]])

\* How far the call of a thread is.
Progress(t) ==
  /\ file[t] # NoInode => file[t] = Temp(t)
  /\ pc[t] \in {"write", "flush", "sync", "close", "closeFailed"} <=> file[t] # NoInode
  /\ pc[t] \in {"rename", "remove"} => Temp(t) # NoInode
  /\ pc[t] # "idle" => data[t] \in Payloads /\ ~answer[t]
  /\ pc[t] = "write" => content[Temp(t)] = {}
  /\ pc[t] = "flush" => buffer[t] \subseteq data[t] /\ content[Temp(t)] = data[t] \ buffer[t]
  /\ pc[t] \in {"sync", "close", "rename"} => content[Temp(t)] = data[t]
  /\ pc[t] \in {"sync", "close"} => buffer[t] = {}
  /\ pc[t] \in {"close", "rename"} => disk[Temp(t)] = data[t]

IInv ==
  /\ TypeOK /\ Apart(dir) /\ Apart(kept) /\ TempsAlone
  /\ Settled /\ ReadInOrder
  /\ \A t \in Threads : Progress(t)
  /\ TempsOnlyLeftByCrash

-----------------------------------------------------------------------------
(* Pieces over a content.                                                  *)

LEMMA PutOverNothing == \A pieces : Put({}, pieces) = pieces /\ Put(pieces, {}) = pieces
BY DEF Put

LEMMA PutTheRest ==
  ASSUME NEW payload \in Payloads, NEW rest \in SUBSET payload
  PROVE  Put(payload \ rest, rest) = payload
BY PayloadsAssumption DEF Put

LEMMA PrefixIsPart == \A all : \A some \in Prefixes(all) : some \subseteq all
BY DEF Prefixes

LEMMA PrefixOfNothing == Prefixes({}) = {{}}
BY DEF Prefixes

\* What is read up to the end is all there is.
LEMMA ReadToTheEnd ==
  ASSUME NEW payload \in Payloads, NEW some \in Prefixes(payload), Beyond(payload, some) = {}
  PROVE  some = payload
<1>1. some \subseteq payload
  BY PrefixIsPart
<1>2. ASSUME NEW x \in payload, x \notin some PROVE FALSE
  <2>1. PICK y \in some : ~(y[1] < x[1])
    BY <1>2 DEF Beyond
  <2>2. x[1] \in Int /\ y[1] \in Int /\ (x[1] = y[1] => x = y)
    BY <1>1, <2>1, PayloadsAssumption
  <2>3. x[1] < y[1]
    BY <1>2, <2>1, <2>2
  <2> QED
    BY <1>2, <2>1, <2>3 DEF Prefixes
<1> QED
  BY <1>1, <1>2

\* More of it is still a prefix.
LEMMA ReadMore ==
  ASSUME NEW payload \in Payloads, NEW some \in Prefixes(payload), NEW more \in Prefixes(Beyond(payload, some))
  PROVE  some \union more \in Prefixes(payload)
<1>1. some \subseteq payload /\ more \subseteq Beyond(payload, some) /\ Beyond(payload, some) \subseteq payload
  BY PrefixIsPart DEF Beyond
<1>2. ASSUME NEW x \in some \union more, NEW y \in payload, y[1] < x[1] PROVE y \in some \union more
  <2>1. CASE x \in some
    BY <1>2, <2>1 DEF Prefixes
  <2>2. CASE x \in more
    <3>1. CASE y \in Beyond(payload, some)
      BY <1>2, <2>2, <3>1 DEF Prefixes
    <3>2. CASE y \notin Beyond(payload, some)
      <4>1. PICK z \in some : ~(z[1] < y[1])
        BY <3>2 DEF Beyond
      <4>2. z[1] \in Int /\ y[1] \in Int /\ (z[1] = y[1] => z = y)
        BY <1>1, <4>1, PayloadsAssumption
      <4>3. z = y \/ y[1] < z[1]
        BY <4>1, <4>2
      <4> QED
        BY <4>1, <4>3 DEF Prefixes
    <3> QED
      BY <3>1, <3>2
  <2> QED
    BY <2>1, <2>2
<1> QED
  BY <1>1, <1>2 DEF Prefixes

-----------------------------------------------------------------------------
(* The invariant.                                                          *)

LEMMA InitIInv == Init => IInv
<1> SUFFICES ASSUME Init PROVE IInv
  OBVIOUS
<1>1. PICK i \in MaybeInode : dir = [path |-> i, temp |-> [p \in Processes |-> NoInode]]
  BY DEF Init
<1>2. TypeOK
  BY <1>1 DEF Init, TypeOK, Steps, MaybeInode
<1>3. Apart(dir) /\ Apart(kept) /\ TempsAlone /\ TempsOnlyLeftByCrash
  BY <1>1 DEF Init, Apart, TempsAlone, TempsOnlyLeftByCrash
<1>4. Settled /\ ReadInOrder
  BY <1>1, InodesAssumption DEF Init, Settled, Visible, ReadInOrder
<1>5. \A t \in Threads : Progress(t)
  BY DEF Init, Progress
<1> QED
  BY <1>2, <1>3, <1>4, <1>5 DEF IInv

\* Most steps of a call change no more than the thread, the name of its
\* process's temporary file and one inode, which is that file's or free.
Own(t, i) ==
  /\ i = Temp(t) \/ (i \in Inodes /\ Free(i) /\ Temp(t) = NoInode)
  /\ dir'.path = dir.path /\ dir'.temp[ProcessOf[t]] \in {i, NoInode}
  /\ UNCHANGED <<kept, source, seen, crashes>>
  /\ \A p \in Processes : p # ProcessOf[t] => dir'.temp[p] = dir.temp[p]
  /\ \A j \in Inodes : j # i => content'[j] = content[j] /\ disk'[j] = disk[j]
  /\ \A u \in Threads : u # t => /\ pc'[u] = pc[u] /\ data'[u] = data[u] /\ file'[u] = file[u]
                                 /\ buffer'[u] = buffer[u] /\ answer'[u] = answer[u]

LEMMA OwnStep ==
  ASSUME Careful, IInv, NEW t \in Threads, NEW i, Own(t, i), TypeOK', Progress(t)',
         crashes = 0 /\ dir'.temp[ProcessOf[t]] # NoInode => pc'[t] \notin {"idle", "open"}
  PROVE  IInv'
<1> DEFINE own == ProcessOf[t]
<1>1. own \in Processes /\ TypeOK /\ Apart(dir) /\ Apart(kept) /\ TempsAlone /\ Settled /\ ReadInOrder
  BY ThreadsAssumption DEF IInv
<1>2. \A p \in Processes : p # own /\ dir.temp[p] # NoInode => dir.temp[p] # i
  BY <1>1 DEF Own, Temp, Apart, Free, Named, TypeOK
<1>3. i # NoInode => ~Visible(i)
  <2>1. CASE i = Temp(t)
    BY <1>1, <2>1 DEF Visible, Temp, TempsAlone, Apart
  <2>2. CASE Free(i)
    BY <1>1, <2>2 DEF Visible, Free, Named
  <2> QED
    BY <2>1, <2>2 DEF Own
<1>4. Apart(dir)'
  BY <1>1, <1>2, <1>3 DEF Apart, Own, Visible
<1>5. Apart(kept)'
  BY <1>1 DEF Apart, Own
<1>6. TempsAlone'
  BY <1>1, <1>3 DEF TempsAlone, Own, Visible
<1>7. \A j \in Inodes : Visible(j)' => Visible(j) /\ j # i
  BY <1>3, InodesAssumption DEF Own, Visible
<1>8. Settled'
  BY <1>1, <1>7 DEF Settled, Own
<1>9. ReadInOrder'
  <2>1. \A r \in Readers : source[r] # NoInode => source[r] \in Inodes /\ Visible(source[r]) /\ source[r] # i
    BY <1>1, <1>3 DEF TypeOK, MaybeInode, Visible
  <2> QED
    BY <1>1, <2>1 DEF ReadInOrder, Own
<1>10. ASSUME NEW u \in Threads, u # t PROVE Progress(u)'
  <2>1. ProcessOf[u] # own /\ ProcessOf[u] \in Processes
    BY <1>10, ThreadsAssumption DEF Careful
  <2>2. Temp(u)' = Temp(u)
    BY <2>1 DEF Own, Temp
  <2>3. Temp(u) # NoInode => Temp(u) \in Inodes /\ Temp(u) # i
    BY <1>1, <1>2, <2>1 DEF Temp, TypeOK, MaybeInode
  <2>4. Temp(u) # NoInode => content'[Temp(u)] = content[Temp(u)] /\ disk'[Temp(u)] = disk[Temp(u)]
    BY <2>3 DEF Own
  <2>5. pc[u] \in {"write", "flush", "sync", "close", "rename"} => Temp(u) # NoInode
    BY DEF IInv, Progress
  <2>6. Progress(u)
    BY DEF IInv
  <2> QED
    BY <1>10, <2>2, <2>4, <2>5, <2>6 DEF Progress, Own
<1>11. TempsOnlyLeftByCrash'
  <2> SUFFICES ASSUME crashes' = 0, NEW p \in Processes, dir'.temp[p] # NoInode
               PROVE  \E u \in Threads : ProcessOf[u] = p /\ pc'[u] \notin {"idle", "open"}
    BY DEF TempsOnlyLeftByCrash
  <2>1. CASE p = own
    BY <2>1 DEF Own
  <2>2. CASE p # own
    <3>1. dir.temp[p] # NoInode /\ crashes = 0
      BY <2>2 DEF Own
    <3>2. PICK u \in Threads : ProcessOf[u] = p /\ pc[u] \notin {"idle", "open"}
      BY <3>1 DEF IInv, TempsOnlyLeftByCrash
    <3> QED
      BY <2>2, <3>2 DEF Own
  <2> QED
    BY <2>1, <2>2
<1> QED
  BY <1>4, <1>5, <1>6, <1>8, <1>9, <1>10, <1>11 DEF IInv

\* The inode that a thread has open is its temporary file.
LEMMA OpenIsTemp ==
  ASSUME IInv, NEW t \in Threads, file[t] # NoInode
  PROVE  file[t] = Temp(t) /\ file[t] \in Inodes /\ ProcessOf[t] \in Processes
BY ThreadsAssumption DEF IInv, Progress, TypeOK, MaybeInode

\* The steps of a call that leave the path alone.
LEMMA CallStep ==
  ASSUME Careful, IInv, NEW t \in Threads, NEW payload \in Payloads, Call(t, payload)
  PROVE  IInv'
<1>1. TypeOK' /\ Progress(t)'
  BY DEF IInv, Call, TypeOK, Steps, Progress, Temp
<1>2. Own(t, Temp(t))
  BY DEF IInv, TypeOK, Call, Own, Temp
<1>3. dir.temp[ProcessOf[t]] = NoInode \/ crashes # 0
  BY ThreadsAssumption DEF IInv, TempsOnlyLeftByCrash, Call, Careful
<1> QED
  BY <1>1, <1>2, <1>3, OwnStep DEF Call

LEMMA OpenStep ==
  ASSUME Careful, IInv, NEW t \in Threads, NEW i \in Inodes, Open(t, i)
  PROVE  IInv'
<1>1. ProcessOf[t] \in Processes /\ i # NoInode
  BY ThreadsAssumption, InodesAssumption
<1>2. TypeOK'
  BY <1>1 DEF IInv, Open, TypeOK, Steps, MaybeInode
<1>3. Temp(t)' = i
  BY <1>1 DEF IInv, TypeOK, Open, Temp
<1>4. Progress(t)'
  BY <1>1, <1>3 DEF IInv, TypeOK, Open, Progress
<1>5. Own(t, i)
  BY <1>1 DEF IInv, TypeOK, Open, Own
<1> QED
  BY <1>2, <1>4, <1>5, OwnStep DEF IInv, TypeOK, Open

LEMMA OpenFailsStep ==
  ASSUME Careful, IInv, NEW t \in Threads, OpenFails(t)
  PROVE  IInv'
<1>1. TypeOK' /\ Progress(t)'
  BY DEF IInv, OpenFails, TypeOK, Steps, Progress, Temp
<1>2. Own(t, Temp(t))
  BY DEF IInv, TypeOK, OpenFails, Own, Temp
<1>3. dir.temp[ProcessOf[t]] = NoInode \/ crashes # 0
  BY ThreadsAssumption DEF IInv, TempsOnlyLeftByCrash, OpenFails, Careful
<1> QED
  BY <1>1, <1>2, <1>3, OwnStep DEF OpenFails

\* Pieces that go to the temporary file.
LEMMA HandOnStep ==
  ASSUME Careful, IInv, NEW t \in Threads, pc[t] # "idle", file[t] # NoInode,
         NEW pieces, NEW rest, NEW next \in Steps \ {"idle", "open"}, HandOn(t, pieces, rest, next),
         file' = file \/ file' = [file EXCEPT ![t] = NoInode],
         file'[t] = NoInode <=> next \in {"rename", "remove"},
         next = "flush" => rest \subseteq data[t] /\ Put(content[Temp(t)], pieces) = data[t] \ rest,
         next \in {"sync", "rename"} => Put(content[Temp(t)], pieces) = data[t],
         next = "sync" => rest = {},
         next \in {"write", "close"} => FALSE,
         next = "rename" => disk[Temp(t)] = data[t]
  PROVE  IInv'
<1>1. file[t] = Temp(t) /\ file[t] \in Inodes
  BY OpenIsTemp
<1>2. TypeOK'
  BY DEF IInv, HandOn, TypeOK, MaybeInode
<1>3. Temp(t)' = Temp(t) /\ disk' = disk /\ content'[Temp(t)] = Put(content[Temp(t)], pieces) /\ pc'[t] = next
      /\ buffer'[t] = rest /\ data' = data /\ answer' = answer /\ file'[t] \in {file[t], NoInode}
  BY <1>1 DEF HandOn, Temp, IInv, TypeOK
<1>4. Progress(t)'
  BY <1>1, <1>3 DEF Progress, IInv, Steps
<1>5. Own(t, Temp(t))
  BY <1>1 DEF IInv, TypeOK, HandOn, Own, Temp
<1> QED
  BY <1>2, <1>3, <1>4, <1>5, OwnStep

LEMMA WriteStep ==
  ASSUME Careful, IInv, NEW t \in Threads, Write(t) \/ WriteFails(t)
  PROVE  IInv'
<1>1. file[t] # NoInode /\ content[Temp(t)] = {}
  BY DEF IInv, Progress, Write, WriteFails
<1>2. PICK pieces \in Prefixes(data[t]) :
        HandOn(t, pieces, data[t] \ pieces, "flush") \/ HandOn(t, pieces, data[t] \ pieces, "closeFailed")
  BY DEF Write, WriteFails
<1>3. Put(content[Temp(t)], pieces) = data[t] \ (data[t] \ pieces)
  BY <1>1, PutOverNothing, PrefixIsPart
<1>4. file' = file /\ pc[t] # "idle"
  BY DEF Write, WriteFails
<1> QED
  BY <1>1, <1>2, <1>3, <1>4, HandOnStep DEF Steps

LEMMA FlushStep ==
  ASSUME Careful, IInv, NEW t \in Threads, Flush(t)
  PROVE  IInv'
<1>1. HandOn(t, buffer[t], {}, "sync") /\ file' = file /\ pc[t] = "flush"
  BY DEF Flush, Careful
<1>2. /\ file[t] # NoInode /\ data[t] \in Payloads
      /\ buffer[t] \subseteq data[t] /\ content[Temp(t)] = data[t] \ buffer[t]
  BY <1>1 DEF IInv, Progress
<1>3. Put(content[Temp(t)], buffer[t]) = data[t]
  BY <1>2, PutTheRest
<1> QED
  BY <1>1, <1>2, <1>3, HandOnStep DEF Steps

LEMMA SyncStep ==
  ASSUME Careful, IInv, NEW t \in Threads, Sync(t)
  PROVE  IInv'
<1>1. /\ disk' = [disk EXCEPT ![file[t]] = content[file[t]]] /\ pc[t] = "sync"
      /\ pc' = [pc EXCEPT ![t] = "close"]
      /\ UNCHANGED <<dir, kept, content, data, file, buffer, answer, source, seen, calls, crashes>>
  BY DEF Sync, Careful
<1>2. file[t] = Temp(t) /\ file[t] \in Inodes
  BY <1>1, OpenIsTemp DEF IInv, Progress
<1>3. TypeOK'
  BY <1>1 DEF IInv, TypeOK, Steps
<1>4. Temp(t)' = Temp(t) /\ disk'[Temp(t)] = content[Temp(t)]
  BY <1>1, <1>2 DEF Temp, IInv, TypeOK
<1>5. Progress(t)'
  BY <1>1, <1>2, <1>4 DEF Progress, IInv, TypeOK
<1>6. Own(t, Temp(t))
  BY <1>1, <1>2 DEF IInv, TypeOK, Own, Temp
<1> QED
  BY <1>1, <1>3, <1>5, <1>6, OwnStep DEF IInv, TypeOK

LEMMA CloseStep ==
  ASSUME Careful, IInv, NEW t \in Threads, Close(t)
  PROVE  IInv'
<1>1. PICK pieces \in Prefixes(buffer[t]) : HandOn(t, pieces, {}, IF pc[t] = "close" THEN "rename" ELSE "remove")
  BY DEF Close
<1>2. file[t] # NoInode /\ pc[t] \in {"close", "closeFailed"} /\ file' = [file EXCEPT ![t] = NoInode]
  BY DEF IInv, Progress, Close
<1>3. pc[t] = "close" => pieces = {} /\ content[Temp(t)] = data[t] /\ disk[Temp(t)] = data[t]
  BY <1>1, PrefixOfNothing DEF IInv, Progress
<1>4. pc[t] = "close" => Put(content[Temp(t)], pieces) = data[t]
  BY <1>3, PutOverNothing
<1>5. file'[t] = NoInode
  BY <1>2 DEF IInv, TypeOK
<1> QED
  BY <1>1, <1>2, <1>3, <1>4, <1>5, HandOnStep DEF Steps

LEMMA RenameFailsStep ==
  ASSUME Careful, IInv, NEW t \in Threads, RenameFails(t)
  PROVE  IInv'
<1>1. TypeOK' /\ Progress(t)'
  BY DEF IInv, RenameFails, TypeOK, Steps, Progress, Temp
<1>2. Own(t, Temp(t))
  BY DEF IInv, TypeOK, RenameFails, Own, Temp
<1> QED
  BY <1>1, <1>2, OwnStep DEF RenameFails, IInv, TypeOK

LEMMA RemoveStep ==
  ASSUME Careful, IInv, NEW t \in Threads, Remove(t)
  PROVE  IInv'
<1>1. ProcessOf[t] \in Processes
  BY ThreadsAssumption
<1>2. TypeOK'
  BY DEF IInv, Remove, Return, TypeOK, Steps, MaybeInode
<1>3. file[t] = NoInode
  BY DEF IInv, Remove, Progress
<1>4. Progress(t)'
  BY <1>1, <1>3 DEF IInv, Remove, Return, TypeOK, Progress
<1>5. Own(t, Temp(t)) /\ dir'.temp[ProcessOf[t]] = NoInode
  BY <1>1 DEF IInv, TypeOK, Remove, Return, Own, Temp
<1> QED
  BY <1>2, <1>4, <1>5, OwnStep DEF Remove

-----------------------------------------------------------------------------
(* The path's file changes.                                                *)

LEMMA RenameStep ==
  ASSUME Careful, IInv, NEW t \in Threads, Rename(t)
  PROVE  IInv'
<1> DEFINE own == ProcessOf[t]
           i == dir.temp[own]
<1>1. /\ own \in Processes /\ i \in Inodes /\ i # NoInode
      /\ TypeOK /\ Apart(dir) /\ Apart(kept) /\ TempsAlone /\ Settled /\ ReadInOrder
  BY ThreadsAssumption DEF IInv, TypeOK, MaybeInode, Rename, Temp
<1>2. /\ dir' = [path |-> i, temp |-> [dir.temp EXCEPT ![own] = NoInode]]
      /\ UNCHANGED <<content, disk, kept, file, buffer, source, seen, crashes>>
  BY DEF Rename, Return, Temp
<1>3. content[i] \in Payloads /\ disk[i] = content[i]
  BY DEF IInv, Progress, Rename, Temp
<1>4. TypeOK'
  BY <1>1, <1>2 DEF TypeOK, Steps, MaybeInode, Rename, Return
<1>5. Apart(dir)' /\ Apart(kept)'
  BY <1>1, <1>2 DEF Apart, TypeOK
<1>6. TempsAlone'
  BY <1>1, <1>2 DEF TempsAlone, TypeOK
<1>7. Settled'
  BY <1>1, <1>2, <1>3 DEF Settled, Visible
<1>8. ReadInOrder'
  BY <1>1, <1>2 DEF ReadInOrder
<1>9. file[t] = NoInode
  BY DEF IInv, Rename, Progress
<1>10. Progress(t)'
  BY <1>1, <1>2, <1>9 DEF Progress, Rename, Return, TypeOK
<1>11. ASSUME NEW u \in Threads, u # t PROVE Progress(u)'
  <2>1. ProcessOf[u] # own /\ ProcessOf[u] \in Processes
    BY <1>11, ThreadsAssumption DEF Careful
  <2>2. Temp(u)' = Temp(u)
    BY <1>1, <1>2, <2>1 DEF Temp, TypeOK
  <2>3. Progress(u) /\ pc'[u] = pc[u] /\ data'[u] = data[u] /\ answer'[u] = answer[u]
    BY <1>1, <1>11 DEF IInv, TypeOK, Rename, Return
  <2> QED
    BY <1>2, <2>2, <2>3 DEF Progress
<1>12. TempsOnlyLeftByCrash'
  <2> SUFFICES ASSUME crashes' = 0, NEW p \in Processes, dir'.temp[p] # NoInode
               PROVE  \E u \in Threads : ProcessOf[u] = p /\ pc'[u] \notin {"idle", "open"}
    BY DEF TempsOnlyLeftByCrash
  <2>1. p # own /\ dir.temp[p] # NoInode /\ crashes = 0
    BY <1>1, <1>2 DEF TypeOK
  <2>2. PICK u \in Threads : ProcessOf[u] = p /\ pc[u] \notin {"idle", "open"}
    BY <2>1 DEF IInv, TempsOnlyLeftByCrash
  <2> QED
    BY <1>1, <2>1, <2>2 DEF Rename, Return, TypeOK
<1> QED
  BY <1>4, <1>5, <1>6, <1>7, <1>8, <1>10, <1>11, <1>12 DEF IInv

-----------------------------------------------------------------------------
(* Readers, the kernel and crashes.                                        *)

LEMMA ReaderStep ==
  ASSUME IInv, NEW r \in Readers, StartReading(r) \/ Read(r) \/ StopReading(r)
  PROVE  IInv'
<1>1. UNCHANGED <<dir, kept, content, disk, pc, data, file, buffer, answer, crashes>>
  BY DEF StartReading, Read, StopReading
<1>2. TypeOK /\ TempsAlone /\ Settled /\ ReadInOrder /\ Apart(dir)
  BY DEF IInv
<1>3. TypeOK'
  BY <1>1, <1>2 DEF TypeOK, StartReading, Read, StopReading, MaybeInode
<1>4. \A q \in Readers : source'[q] # NoInode => source'[q] \in {source[q], dir.path}
  BY <1>2 DEF StartReading, Read, StopReading, TypeOK
<1>5. TempsAlone'
  BY <1>1, <1>2, <1>4 DEF TempsAlone, Apart
<1>6. Settled'
  BY <1>1, <1>2, <1>4, InodesAssumption DEF Settled, Visible
<1>7. ReadInOrder'
  <2>1. CASE StartReading(r)
    BY <1>1, <1>2, <2>1 DEF StartReading, ReadInOrder, TypeOK, Prefixes
  <2>2. CASE Read(r)
    <3>1. content[source[r]] \in Payloads /\ seen[r] \in Prefixes(content[source[r]])
      BY <1>2, <2>2 DEF Read, Settled, Visible, ReadInOrder, TypeOK, MaybeInode
    <3>2. PICK more \in Prefixes(Beyond(content[source[r]], seen[r])) : seen' = [seen EXCEPT ![r] = @ \union more]
      BY <2>2 DEF Read
    <3>3. seen'[r] \in Prefixes(content[source[r]])
      BY <1>2, <3>1, <3>2, ReadMore DEF TypeOK
    <3> QED
      BY <1>1, <1>2, <2>2, <3>2, <3>3 DEF ReadInOrder, Read, TypeOK
  <2>3. CASE StopReading(r)
    BY <1>1, <1>2, <2>3 DEF StopReading, ReadInOrder, TypeOK
  <2> QED
    BY <2>1, <2>2, <2>3
<1>8. \A t \in Threads : Progress(t)'
  BY <1>1 DEF IInv, Progress, Temp
<1> QED
  BY <1>1, <1>3, <1>5, <1>6, <1>7, <1>8 DEF IInv, Apart, TempsOnlyLeftByCrash

LEMMA WriteBackStep ==
  ASSUME IInv, NEW i \in Inodes, WriteBack(i)
  PROVE  IInv'
<1>1. UNCHANGED <<dir, kept, content, pc, data, file, buffer, answer, source, seen, crashes>>
  BY DEF WriteBack
<1>2. TypeOK'
  BY DEF IInv, TypeOK, WriteBack
<1>3. ASSUME NEW j \in Inodes, disk[j] = content[j] PROVE disk'[j] = disk[j]
  <2>1. PICK some \in SUBSET content[i] : content[i] \intersect disk[i] \subseteq some /\ disk' = [disk EXCEPT ![i] = some]
    BY DEF WriteBack
  <2>2. CASE i = j
    <3>1. some = content[i]
      BY <1>3, <2>1, <2>2
    <3> QED
      BY <1>3, <2>1, <2>2, <3>1 DEF IInv, TypeOK
  <2> QED
    BY <2>1, <2>2 DEF IInv, TypeOK
<1>4. Settled'
  BY <1>1, <1>3 DEF IInv, Settled, Visible
<1>5. ASSUME NEW t \in Threads PROVE Progress(t)'
  <2>1. Progress(t) /\ Temp(t) \in MaybeInode
    BY ThreadsAssumption DEF IInv, TypeOK, Temp
  <2> QED
    BY <1>1, <1>3, <2>1 DEF Progress, Temp, MaybeInode
<1> QED
  BY <1>1, <1>2, <1>4, <1>5 DEF IInv, Apart, TempsAlone, ReadInOrder, TempsOnlyLeftByCrash

LEMMA KeepNamesStep ==
  ASSUME IInv, KeepNames
  PROVE  IInv'
<1>1. kept' = dir /\ UNCHANGED <<dir, content, disk, pc, data, file, buffer, answer, source, seen, calls, crashes>>
  BY DEF KeepNames
<1>2. \A t \in Threads : Progress(t)'
  BY <1>1 DEF IInv, Progress, Temp
<1>3. TypeOK' /\ Apart(dir)' /\ Apart(kept)' /\ TempsAlone' /\ Settled' /\ ReadInOrder' /\ TempsOnlyLeftByCrash'
  BY <1>1 DEF IInv, TypeOK, Apart, TempsAlone, Settled, Visible, ReadInOrder, TempsOnlyLeftByCrash
<1> QED
  BY <1>2, <1>3 DEF IInv

LEMMA ProcessDiesStep ==
  ASSUME IInv, NEW p \in Processes, ProcessDies(p)
  PROVE  IInv'
<1>1. UNCHANGED <<dir, kept, content, disk, answer, source, seen>> /\ crashes' # 0
  BY DEF ProcessDies, Dies, IInv, TypeOK
<1>2. TypeOK'
  BY DEF IInv, TypeOK, ProcessDies, Dies, Steps, MaybeInode
<1>3. ASSUME NEW t \in Threads PROVE Progress(t)'
  BY <1>1 DEF IInv, Progress, Temp, ProcessDies, Dies
<1> QED
  BY <1>1, <1>2, <1>3 DEF IInv, Apart, TempsAlone, Settled, Visible, ReadInOrder, TempsOnlyLeftByCrash

LEMMA MachineCrashesStep ==
  ASSUME IInv, MachineCrashes
  PROVE  IInv'
<1>1. /\ dir' = kept /\ kept' = kept /\ content' = disk /\ disk' = disk /\ crashes' # 0
      /\ source' = [r \in Readers |-> NoInode] /\ seen' = [r \in Readers |-> {}]
  BY DEF MachineCrashes, Dies, IInv, TypeOK
<1>2. TypeOK'
  BY <1>1 DEF IInv, TypeOK, MachineCrashes, Dies, Steps, MaybeInode
<1>3. Apart(dir)' /\ Apart(kept)' /\ TempsAlone' /\ ReadInOrder' /\ TempsOnlyLeftByCrash'
  BY <1>1 DEF IInv, Apart, TempsAlone, ReadInOrder, TempsOnlyLeftByCrash
<1>4. Settled'
  BY <1>1, InodesAssumption DEF IInv, Settled, Visible
<1>5. \A t \in Threads : Progress(t)'
  BY DEF IInv, Progress, MachineCrashes, Dies
<1> QED
  BY <1>2, <1>3, <1>4, <1>5 DEF IInv

-----------------------------------------------------------------------------
LEMMA StutterStep == ASSUME IInv, UNCHANGED vars PROVE IInv'
<1>1. \A t \in Threads : Progress(t)'
  BY DEF vars, IInv, Progress, Temp
<1>2. TypeOK' /\ Apart(dir)' /\ Apart(kept)' /\ TempsAlone' /\ Settled'
  BY DEF vars, IInv, TypeOK, Apart, TempsAlone, Settled, Visible
<1>3. ReadInOrder' /\ TempsOnlyLeftByCrash'
  BY DEF vars, IInv, ReadInOrder, TempsOnlyLeftByCrash
<1> QED
  BY <1>1, <1>2, <1>3 DEF IInv

LEMMA NextIInv == ASSUME Careful, IInv, [Next]_vars PROVE IInv'
<1>1. ASSUME NEW t \in Threads,
             \/ \E payload \in Payloads : Call(t, payload)
             \/ \E i \in Inodes : Open(t, i)
             \/ OpenFails(t) \/ Write(t) \/ WriteFails(t) \/ Flush(t) \/ Sync(t) \/ Close(t)
             \/ Rename(t) \/ RenameFails(t) \/ Remove(t)
      PROVE  IInv'
  BY <1>1, CallStep, OpenStep, OpenFailsStep, WriteStep, FlushStep, SyncStep, CloseStep, RenameStep, RenameFailsStep, RemoveStep
<1>2. ASSUME NEW r \in Readers, StartReading(r) \/ Read(r) \/ StopReading(r) PROVE IInv'
  BY <1>2, ReaderStep
<1> QED
  BY <1>1, <1>2, WriteBackStep, KeepNamesStep, ProcessDiesStep, MachineCrashesStep, StutterStep DEF Next

LEMMA Invariance == ASSUME Careful PROVE Spec => []IInv
<1>1. Init => IInv
  BY InitIInv
<1>2. IInv /\ [Next]_vars => IInv'
  BY NextIInv
<1> QED
  BY <1>1, <1>2, PTL DEF Spec

\* Whatever the interleaving of the calls and wherever the machine crashes,
\* the path is a whole file, in memory as on the disk.
THEOREM NeverHalfWrittenHolds == ASSUME Careful PROVE Spec => []NeverHalfWritten
<1>1. IInv => NeverHalfWritten
  BY DEF IInv, TypeOK, MaybeInode, Settled, Visible, NeverHalfWritten
<1> QED
  BY <1>1, Invariance, PTL

\* And a reader that is at its end has one whole content.
THEOREM ReadersSeeOneWriteHolds == ASSUME Careful PROVE Spec => []ReadersSeeOneWrite
<1>1. IInv => ReadersSeeOneWrite
  <2> SUFFICES ASSUME IInv, NEW r \in Readers, source[r] # NoInode, Beyond(content[source[r]], seen[r]) = {}
               PROVE  seen[r] \in Payloads
    BY DEF ReadersSeeOneWrite
  <2>1. content[source[r]] \in Payloads /\ seen[r] \in Prefixes(content[source[r]])
    BY DEF IInv, TypeOK, MaybeInode, Settled, Visible, ReadInOrder
  <2> QED
    BY <2>1, ReadToTheEnd
<1> QED
  BY <1>1, Invariance, PTL

\* And only a crash leaves a temporary file.
THEOREM TempsOnlyLeftByCrashHolds == ASSUME Careful PROVE Spec => []TempsOnlyLeftByCrash
<1>1. IInv => TempsOnlyLeftByCrash
  BY DEF IInv
<1> QED
  BY <1>1, Invariance, PTL

-----------------------------------------------------------------------------
(* The call implements the register.                                       *)

Value == Held(content, dir)
Durable == Held(disk, kept)
Asked == [t \in Threads |-> IF pc[t] = "idle" THEN NoInode ELSE data[t]]

\* What both the names and the contents of visible files leave alone
LEMMA HeldStays ==
  ASSUME IInv,
         dir'.path = dir.path, kept'.path = kept.path,
         \A i \in Inodes : i = dir.path \/ i = kept.path => content'[i] = content[i] /\ disk'[i] = disk[i]
  PROVE  Value' = Value /\ Durable' = Durable
BY DEF IInv, TypeOK, MaybeInode, Value, Durable, Held

\* An inode that a thread writes to is not what the path leads to.
LEMMA TempHidden ==
  ASSUME IInv, NEW t \in Threads, NEW i, i = Temp(t) \/ Free(i), i # NoInode
  PROVE  i # dir.path /\ i # kept.path
BY ThreadsAssumption DEF IInv, Apart, TempsAlone, Temp, Free, Named

LEMMA InitRefines == Init => R!Init
BY DEF Init, R!Init, Held, MaybeInode

LEMMA QuietStepRefines ==
  ASSUME Careful, IInv, NEW t \in Threads,
         \/ \E i \in Inodes : Open(t, i)
         \/ Write(t) \/ WriteFails(t) \/ Flush(t) \/ Sync(t) \/ Close(t) \/ RenameFails(t)
  PROVE  Value' = Value /\ Durable' = Durable /\ Asked' = Asked /\ answer' = answer
<1>1. Asked' = Asked /\ answer' = answer
  BY DEF Asked, IInv, TypeOK, Open, Write, WriteFails, Flush, Sync, Close, RenameFails, HandOn
<1>2. CASE \E i \in Inodes : Open(t, i)
  <2>1. PICK i \in Inodes : Open(t, i)
    BY <1>2
  <2>2. i # dir.path /\ i # kept.path
    BY <2>1, TempHidden, InodesAssumption DEF Open
  <2>3. dir'.path = dir.path /\ kept' = kept
    BY <2>1 DEF Open, IInv, TypeOK
  <2>4. \A j \in Inodes : j # i => content'[j] = content[j] /\ disk'[j] = disk[j]
    BY <2>1 DEF Open, IInv, TypeOK
  <2> QED
    BY <1>1, <2>2, <2>3, <2>4, HeldStays
<1>3. CASE Write(t) \/ WriteFails(t) \/ Flush(t) \/ Sync(t) \/ Close(t)
  <2>1. file[t] # NoInode
    BY <1>3 DEF IInv, Progress, Write, WriteFails, Flush, Sync, Close
  <2>2. file[t] # dir.path /\ file[t] # kept.path
    BY <2>1, OpenIsTemp, TempHidden
  <2>3. dir' = dir /\ kept' = kept
    BY <1>3 DEF Write, WriteFails, Flush, Sync, Close, HandOn
  <2>4. \A j \in Inodes : j # file[t] => content'[j] = content[j] /\ disk'[j] = disk[j]
    BY <1>3 DEF Write, WriteFails, Flush, Sync, Close, HandOn, IInv, TypeOK
  <2> QED
    BY <1>1, <2>2, <2>3, <2>4, HeldStays
<1>4. CASE RenameFails(t)
  BY <1>1, <1>4, HeldStays DEF RenameFails
<1> QED
  BY <1>1, <1>2, <1>3, <1>4

LEMMA CallStepRefines ==
  ASSUME Careful, IInv, NEW t \in Threads,
         \/ \E payload \in Payloads : Call(t, payload)
         \/ \E i \in Inodes : Open(t, i)
         \/ OpenFails(t) \/ Write(t) \/ WriteFails(t) \/ Flush(t) \/ Sync(t) \/ Close(t)
         \/ Rename(t) \/ RenameFails(t) \/ Remove(t)
  PROVE  [R!Next]_(R!vars)
<1>1. CASE \E payload \in Payloads : Call(t, payload)
  <2>1. PICK payload \in Payloads : Call(t, payload)
    BY <1>1
  <2>2. Value' = Value /\ Durable' = Durable
    BY <2>1, HeldStays DEF Call
  <2>3. Asked' = [Asked EXCEPT ![t] = payload] /\ Asked[t] = NoInode /\ answer' = [answer EXCEPT ![t] = FALSE]
    BY <2>1 DEF Call, Asked, IInv, TypeOK
  <2> QED
    BY <2>2, <2>3 DEF R!Next, R!Ask, Value, Durable, Asked
<1>2. CASE OpenFails(t) \/ Remove(t)
  <2>1. Value' = Value /\ Durable' = Durable
    BY <1>2, HeldStays DEF OpenFails, Remove, Return, IInv, TypeOK
  <2>2. Asked' = [Asked EXCEPT ![t] = NoInode]
    BY <1>2 DEF OpenFails, Remove, Return, Asked, IInv, TypeOK
  <2>3. data[t] \in Payloads /\ ~answer[t] /\ pc[t] # "idle"
    BY <1>2 DEF OpenFails, Remove, IInv, Progress
  <2>4. Asked[t] # NoInode
    BY <2>3, PayloadsAssumption DEF Asked
  <2>5. answer[t] = FALSE /\ answer \in [Threads -> BOOLEAN]
    BY <2>3 DEF IInv, TypeOK
  <2>6. answer' = answer \/ answer' = [answer EXCEPT ![t] = FALSE]
    BY <1>2 DEF OpenFails, Remove, Return
  <2>7. answer' = answer
    BY <2>5, <2>6
  <2> QED
    BY <2>1, <2>2, <2>4, <2>7 DEF R!Next, R!Refuse, Value, Durable, Asked
<1>3. CASE Rename(t)
  <2>1. data[t] \in Payloads /\ pc[t] # "idle" /\ content[Temp(t)] = data[t]
    BY <1>3 DEF Rename, IInv, Progress
  <2>2. Asked[t] = data[t] /\ Asked[t] # NoInode
    BY <2>1, PayloadsAssumption DEF Asked
  <2>3. Value' = Asked[t]
    BY <1>3, <2>1, <2>2 DEF Rename, Return, Value, Held
  <2>4. Durable' = Durable
    BY <1>3 DEF Rename, Return, Durable, Held
  <2>5. Asked' = [Asked EXCEPT ![t] = NoInode] /\ answer' = [answer EXCEPT ![t] = TRUE]
    BY <1>3 DEF Rename, Return, Asked, IInv, TypeOK
  <2> QED
    BY <2>2, <2>3, <2>4, <2>5 DEF R!Next, R!Replace, Value, Durable, Asked
<1>4. CASE \/ \E i \in Inodes : Open(t, i)
           \/ Write(t) \/ WriteFails(t) \/ Flush(t) \/ Sync(t) \/ Close(t) \/ RenameFails(t)
  BY <1>4, QuietStepRefines DEF R!vars, Value, Durable, Asked
<1> QED
  BY <1>1, <1>2, <1>3, <1>4

LEMMA OtherStepRefines ==
  ASSUME IInv, \/ \E r \in Readers : StartReading(r) \/ Read(r) \/ StopReading(r)
               \/ \E i \in Inodes : WriteBack(i)
               \/ \E p \in Processes : ProcessDies(p)
               \/ KeepNames \/ MachineCrashes \/ UNCHANGED vars
  PROVE  [R!Next]_(R!vars)
<1>1. CASE (\E r \in Readers : StartReading(r) \/ Read(r) \/ StopReading(r)) \/ UNCHANGED vars
  BY <1>1 DEF StartReading, Read, StopReading, vars, R!vars, Held
<1>2. CASE \E i \in Inodes : WriteBack(i)
  <2>1. PICK i \in Inodes : WriteBack(i)
    BY <1>2
  <2>2. PICK some \in SUBSET content[i] : content[i] \intersect disk[i] \subseteq some /\ disk' = [disk EXCEPT ![i] = some]
    BY <2>1 DEF WriteBack
  <2>3. kept.path # NoInode => kept.path \in Inodes /\ disk[kept.path] = content[kept.path]
    BY DEF IInv, TypeOK, MaybeInode, Settled, Visible
  <2>4. kept.path = i => some = disk[i]
    BY <2>2, <2>3, InodesAssumption
  <2>5. kept.path # NoInode => disk'[kept.path] = disk[kept.path]
    BY <2>2, <2>3, <2>4 DEF IInv, TypeOK
  <2> QED
    BY <2>1, <2>5 DEF WriteBack, R!vars, Held
<1>3. CASE \E p \in Processes : ProcessDies(p)
  <2>1. PICK p \in Processes : ProcessDies(p)
    BY <1>3
  <2> DEFINE killed == {t \in Threads : ProcessOf[t] = p}
  <2>2. Asked' = [t \in Threads |-> IF t \in killed THEN NoInode ELSE Asked[t]]
    BY <2>1 DEF ProcessDies, Dies, Asked
  <2>3. Value' = Value /\ Durable' = Durable /\ answer' = answer
    BY <2>1 DEF ProcessDies, Dies, Value, Durable, Held
  <2> QED
    BY <2>2, <2>3 DEF R!Next, R!Kill, Value, Durable, Asked
<1>4. CASE KeepNames
  <2>1. dir.path # NoInode => dir.path \in Inodes /\ disk[dir.path] = content[dir.path]
    BY DEF IInv, TypeOK, MaybeInode, Settled, Visible
  <2>2. Durable' = Value /\ Value' = Value /\ Asked' = Asked /\ answer' = answer
    BY <1>4, <2>1 DEF KeepNames, Durable, Value, Asked, Held
  <2> QED
    BY <2>2 DEF R!Next, R!Keep, Value, Durable, Asked
<1>5. CASE MachineCrashes
  <2>1. Value' = Durable /\ Durable' = Durable /\ answer' = answer
    BY <1>5 DEF MachineCrashes, Dies, Value, Durable, Held
  <2>2. Asked' = [t \in Threads |-> NoInode]
    BY <1>5 DEF MachineCrashes, Dies, Asked
  <2> QED
    BY <2>1, <2>2 DEF R!Next, R!Crash, Value, Durable, Asked
<1> QED
  BY <1>1, <1>2, <1>3, <1>4, <1>5

\* Replacing a file is one step: the file is replaced by the data of a call
\* that returns true, not by that of one that returns false, and a crash only
\* goes back to an earlier whole file.
THEOREM FileRegisterRefined == ASSUME Careful PROVE Spec => ImplementsFileRegister
<1>1. Init => R!Init
  BY InitRefines
<1>2. IInv /\ [Next]_vars => [R!Next]_(R!vars)
  BY CallStepRefines, OtherStepRefines DEF Next
<1> QED
  BY <1>1, <1>2, Invariance, PTL DEF Spec, R!Spec, ImplementsFileRegister
================================================================================
