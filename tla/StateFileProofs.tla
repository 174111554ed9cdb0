-------------------------- MODULE StateFileProofs ---------------------------
(***************************************************************************)
(* What write_private_atomic promises for any number of writers that come  *)
(* one after another, any contents, any number of inodes and any of the    *)
(* faults: the system calls implement AtomicFile.                          *)
(***************************************************************************)
EXTENDS StateFile, TLAPS

(* One task at most is inside a call, and a task inside a call has a value. *)
AloneInv ==
    /\ \A v, w \in Active : v = w
    /\ \A w \in Writers : pc[w] # "idle" <=> val[w] # None

(* Which inode a name stands for: a temporary file is never the file, not   *)
(* even the one that a loss of power would bring back.                      *)
NamesInv ==
    /\ dir.tmp # None => dir.tmp \notin {dir.file, dirDisk.file}
    /\ dirDisk.tmp # None => dirDisk.tmp # dirDisk.file

(* The file holds a whole value, and the same one on the medium: what is    *)
(* renamed was synced before.                                               *)
WholeInv ==
    \A i \in {dir.file, dirDisk.file} \ {None} : data[i] \in Values /\ disk[i] = data[i]

(* How far the one writer has got. *)
WriterInv ==
    \A w \in Writers :
        /\ pc[w] \in {"write", "sync"} => dir.tmp = fd[w]
        /\ pc[w] = "sync" => data[fd[w]] = val[w]
        /\ pc[w] = "rename" => /\ dir.tmp # None
                               /\ data[dir.tmp] = val[w] /\ disk[dir.tmp] = val[w]
        /\ pc[w] \in {"syncdir", "ok"} => Readable = val[w]
        /\ pc[w] = "ok" => Stable = val[w]

(* The conjunction that every step preserves. *)
Inv == TypeOK /\ AloneInv /\ NamesInv /\ WholeInv /\ WriterInv

-----------------------------------------------------------------------------
(* The others are idle while one task is inside a call, or about to start. *)
LEMMA OthersIdle ==
    ASSUME Inv, Exclusive, NEW w \in Writers,
           pc[w] # "idle" \/ Starts(w) \/ Removes(w)
    PROVE  \A u \in Writers \ {w} : pc[u] = "idle" /\ fd[u] = None /\ val[u] = None
<1>1. \A u \in Writers \ {w} : pc[u] = "idle"
  BY DEF Inv, AloneInv, Active, Exclusive
<1>2. QED
  BY <1>1 DEF Inv, TypeOK, AloneInv

LEMMA InvInit == Init => Inv
BY FileAssumption DEF Init, Inv, TypeOK, AloneInv, NamesInv, WholeInv, WriterInv, Active,
   NoEntries, Entries, Contents, Calls

(* Steps that touch neither inodes nor names nor what the file holds. *)
LEMMA QuietStep ==
    ASSUME Inv, Exclusive, NEW w \in Writers, Starts(w) \/ PreparesDir(w)
    PROVE  Inv'
<1>1. TypeOK /\ AloneInv /\ NamesInv /\ WholeInv /\ WriterInv
  BY DEF Inv
<1>2. \A u \in Writers \ {w} : pc[u] = "idle" /\ fd[u] = None /\ val[u] = None
  BY OthersIdle DEF PreparesDir
<1>3. /\ UNCHANGED <<data, disk, dir, dirDisk, fd>> /\ fd[w] = None
      /\ \/ pc' = [pc EXCEPT ![w] = "dir"] /\ \E v \in Values : val' = [val EXCEPT ![w] = v]
         \/ pc' = [pc EXCEPT ![w] = "open"] /\ val' = val /\ val[w] # None
  BY <1>1 DEF Starts, PreparesDir, GoesTo, files, TypeOK, AloneInv
<1>4. TypeOK'
  BY <1>1, <1>3 DEF TypeOK, Calls
<1>5. AloneInv'
  BY <1>1, <1>2, <1>3, FileAssumption DEF AloneInv, Active, TypeOK
<1>6. NamesInv' /\ WholeInv'
  BY <1>1, <1>3 DEF NamesInv, WholeInv
<1>7. WriterInv'
  BY <1>1, <1>2, <1>3 DEF WriterInv, TypeOK
<1>8. QED
  BY <1>4, <1>5, <1>6, <1>7 DEF Inv

(* The temporary file is truncated or made: it is none that a reader can find. *)
LEMMA OpenStep ==
    ASSUME Inv, Exclusive, NEW w \in Writers, OpensTmp(w)
    PROVE  Inv' /\ Readable' = Readable /\ Stable' = Stable
<1>1. TypeOK /\ AloneInv /\ NamesInv /\ WholeInv /\ WriterInv
  BY DEF Inv
<1>2. \A u \in Writers \ {w} : pc[u] = "idle" /\ fd[u] = None /\ val[u] = None
  BY OthersIdle DEF OpensTmp
<1>3. PICK i \in Inodes :
         /\ IF dir.tmp = None THEN Unused(i) ELSE i = dir.tmp
         /\ data' = [data EXCEPT ![i] = Partial]
         /\ disk' = IF dir.tmp = None THEN [disk EXCEPT ![i] = Partial] ELSE disk
         /\ dir' = [dir EXCEPT !.tmp = i]
         /\ fd' = [fd EXCEPT ![w] = i]
  BY DEF OpensTmp
<1>4. pc[w] = "open" /\ pc' = [pc EXCEPT ![w] = "write"] /\ dirDisk' = dirDisk /\ val' = val
  BY DEF OpensTmp, GoesTo
<1>5. i # None /\ i # dir.file /\ i # dirDisk.file
  BY <1>1, <1>3, FileAssumption DEF Unused, NamesInv
<1>6. dir'.tmp = i /\ dir'.file = dir.file
  BY <1>1, <1>3 DEF TypeOK, Entries
<1>7. \A j \in {dir.file, dirDisk.file} \ {None} : data'[j] = data[j] /\ disk'[j] = disk[j]
  BY <1>1, <1>3, <1>5 DEF TypeOK
<1>8. TypeOK'
  <2>1. data' \in [Inodes -> Contents] /\ disk' \in [Inodes -> Contents]
    BY <1>1, <1>3 DEF TypeOK, Contents
  <2>2. dir' \in Entries /\ dirDisk' \in Entries
    BY <1>1, <1>3, <1>4 DEF TypeOK, Entries
  <2>3. /\ pc' \in [Writers -> Calls] /\ fd' \in [Writers -> Inodes \cup {None}]
        /\ val' \in [Writers -> Values \cup {None}]
    BY <1>1, <1>3, <1>4 DEF TypeOK, Calls
  <2>4. \A u \in Writers : fd'[u] # None <=> pc'[u] \in {"write", "sync"}
    BY <1>1, <1>3, <1>4, <1>5 DEF TypeOK
  <2>5. QED
    BY <2>1, <2>2, <2>3, <2>4 DEF TypeOK
<1>9. AloneInv'
  BY <1>1, <1>2, <1>4 DEF AloneInv, Active, TypeOK
<1>10. NamesInv' /\ WholeInv'
  BY <1>1, <1>4, <1>5, <1>6, <1>7 DEF NamesInv, WholeInv
<1>11. WriterInv'
  BY <1>1, <1>2, <1>3, <1>4, <1>6 DEF WriterInv, TypeOK
<1>12. Readable' = Readable /\ Stable' = Stable
  BY <1>4, <1>6, <1>7 DEF Readable, Stable, Found
<1>13. QED
  BY <1>8, <1>9, <1>10, <1>11, <1>12 DEF Inv

(* Writing and syncing go to the temporary file alone. *)
LEMMA WriteStep ==
    ASSUME Inv, Exclusive, NEW w \in Writers, WritesAll(w) \/ SyncsTmp(w)
    PROVE  Inv' /\ Readable' = Readable /\ Stable' = Stable
<1>1. TypeOK /\ AloneInv /\ NamesInv /\ WholeInv /\ WriterInv
  BY DEF Inv
<1>2. \A u \in Writers \ {w} : pc[u] = "idle" /\ fd[u] = None /\ val[u] = None
  BY OthersIdle DEF WritesAll, SyncsTmp
<1>3. /\ pc[w] \in {"write", "sync"} /\ val[w] \in Values /\ fd[w] \in Inodes
      /\ dir.tmp = fd[w] /\ fd[w] # None /\ fd[w] # dir.file /\ fd[w] # dirDisk.file
      /\ UNCHANGED <<dir, dirDisk, val>>
  BY <1>1 DEF WritesAll, SyncsTmp, TypeOK, AloneInv, NamesInv, WriterInv
<1>4. \A j \in {dir.file, dirDisk.file} \ {None} : data'[j] = data[j] /\ disk'[j] = disk[j]
  <2>1. \A j \in Inodes \ {fd[w]} : data'[j] = data[j] /\ disk'[j] = disk[j]
    BY <1>1 DEF WritesAll, SyncsTmp, TypeOK
  <2>2. {dir.file, dirDisk.file} \ {None} \subseteq Inodes \ {fd[w]}
    BY <1>1, <1>3 DEF TypeOK, Entries
  <2>3. QED
    BY <2>1, <2>2
<1>5. NamesInv' /\ WholeInv' /\ Readable' = Readable /\ Stable' = Stable
  BY <1>1, <1>3, <1>4 DEF NamesInv, WholeInv, Readable, Stable, Found
<1>6. CASE WritesAll(w)
  <2>1. /\ data' = [data EXCEPT ![fd[w]] = val[w]] /\ disk' = disk /\ fd' = fd
        /\ pc[w] = "write" /\ pc' = [pc EXCEPT ![w] = "sync"]
    BY <1>6 DEF WritesAll, GoesTo
  <2>2. TypeOK'
    BY <1>1, <1>3, <2>1 DEF TypeOK, Contents, Calls
  <2>3. AloneInv'
    BY <1>1, <1>2, <1>3, <2>1 DEF AloneInv, Active, TypeOK
  <2>4. WriterInv'
    BY <1>1, <1>2, <1>3, <2>1 DEF WriterInv, TypeOK
  <2>5. QED
    BY <1>5, <2>2, <2>3, <2>4 DEF Inv
<1>7. CASE SyncsTmp(w)
  <2>1. /\ disk' = [disk EXCEPT ![fd[w]] = data[fd[w]]] /\ data' = data
        /\ fd' = [fd EXCEPT ![w] = None]
        /\ pc[w] = "sync" /\ pc' = [pc EXCEPT ![w] = "rename"]
    BY <1>7 DEF SyncsTmp, GoesTo
  <2>2. TypeOK'
    BY <1>1, <1>3, <2>1 DEF TypeOK, Contents, Calls
  <2>3. AloneInv'
    BY <1>1, <1>2, <1>3, <2>1 DEF AloneInv, Active, TypeOK
  <2>4. data[dir.tmp] = val[w] /\ disk'[dir.tmp] = data[dir.tmp]
    BY <1>1, <1>3, <2>1 DEF WriterInv, TypeOK
  <2>5. WriterInv'
    BY <1>1, <1>2, <1>3, <2>1, <2>4 DEF WriterInv, TypeOK
  <2>6. QED
    BY <1>5, <2>2, <2>3, <2>5 DEF Inv
<1>8. QED
  BY <1>6, <1>7

(* The rename puts a whole and synced value in the place of the old one. *)
LEMMA RenameStep ==
    ASSUME Inv, Exclusive, NEW w \in Writers, Renames(w)
    PROVE  Inv' /\ Readable' = val[w] /\ Stable' = Stable
<1>1. TypeOK /\ AloneInv /\ NamesInv /\ WholeInv /\ WriterInv
  BY DEF Inv
<1>2. \A u \in Writers \ {w} : pc[u] = "idle" /\ fd[u] = None /\ val[u] = None
  BY OthersIdle DEF Renames
<1>3. /\ dir.tmp # None /\ dir' = [tmp |-> None, file |-> dir.tmp]
      /\ UNCHANGED <<data, disk, dirDisk, fd, val>>
      /\ pc[w] = "rename" /\ pc' = [pc EXCEPT ![w] = "syncdir"]
  BY DEF Renames, GoesTo
<1>4. val[w] \in Values /\ data[dir.tmp] = val[w] /\ disk[dir.tmp] = val[w]
  BY <1>1, <1>3 DEF TypeOK, AloneInv, WriterInv
<1>5. TypeOK'
  BY <1>1, <1>3 DEF TypeOK, Entries, Calls
<1>6. AloneInv'
  BY <1>1, <1>2, <1>3 DEF AloneInv, Active, TypeOK
<1>7. NamesInv' /\ WholeInv'
  BY <1>1, <1>3, <1>4 DEF NamesInv, WholeInv
<1>8. Readable' = val[w] /\ Stable' = Stable
  BY <1>3, <1>4 DEF Readable, Stable, Found
<1>9. WriterInv'
  BY <1>1, <1>2, <1>3, <1>8 DEF WriterInv, TypeOK
<1>10. QED
  BY <1>5, <1>6, <1>7, <1>8, <1>9 DEF Inv

(* What the directory on the medium takes over is what a reader finds. *)
LEMMA SyncedIsReadable ==
    ASSUME Inv
    PROVE  Found(dir, disk) = Readable
BY DEF Inv, WholeInv, Found, Readable

(* The directory reaches the medium: by the writer's call. *)
LEMMA SyncDirStep ==
    ASSUME Inv, Exclusive, NEW w \in Writers, SyncsDir(w)
    PROVE  Inv' /\ Readable' = Readable /\ Stable' = Readable
<1>1. TypeOK /\ AloneInv /\ NamesInv /\ WholeInv /\ WriterInv
  BY DEF Inv
<1>2. \A u \in Writers \ {w} : pc[u] = "idle" /\ fd[u] = None /\ val[u] = None
  BY OthersIdle DEF SyncsDir
<1>3. /\ dirDisk' = dir /\ UNCHANGED <<data, disk, dir, fd, val>>
      /\ pc[w] = "syncdir" /\ pc' = [pc EXCEPT ![w] = "ok"]
  BY DEF SyncsDir, GoesTo
<1>4. Readable' = Readable /\ Stable' = Readable
  BY <1>3, SyncedIsReadable DEF Readable, Stable, Found
<1>5. TypeOK'
  BY <1>1, <1>3 DEF TypeOK, Calls
<1>6. AloneInv'
  BY <1>1, <1>2, <1>3 DEF AloneInv, Active, TypeOK
<1>7. NamesInv' /\ WholeInv'
  BY <1>1, <1>3 DEF NamesInv, WholeInv
<1>8. WriterInv'
  BY <1>1, <1>2, <1>3, <1>4 DEF WriterInv, TypeOK
<1>9. QED
  BY <1>4, <1>5, <1>6, <1>7, <1>8 DEF Inv

(* A call that returns, with Ok or with Err, leaves the files as they are. *)
LEMMA ReturnStep ==
    ASSUME Inv, Exclusive, NEW w \in Writers, pc[w] # "idle", Returns(w), UNCHANGED files
    PROVE  /\ Inv' /\ Readable' = Readable /\ Stable' = Stable
           /\ \A u \in Writers : pc'[u] = "idle"
<1>1. TypeOK /\ AloneInv /\ NamesInv /\ WholeInv /\ WriterInv
  BY DEF Inv
<1>2. \A u \in Writers \ {w} : pc[u] = "idle" /\ fd[u] = None /\ val[u] = None
  BY OthersIdle
<1>3. /\ UNCHANGED <<data, disk, dir, dirDisk>>
      /\ pc' = [pc EXCEPT ![w] = "idle"] /\ fd' = [fd EXCEPT ![w] = None]
      /\ val' = [val EXCEPT ![w] = None]
  BY DEF Returns, GoesTo, files
<1>4. \A u \in Writers : pc'[u] = "idle" /\ fd'[u] = None /\ val'[u] = None
  BY <1>1, <1>2, <1>3 DEF TypeOK
<1>5. TypeOK'
  BY <1>1, <1>3, <1>4 DEF TypeOK, Calls
<1>6. AloneInv' /\ WriterInv'
  BY <1>4 DEF AloneInv, Active, WriterInv
<1>7. NamesInv' /\ WholeInv' /\ Readable' = Readable /\ Stable' = Stable
  BY <1>1, <1>3 DEF NamesInv, WholeInv, Readable, Stable, Found
<1>8. QED
  BY <1>4, <1>5, <1>6, <1>7 DEF Inv

(* The file is removed while nobody writes it; the medium may keep it. *)
LEMMA RemoveStep ==
    ASSUME Inv, Exclusive, NEW w \in Writers, Removes(w)
    PROVE  Inv' /\ Readable' = None /\ Stable' = Stable /\ Active = {}
<1>1. TypeOK /\ AloneInv /\ NamesInv /\ WholeInv /\ WriterInv
  BY DEF Inv
<1>2. Active = {}
  BY DEF Exclusive
<1>3. dir' = [dir EXCEPT !.file = None] /\ UNCHANGED <<data, disk, dirDisk, pc, fd, val>>
  BY DEF Removes
<1>4. dir'.tmp = dir.tmp /\ dir'.file = None /\ dir' \in Entries
  BY <1>1, <1>3 DEF TypeOK, Entries
<1>5. TypeOK' /\ AloneInv'
  BY <1>1, <1>3, <1>4 DEF TypeOK, AloneInv, Active
<1>6. NamesInv' /\ WholeInv' /\ Readable' = None /\ Stable' = Stable
  BY <1>1, <1>3, <1>4 DEF NamesInv, WholeInv, Readable, Stable, Found
<1>7. WriterInv'
  BY <1>2, <1>3 DEF WriterInv, Active
<1>8. QED
  BY <1>2, <1>5, <1>6, <1>7 DEF Inv

(* Writing back an inode changes nothing a power loss could show. *)
LEMMA WriteBackStep ==
    ASSUME Inv, WritesBack
    PROVE  /\ Inv' /\ Readable' = Readable
           /\ Stable' \in {Stable, Readable} /\ UNCHANGED <<pc, val>>
<1>1. TypeOK /\ AloneInv /\ NamesInv /\ WholeInv /\ WriterInv
  BY DEF Inv
<1>2. CASE /\ \E i \in Inodes : disk' = [disk EXCEPT ![i] = data[i]]
           /\ UNCHANGED <<data, dir, dirDisk, pc, fd, val>>
  <2>1. PICK i \in Inodes : disk' = [disk EXCEPT ![i] = data[i]]
    BY <1>2
  <2>2. \A j \in {dir.file, dirDisk.file} \ {None} : disk'[j] = disk[j]
    BY <1>1, <2>1 DEF WholeInv, TypeOK
  <2>3. TypeOK' /\ AloneInv' /\ NamesInv'
    BY <1>1, <1>2, <2>1 DEF TypeOK, AloneInv, Active, NamesInv
  <2>4. WholeInv' /\ Readable' = Readable /\ Stable' = Stable
    BY <1>1, <1>2, <2>2 DEF WholeInv, Readable, Stable, Found
  <2>5. \A w \in Writers : pc[w] = "rename" => disk'[dir.tmp] = val[w]
    BY <1>1, <2>1 DEF WriterInv, TypeOK, Entries
  <2>6. WriterInv'
    BY <1>1, <1>2, <2>4, <2>5 DEF WriterInv
  <2>7. QED
    BY <1>2, <2>3, <2>4, <2>6 DEF Inv
<1>3. CASE dirDisk' = dir /\ UNCHANGED <<data, disk, dir, pc, fd, val>>
  <2>1. Readable' = Readable /\ Stable' = Readable
    BY <1>3, SyncedIsReadable DEF Readable, Stable, Found
  <2>2. TypeOK' /\ AloneInv' /\ NamesInv' /\ WholeInv'
    BY <1>1, <1>3 DEF TypeOK, AloneInv, Active, NamesInv, WholeInv
  <2>3. WriterInv'
    BY <1>1, <1>3, <2>1 DEF WriterInv
  <2>4. QED
    BY <1>3, <2>1, <2>2, <2>3 DEF Inv
<1>4. QED
  BY <1>2, <1>3 DEF WritesBack

(* After a kill everything is as it was, after a loss of power as on the medium. *)
LEMMA StopStep ==
    ASSUME Inv, Killed \/ PowerLoss
    PROVE  /\ Inv' /\ Stable' = Stable /\ Readable' \in {Readable, Stable}
           /\ \A w \in Writers : pc'[w] = "idle"
<1>1. TypeOK /\ AloneInv /\ NamesInv /\ WholeInv /\ WriterInv
  BY DEF Inv
<1>2. \A w \in Writers : pc'[w] = "idle" /\ fd'[w] = None /\ val'[w] = None
  BY DEF Killed, PowerLoss, Stops
<1>3. /\ pc' \in [Writers -> Calls] /\ fd' \in [Writers -> Inodes \cup {None}]
      /\ val' \in [Writers -> Values \cup {None}]
  BY DEF Killed, PowerLoss, Stops, Calls
<1>4. disk' = disk /\ dirDisk' = dirDisk
  BY DEF Killed, PowerLoss, files
<1>5. \/ Killed /\ data' = data /\ dir' = dir
      \/ PowerLoss /\ data' = disk /\ dir' = dirDisk
  BY DEF Killed, PowerLoss, files
<1>6. TypeOK'
  BY <1>1, <1>2, <1>3, <1>4, <1>5 DEF TypeOK
<1>7. AloneInv' /\ WriterInv'
  BY <1>2 DEF AloneInv, Active, WriterInv
<1>8. NamesInv' /\ WholeInv'
  BY <1>1, <1>4, <1>5 DEF NamesInv, WholeInv
<1>9. Stable' = Stable /\ Readable' \in {Readable, Stable}
  <2>1. Stable' = Stable
    BY <1>4 DEF Stable, Found
  <2>2. CASE Killed /\ data' = data /\ dir' = dir
    BY <2>1, <2>2 DEF Readable, Found
  <2>3. CASE PowerLoss /\ data' = disk /\ dir' = dirDisk
    BY <2>1, <2>3 DEF Readable, Stable, Found
  <2>4. QED
    BY <1>5, <2>2, <2>3
<1>10. QED
  BY <1>2, <1>6, <1>7, <1>8, <1>9 DEF Inv

LEMMA InvStep == Inv /\ [Next /\ Exclusive]_vars => Inv'
<1> SUFFICES ASSUME Inv, [Next /\ Exclusive]_vars
             PROVE  Inv'
    OBVIOUS
<1>1. ASSUME Exclusive, NEW w \in Writers, Call(w)
      PROVE  Inv'
  <2>1. CASE Starts(w) \/ PreparesDir(w)
    BY <1>1, <2>1, QuietStep
  <2>2. CASE OpensTmp(w)
    BY <1>1, <2>2, OpenStep
  <2>3. CASE WritesAll(w) \/ SyncsTmp(w)
    BY <1>1, <2>3, WriteStep
  <2>4. CASE Renames(w)
    BY <1>1, <2>4, RenameStep
  <2>5. CASE SyncsDir(w)
    BY <1>1, <2>5, SyncDirStep
  <2>6. CASE ReturnsOk(w) \/ ReturnsErr(w)
    BY <1>1, <2>6, ReturnStep DEF ReturnsOk, ReturnsErr
  <2>7. CASE Removes(w)
    BY <1>1, <2>7, RemoveStep
  <2>8. QED
    BY <1>1, <2>1, <2>2, <2>3, <2>4, <2>5, <2>6, <2>7 DEF Call
<1>2. CASE WritesBack
  BY <1>2, WriteBackStep
<1>3. CASE Killed \/ PowerLoss
  BY <1>3, StopStep
<1>4. CASE UNCHANGED vars
  BY <1>4 DEF vars, Inv, TypeOK, AloneInv, Active, NamesInv, WholeInv, WriterInv, Readable,
     Stable, Found
<1>5. QED
  BY <1>1, <1>2, <1>3, <1>4 DEF Next

(* The inductive invariant of the file, its inodes and its writers. *)
THEOREM FileInvariance == SerialSpec => []Inv
BY InvInit, InvStep, PTL DEF SerialSpec

(* Shapes alone need no writer to be by itself, only a value in every call. *)
BusyInv == \A w \in Writers : pc[w] # "idle" <=> val[w] # None

LEMMA TypeStep == TypeOK /\ BusyInv /\ [Next]_vars => TypeOK' /\ BusyInv'
<1> SUFFICES ASSUME TypeOK, BusyInv, [Next]_vars
             PROVE  TypeOK' /\ BusyInv'
    OBVIOUS
<1> USE FileAssumption DEF TypeOK, BusyInv, Calls, GoesTo, files
<1>1. ASSUME NEW w \in Writers, Call(w)
      PROVE  TypeOK' /\ BusyInv'
  <2>1. CASE Starts(w) \/ PreparesDir(w)
    BY <2>1 DEF Starts, PreparesDir
  <2>2. CASE OpensTmp(w)
    BY <2>2 DEF OpensTmp, Contents, Entries
  <2>3. CASE WritesAll(w)
    BY <2>3 DEF WritesAll, Contents
  <2>4. CASE SyncsTmp(w)
    BY <2>4 DEF SyncsTmp
  <2>5. CASE Renames(w)
    BY <2>5 DEF Renames, Entries
  <2>6. CASE SyncsDir(w)
    BY <2>6 DEF SyncsDir
  <2>7. CASE ReturnsOk(w) \/ ReturnsErr(w)
    BY <2>7 DEF ReturnsOk, ReturnsErr, Returns
  <2>8. CASE Removes(w)
    BY <2>8 DEF Removes, Entries
  <2>9. QED
    BY <1>1, <2>1, <2>2, <2>3, <2>4, <2>5, <2>6, <2>7, <2>8 DEF Call
<1>2. CASE WritesBack
  BY <1>2 DEF WritesBack
<1>3. CASE Killed \/ PowerLoss
  BY <1>3 DEF Killed, PowerLoss, Stops
<1>4. CASE UNCHANGED vars
  BY <1>4 DEF vars
<1>5. QED
  BY <1>1, <1>2, <1>3, <1>4 DEF Next

(***************************************************************************)
(* Inodes, names and writers keep their shapes, also when two tasks write  *)
(* the file at the same time (write_private_atomic).                       *)
(***************************************************************************)
THEOREM FileTypes == Spec => []TypeOK
<1>1. Init => TypeOK /\ BusyInv
  BY InvInit DEF Inv, AloneInv, BusyInv
<1>2. QED
  BY <1>1, TypeStep, PTL DEF Spec

(***************************************************************************)
(* An Ok of write_private_atomic outlasts a loss of power: both fsyncs are *)
(* done, in their order, and the second one finds the new name.            *)
(***************************************************************************)
THEOREM OkOutlastsPower == SerialSpec => []OkIsStable
<1>1. Inv => OkIsStable
  BY DEF Inv, WriterInv, OkIsStable
<1>2. QED
  BY <1>1, FileInvariance, PTL

-----------------------------------------------------------------------------
(* The phase of the abstract file and the value being written to it, before *)
(* a step and after it.                                                     *)
LEMMA PhaseWhenIdle ==
    /\ Active = {} => Phase = "idle" /\ New = None
    /\ Active' = {} => Phase' = "idle" /\ New' = None
BY DEF Phase, New

PhaseAt(call) ==
    IF call = "ok" THEN "safe" ELSE IF call = "syncdir" THEN "replaced" ELSE "writing"

LEMMA PhaseOfWriter ==
    ASSUME Inv, Inv', NEW w \in Writers
    PROVE  /\ pc[w] # "idle" => Phase = PhaseAt(pc[w]) /\ New = val[w]
           /\ pc'[w] # "idle" => Phase' = PhaseAt(pc'[w]) /\ New' = val'[w]
<1>1. ASSUME pc[w] # "idle"
      PROVE  Phase = PhaseAt(pc[w]) /\ New = val[w]
  <2>1. Active = {w}
    BY <1>1 DEF Inv, AloneInv, Active
  <2>2. (CHOOSE u \in Active : TRUE) = w
    BY <2>1
  <2>3. QED
    BY <2>1, <2>2 DEF Phase, New, PhaseAt
<1>2. ASSUME pc'[w] # "idle"
      PROVE  Phase' = PhaseAt(pc'[w]) /\ New' = val'[w]
  <2>1. Active' = {w}
    BY <1>2 DEF Inv, AloneInv, Active
  <2>2. (CHOOSE u \in Active' : TRUE) = w
    BY <2>1
  <2>3. QED
    BY <2>1, <2>2 DEF Phase, New, PhaseAt
<1>3. QED
  BY <1>1, <1>2

LEMMA RefinementInit == Init => Abstract!Init
<1> SUFFICES ASSUME Init
             PROVE  Abstract!Init
    OBVIOUS
<1>1. Active = {}
  BY DEF Init, Active
<1>2. Readable = None /\ Stable = None
  BY DEF Init, Readable, Stable, Found, NoEntries
<1>3. QED
  BY <1>1, <1>2, PhaseWhenIdle DEF Abstract!Init

(* Starting is Begin; renaming is Replace; the two syncs are nothing and Persist. *)
LEMMA CallRefines ==
    ASSUME Inv, Inv', Exclusive, NEW w \in Writers, Call(w)
    PROVE  [Abstract!Next]_<<Readable, Stable, Phase, New>>
<1> USE DEF Abstract!Next
<1>1. CASE Starts(w)
  <2>1. Active = {} /\ Phase = "idle" /\ New = None
    BY <1>1, PhaseWhenIdle DEF Exclusive
  <2>2. PICK v \in Values : val' = [val EXCEPT ![w] = v]
    BY <1>1 DEF Starts
  <2>3. pc'[w] = "dir" /\ val'[w] = v
    BY <1>1, <2>2 DEF Starts, GoesTo, Inv, TypeOK
  <2>4. Phase' = "writing" /\ New' = v
    BY <2>3, PhaseOfWriter DEF PhaseAt
  <2>5. Readable' = Readable /\ Stable' = Stable
    BY <1>1 DEF Starts, files, Readable, Stable, Found
  <2>6. Abstract!Begin(v)
    BY <2>1, <2>4, <2>5 DEF Abstract!Begin
  <2>7. QED
    BY <2>6
<1>2. CASE PreparesDir(w) \/ OpensTmp(w) \/ WritesAll(w) \/ SyncsTmp(w)
  <2>1. /\ pc[w] \in {"dir", "open", "write", "sync"} /\ val' = val
        /\ pc'[w] \in {"open", "write", "sync", "rename"}
    BY <1>2 DEF PreparesDir, OpensTmp, WritesAll, SyncsTmp, GoesTo, Inv, TypeOK
  <2>2. Phase = "writing" /\ New = val[w] /\ Phase' = "writing" /\ New' = val[w]
    BY <2>1, PhaseOfWriter DEF PhaseAt
  <2>3. Readable' = Readable /\ Stable' = Stable
    BY <1>2, OpenStep, WriteStep DEF PreparesDir, files, Readable, Stable, Found
  <2>4. QED
    BY <2>2, <2>3
<1>3. CASE Renames(w)
  <2>1. pc[w] = "rename" /\ pc'[w] = "syncdir" /\ val' = val
    BY <1>3 DEF Renames, GoesTo, Inv, TypeOK
  <2>2. Phase = "writing" /\ New = val[w] /\ Phase' = "replaced" /\ New' = val[w]
    BY <2>1, PhaseOfWriter DEF PhaseAt
  <2>3. Readable' = val[w] /\ Stable' = Stable
    BY <1>3, RenameStep
  <2>4. Abstract!Replace
    BY <2>2, <2>3 DEF Abstract!Replace
  <2>5. QED
    BY <2>4
<1>4. CASE SyncsDir(w)
  <2>1. pc[w] = "syncdir" /\ pc'[w] = "ok" /\ val' = val
    BY <1>4 DEF SyncsDir, GoesTo, Inv, TypeOK
  <2>2. Phase = "replaced" /\ Phase' = "safe" /\ New = val[w] /\ New' = val[w]
    BY <2>1, PhaseOfWriter DEF PhaseAt
  <2>3. Readable = val[w]
    BY <2>1 DEF Inv, WriterInv
  <2>4. Abstract!Secure
    BY <1>4, <2>2, <2>3, SyncDirStep DEF Abstract!Secure
  <2>5. QED
    BY <2>4
<1>5. CASE ReturnsOk(w) \/ ReturnsErr(w)
  <2>1. pc[w] # "idle" /\ Returns(w) /\ UNCHANGED files
    BY <1>5 DEF ReturnsOk, ReturnsErr
  <2>2. Readable' = Readable /\ Stable' = Stable /\ Active' = {}
    BY <2>1, ReturnStep DEF Active
  <2>3. Phase' = "idle" /\ New' = None
    BY <2>2, PhaseWhenIdle
  <2>4. Phase \in {"writing", "replaced", "safe"}
    BY <2>1, PhaseOfWriter DEF PhaseAt
  <2>5. Abstract!Abort \/ Abstract!Succeed
    BY <2>2, <2>3, <2>4 DEF Abstract!Abort, Abstract!Succeed, Abstract!Returns
  <2>6. QED
    BY <2>5
<1>6. CASE Removes(w)
  <2>1. Active = {} /\ Active' = {} /\ Readable' = None /\ Stable' = Stable
    BY <1>6, RemoveStep DEF Removes, Active
  <2>2. Phase = "idle" /\ New = None /\ Phase' = "idle" /\ New' = None
    BY <2>1, PhaseWhenIdle
  <2>3. Abstract!Remove
    BY <2>1, <2>2 DEF Abstract!Remove
  <2>4. QED
    BY <2>3
<1>7. QED
  BY <1>1, <1>2, <1>3, <1>4, <1>5, <1>6 DEF Call

(* Every step is one of AtomicFile's, or none of its variables moves. *)
LEMMA RefinementStep ==
    ASSUME Inv, Inv', [Next /\ Exclusive]_vars
    PROVE  [Abstract!Next]_<<Readable, Stable, Phase, New>>
<1> USE DEF Abstract!Next
<1>1. ASSUME Exclusive, NEW w \in Writers, Call(w)
      PROVE  [Abstract!Next]_<<Readable, Stable, Phase, New>>
  BY <1>1, CallRefines
<1>2. CASE WritesBack
  <2>1. Readable' = Readable /\ Stable' \in {Stable, Readable} /\ UNCHANGED <<pc, val>>
    BY <1>2, WriteBackStep
  <2>2. Phase' = Phase /\ New' = New
    BY <2>1 DEF Phase, New, Active
  <2>3. CASE Stable' = Stable
    BY <2>1, <2>2, <2>3
  <2>4. CASE Stable' = Readable
    <3>1. Abstract!Persist
      BY <2>1, <2>2, <2>4 DEF Abstract!Persist
    <3>2. QED
      BY <3>1
  <2>5. QED
    BY <2>1, <2>3, <2>4
<1>3. CASE Killed \/ PowerLoss
  <2>1. Stable' = Stable /\ Readable' \in {Readable, Stable} /\ Active' = {}
    BY <1>3, StopStep DEF Active
  <2>2. Phase' = "idle" /\ New' = None
    BY <2>1, PhaseWhenIdle
  <2>3. CASE Readable' = Stable
    <3>1. Abstract!PowerLoss
      BY <2>1, <2>2, <2>3 DEF Abstract!PowerLoss
    <3>2. QED
      BY <3>1
  <2>4. CASE Readable' = Readable /\ Active = {}
    BY <2>1, <2>2, <2>4, PhaseWhenIdle
  <2>5. CASE Readable' = Readable /\ Active # {}
    <3>1. PICK w \in Writers : pc[w] # "idle"
      BY <2>5 DEF Active
    <3>2. Phase \in {"writing", "replaced", "safe"}
      BY <3>1, PhaseOfWriter DEF PhaseAt
    <3>3. Abstract!Abort \/ Abstract!Succeed
      BY <2>1, <2>2, <2>5, <3>2 DEF Abstract!Abort, Abstract!Succeed, Abstract!Returns
    <3>4. QED
      BY <3>3
  <2>6. QED
    BY <2>1, <2>3, <2>4, <2>5
<1>4. CASE UNCHANGED vars
  BY <1>4 DEF vars, Readable, Stable, Found, Phase, New, Active
<1>5. QED
  BY <1>1, <1>2, <1>3, <1>4 DEF Next

(***************************************************************************)
(* Writers that come one after another have the file that the rest of the  *)
(* agent takes for granted, whatever call fails and whenever the process   *)
(* is killed or the power goes (write_private_atomic).                     *)
(***************************************************************************)
THEOREM StateFileImplementsAtomicFile == SerialSpec => ImplementsAtomicFile
<1>1. Inv /\ Inv' /\ [Next /\ Exclusive]_vars => [Abstract!Next]_<<Readable, Stable, Phase, New>>
  BY RefinementStep
<1>2. QED
  BY <1>1, RefinementInit, FileInvariance, PTL DEF SerialSpec, ImplementsAtomicFile, Abstract!Spec
=============================================================================
