----------------------------- MODULE StateFile ------------------------------
(***************************************************************************)
(* One file of the state directory at the level of system calls: what      *)
(* write_private_atomic, delete_claim_secret and a reader do to it, under  *)
(* failing calls, a killed process and a loss of power.  An inode has the  *)
(* contents the kernel holds (data) and those on the medium (disk), and so *)
(* has the directory, which is taken to exist on the medium.  Every writer *)
(* of the file uses one temporary name, path.with_extension("tmp").        *)
(***************************************************************************)
CONSTANTS
    Writers,   \* tasks that may write this file at one time
    Values,    \* whole contents
    Inodes,    \* a bound on the inodes in use
    None,      \* no file, no inode
    Partial,   \* contents of a file that is empty or written in part
    Faults     \* what may go wrong: "io", "kill", "power"

ASSUME FileAssumption ==
    /\ None \notin Values \cup Inodes
    /\ Partial \notin Values \cup {None}
    /\ Faults \subseteq {"io", "kill", "power"}

VARIABLES
    data,     \* inode -> contents as the kernel holds them
    disk,     \* inode -> contents on the medium
    dir,      \* the directory as the kernel holds it: names "tmp" and "file"
    dirDisk,  \* the directory on the medium
    pc,       \* the call each writer makes next
    fd,       \* the inode of each writer's tmp_file
    val       \* the contents each writer was given

vars == <<data, disk, dir, dirDisk, pc, fd, val>>

Contents == Values \cup {Partial}

Entries == [tmp : Inodes \cup {None}, file : Inodes \cup {None}]

NoEntries == [tmp |-> None, file |-> None]

Calls == {"idle", "dir", "open", "write", "sync", "rename", "syncdir", "ok"}

Init ==
    /\ data = [i \in Inodes |-> Partial]
    /\ disk = [i \in Inodes |-> Partial]
    /\ dir = NoEntries
    /\ dirDisk = NoEntries
    /\ pc = [w \in Writers |-> "idle"]
    /\ fd = [w \in Writers |-> None]
    /\ val = [w \in Writers |-> None]

(* Type invariant: inodes, names and writers have their shapes. *)
TypeOK ==
    /\ data \in [Inodes -> Contents]
    /\ disk \in [Inodes -> Contents]
    /\ dir \in Entries
    /\ dirDisk \in Entries
    /\ pc \in [Writers -> Calls]
    /\ fd \in [Writers -> Inodes \cup {None}]
    /\ val \in [Writers -> Values \cup {None}]
    /\ \A w \in Writers : fd[w] # None <=> pc[w] \in {"write", "sync"}

files == <<data, disk, dir, dirDisk>>

-----------------------------------------------------------------------------
(* What is in the file: for a reader, and after a power loss. *)

Found(entries, contents) ==
    IF entries.file = None THEN None ELSE contents[entries.file]

Readable == Found(dir, data)

Stable == Found(dirDisk, disk)

-----------------------------------------------------------------------------
(* write_private_atomic, one action per system call. *)

GoesTo(w, call) == pc' = [pc EXCEPT ![w] = call]

Returns(w) ==
    /\ GoesTo(w, "idle")
    /\ fd' = [fd EXCEPT ![w] = None]
    /\ val' = [val EXCEPT ![w] = None]

Starts(w) ==
    /\ pc[w] = "idle"
    /\ \E v \in Values : val' = [val EXCEPT ![w] = v]
    /\ GoesTo(w, "dir")
    /\ UNCHANGED <<files, fd>>

(* create_dir_all finds the directory, set_permissions makes it 0700. *)
PreparesDir(w) ==
    /\ pc[w] = "dir"
    /\ GoesTo(w, "open")
    /\ UNCHANGED <<files, fd, val>>

Unused(i) ==
    /\ i \notin {dir.tmp, dir.file, dirDisk.tmp, dirDisk.file}
    /\ \A w \in Writers : fd[w] # i

(* open with O_CREAT and O_TRUNC: a temporary file left behind is used again. *)
OpensTmp(w) ==
    /\ pc[w] = "open"
    /\ \E i \in Inodes :
          /\ IF dir.tmp = None THEN Unused(i) ELSE i = dir.tmp
          /\ data' = [data EXCEPT ![i] = Partial]
          /\ disk' = IF dir.tmp = None THEN [disk EXCEPT ![i] = Partial] ELSE disk
          /\ dir' = [dir EXCEPT !.tmp = i]
          /\ fd' = [fd EXCEPT ![w] = i]
    /\ GoesTo(w, "write")
    /\ UNCHANGED <<dirDisk, val>>

WritesAll(w) ==
    /\ pc[w] = "write"
    /\ data' = [data EXCEPT ![fd[w]] = val[w]]
    /\ GoesTo(w, "sync")
    /\ UNCHANGED <<disk, dir, dirDisk, fd, val>>

(* Mutant: the temporary file stays open. *)
SyncsTmp_Leaks(w) ==
    /\ pc[w] = "sync"
    /\ disk' = [disk EXCEPT ![fd[w]] = data[fd[w]]]
    /\ GoesTo(w, "rename")
    /\ UNCHANGED <<data, dir, dirDisk, fd, val>>

(* Mutant: the temporary file is renamed without having been synced. *)
SyncsTmp_Skipped(w) ==
    /\ pc[w] = "sync"
    /\ fd' = [fd EXCEPT ![w] = None]
    /\ GoesTo(w, "rename")
    /\ UNCHANGED <<data, disk, dir, dirDisk, val>>

(* tmp_file.sync_all(), and tmp_file is dropped. *)
SyncsTmp(w) ==
    /\ pc[w] = "sync"
    /\ disk' = [disk EXCEPT ![fd[w]] = data[fd[w]]]
    /\ fd' = [fd EXCEPT ![w] = None]
    /\ GoesTo(w, "rename")
    /\ UNCHANGED <<data, dir, dirDisk, val>>

(* rename moves whatever the temporary name stands for now. *)
Renames(w) ==
    /\ pc[w] = "rename"
    /\ dir.tmp # None
    /\ dir' = [tmp |-> None, file |-> dir.tmp]
    /\ GoesTo(w, "syncdir")
    /\ UNCHANGED <<data, disk, dirDisk, fd, val>>

(* Mutant: the directory is not synced. *)
SyncsDir_Skipped(w) ==
    /\ pc[w] = "syncdir"
    /\ GoesTo(w, "ok")
    /\ UNCHANGED <<files, fd, val>>

(* The directory is opened and synced. *)
SyncsDir(w) ==
    /\ pc[w] = "syncdir"
    /\ dirDisk' = dir
    /\ GoesTo(w, "ok")
    /\ UNCHANGED <<data, disk, dir, fd, val>>

ReturnsOk(w) ==
    /\ pc[w] = "ok"
    /\ Returns(w)
    /\ UNCHANGED files

(* A call fails and write_private_atomic returns its Err at once. *)
ReturnsErr(w) ==
    /\ \/ "io" \in Faults /\ pc[w] \notin {"idle", "ok"}
       \/ pc[w] = "rename" /\ dir.tmp = None
    /\ Returns(w)
    /\ UNCHANGED files

(* delete_claim_secret: remove_file, and the directory is not synced. *)
Removes(w) ==
    /\ pc[w] = "idle"
    /\ dir' = [dir EXCEPT !.file = None]
    /\ UNCHANGED <<data, disk, dirDisk, pc, fd, val>>

-----------------------------------------------------------------------------
(* The kernel writes back what it holds whenever it likes. *)
WritesBack ==
    \/ /\ \E i \in Inodes : disk' = [disk EXCEPT ![i] = data[i]]
       /\ UNCHANGED <<data, dir, dirDisk, pc, fd, val>>
    \/ /\ dirDisk' = dir
       /\ UNCHANGED <<data, disk, dir, pc, fd, val>>

Stops ==
    /\ pc' = [w \in Writers |-> "idle"]
    /\ fd' = [w \in Writers |-> None]
    /\ val' = [w \in Writers |-> None]

(* The process is killed: the kernel's state stays. *)
Killed ==
    /\ "kill" \in Faults
    /\ Stops
    /\ UNCHANGED files

(* Power is lost: what was not on the medium is gone. *)
PowerLoss ==
    /\ "power" \in Faults
    /\ Stops
    /\ dir' = dirDisk
    /\ data' = disk
    /\ UNCHANGED <<disk, dirDisk>>

Call(w) ==
    \/ Starts(w) \/ PreparesDir(w) \/ OpensTmp(w) \/ WritesAll(w) \/ SyncsTmp(w)
    \/ Renames(w) \/ SyncsDir(w) \/ ReturnsOk(w) \/ ReturnsErr(w) \/ Removes(w)

Next ==
    \/ \E w \in Writers : Call(w)
    \/ WritesBack \/ Killed \/ PowerLoss

Spec == Init /\ [][Next]_vars

(***************************************************************************)
(* The writers of a file come one after another: main() writes before it   *)
(* serves, a finish writes and removes under claim_commit_lock.  A join    *)
(* beside another one, or beside the finish that has just let it in, is    *)
(* the exception, which Spec alone has.                                    *)
(***************************************************************************)
Active == {w \in Writers : pc[w] # "idle"}

Exclusive == \A w \in Writers : Starts(w) \/ Removes(w) => Active = {}

SerialSpec == Init /\ [][Next /\ Exclusive]_vars

-----------------------------------------------------------------------------
(***************************************************************************)
(* When write_private_atomic is about to return Ok, what it wrote is what  *)
(* a loss of power would leave ("fsync'd before the rename, and the parent *)
(* directory after").                                                      *)
(***************************************************************************)
OkIsStable == \A w \in Writers : pc[w] = "ok" => Stable = val[w]

(***************************************************************************)
(* Refinement, for one writer at a time: the readable and the stable       *)
(* contents are the abstract file's.                                       *)
(***************************************************************************)
Phase ==
    IF Active = {} THEN "idle"
    ELSE IF \E w \in Active : pc[w] = "ok" THEN "safe"
    ELSE IF \E w \in Active : pc[w] = "syncdir" THEN "replaced"
    ELSE "writing"

New == IF Active = {} THEN None ELSE val[CHOOSE w \in Active : TRUE]

Abstract == INSTANCE AtomicFile WITH
    value <- Readable, stable <- Stable, phase <- Phase, new <- New

(***************************************************************************)
(* The system calls, in their order, make the file that the other modules  *)
(* take for granted: replaced at once or not at all, and safe when Ok is   *)
(* returned (write_private_atomic).                                        *)
(***************************************************************************)
ImplementsAtomicFile == Abstract!Spec
=============================================================================
