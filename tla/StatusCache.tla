----------------------------- MODULE StatusCache -----------------------------
(***************************************************************************)
(* The cache file of `zsnap status` (src/status.rs, write_atomic and load; *)
(* src/main.rs, show_status and the end of run_zfs_command): runs and       *)
(* refreshes replace it under the run lock, one system call at a time,      *)
(* while others read it without the lock; system calls fail, processes are *)
(* killed and the machine loses power.  A version is a listing of ZFS, in   *)
(* the order of the listings, and the file that is written from it.         *)
(***************************************************************************)
EXTENDS Integers, FiniteSets

CONSTANTS Procs, MaxVersion, None

Versions == 1..MaxVersion

ASSUME StatusCacheAssumption == MaxVersion \in Nat /\ None \notin Versions

VARIABLES
  mutators,  \* the processes that hold the run lock
  pc, job,   \* the next step of a process, and its command
  version,   \* the version a process writes or reads, or None
  listed,    \* the number of listings so far
  contents,  \* of each file, as read through the page cache
  synced,    \* files whose contents are on the disk
  temps,     \* files with a temporary name in the cache directory
  path,      \* the file with the name of the cache, or None
  disk,      \* the files the name may stand for on the disk
  shown,     \* the version the last `zsnap status` of a process showed, or 0
  error,     \* and its error, or "none"
  acked,     \* history: the last version whose write was reported done
  floor,     \* history: acked when a process began
  killed     \* history: files whose writers were killed

files == <<contents, synced, temps, path, disk>>
output == <<shown, error>>
history == <<acked, floor, killed>>
vars == <<mutators, pc, job, version, listed, files, output, history>>

Lock == INSTANCE OneRun

Steps == {"idle", "acquire", "list", "create", "write", "finish", "sync", "rename",
          "syncdir", "cleanup", "done", "failed", "open", "read"}
Errors == {"none", "busy", "failed", "missing", "invalid"}

\* The type of the state; and a file never has two names.
TypeOK ==
  /\ mutators \subseteq Procs
  /\ pc \in [Procs -> Steps]
  /\ job \in [Procs -> {"run", "status"}]
  /\ version \in [Procs -> Versions \cup {None}]
  /\ listed \in 0..MaxVersion
  /\ contents \in [Versions -> {"none", "empty", "torn", "whole"}]
  /\ synced \subseteq Versions /\ temps \subseteq Versions /\ killed \subseteq Versions
  /\ path \in Versions \cup {None} /\ path \notin temps
  /\ disk \subseteq Versions \cup {None} /\ path \in disk
  /\ shown \in [Procs -> 0..MaxVersion] /\ error \in [Procs -> Errors]
  /\ acked \in 0..MaxVersion /\ floor \in [Procs -> 0..MaxVersion]

Init ==
  /\ Lock!Init
  /\ pc = [p \in Procs |-> "idle"] /\ job = [p \in Procs |-> "run"]
  /\ version = [p \in Procs |-> None] /\ listed = 0
  /\ contents = [v \in Versions |-> "none"] /\ synced = {} /\ temps = {}
  /\ path = None /\ disk = {None}
  /\ shown = [p \in Procs |-> 0] /\ error = [p \in Procs |-> "none"]
  /\ acked = 0 /\ floor = [p \in Procs |-> 0] /\ killed = {}

GoTo(p, step) == pc' = [pc EXCEPT ![p] = step]

Shows(p, v, e) == shown' = [shown EXCEPT ![p] = v] /\ error' = [error EXCEPT ![p] = e]

-----------------------------------------------------------------------------
(* Commands *)

Start(p, command, step) ==
  /\ pc[p] = "idle"
  /\ job' = [job EXCEPT ![p] = command]
  /\ version' = [version EXCEPT ![p] = None]
  /\ Shows(p, 0, "none")
  /\ floor' = [floor EXCEPT ![p] = acked]
  /\ GoTo(p, step)
  /\ UNCHANGED <<mutators, listed, files, acked, killed>>

StartRun(p) == Start(p, "run", "acquire")

\* show_status decides whether to list or to load before it takes the lock.
StartStatus(p) ==
  \E refresh \in BOOLEAN :
    Start(p, "status", IF refresh \/ path = None THEN "acquire" ELSE "open")

\* Mutant: a listing for the status is made without the lock.
AcquireUnlocked(p) ==
  /\ pc[p] = "acquire"
  /\ mutators' = mutators \cup {p}
  /\ GoTo(p, "list")
  /\ UNCHANGED <<job, version, listed, files, output, history>>

Acquire(p) ==
  /\ pc[p] = "acquire"
  /\ Lock!Enter(p)
  /\ GoTo(p, "list")
  /\ UNCHANGED <<job, version, listed, files, output, history>>

Refused(p) ==
  /\ pc[p] = "acquire"
  /\ mutators # {}
  /\ GoTo(p, "idle")
  /\ Shows(p, 0, IF job[p] = "status" THEN "busy" ELSE "none")
  /\ UNCHANGED <<mutators, job, version, listed, files, history>>

\* Inventory::discover, and for a run its plan and its commands.
Discover(p) ==
  /\ pc[p] = "list" /\ listed < MaxVersion
  /\ listed' = listed + 1
  /\ version' = [version EXCEPT ![p] = listed + 1]
  /\ GoTo(p, "create")
  /\ UNCHANGED <<mutators, job, files, output, history>>

\* The listing fails, or the run does not succeed: no cache is written.
GiveUp(p) ==
  /\ pc[p] = "list"
  /\ GoTo(p, "failed")
  /\ UNCHANGED <<mutators, job, version, listed, files, output, history>>

\* The lock goes with the end of the command.  A run only warns of a cache it
\* could not write; a status shows what it wrote, or the error.
End(p) ==
  /\ pc[p] \in {"done", "failed"}
  /\ Lock!Leave(p)
  /\ GoTo(p, "idle")
  /\ \/ job[p] = "run" /\ Shows(p, 0, "none")
     \/ job[p] = "status" /\ pc[p] = "done" /\ Shows(p, version[p], "none")
     \/ job[p] = "status" /\ pc[p] = "failed" /\ Shows(p, 0, "failed")
  /\ UNCHANGED <<job, version, listed, files, history>>

-----------------------------------------------------------------------------
(* write_atomic *)

\* A temporary file with a name of its own (process and time), open for writing.
Create(p) ==
  /\ pc[p] = "create"
  /\ contents' = [contents EXCEPT ![version[p]] = "empty"]
  /\ temps' = temps \cup {version[p]}
  /\ GoTo(p, "write")
  /\ UNCHANGED <<mutators, job, version, listed, synced, path, disk, output, history>>

\* The serializer writes in pieces.
Write(p) ==
  /\ pc[p] \in {"write", "finish"}
  /\ contents' = [contents EXCEPT ![version[p]] = IF pc[p] = "write" THEN "torn" ELSE "whole"]
  /\ GoTo(p, IF pc[p] = "write" THEN "finish" ELSE "sync")
  /\ UNCHANGED <<mutators, job, version, listed, synced, temps, path, disk, output, history>>

\* Mutant: the file is renamed before its contents are on the disk.
SyncSkipped(p) ==
  /\ pc[p] = "sync"
  /\ GoTo(p, "rename")
  /\ UNCHANGED <<mutators, job, version, listed, files, output, history>>

Sync(p) ==
  /\ pc[p] = "sync"
  /\ synced' = synced \cup {version[p]}
  /\ GoTo(p, "rename")
  /\ UNCHANGED <<mutators, job, version, listed, contents, temps, path, disk, output, history>>

Rename(p) ==
  /\ pc[p] = "rename"
  /\ path' = version[p] /\ disk' = disk \cup {version[p]}
  /\ temps' = temps \ {version[p]}
  /\ GoTo(p, "syncdir")
  /\ UNCHANGED <<mutators, job, version, listed, contents, synced, output, history>>

\* Mutant: the directory is not synchronized.
SyncDirSkipped(p) ==
  /\ pc[p] = "syncdir"
  /\ acked' = version[p]
  /\ GoTo(p, "done")
  /\ UNCHANGED <<mutators, job, version, listed, files, output, floor, killed>>

SyncDir(p) ==
  /\ pc[p] = "syncdir"
  /\ disk' = {path}
  /\ acked' = version[p]
  /\ GoTo(p, "done")
  /\ UNCHANGED <<mutators, job, version, listed, contents, synced, temps, path, output,
                 floor, killed>>

\* Any call of write_atomic fails, without an effect.
CallFails(p) ==
  /\ pc[p] \in {"create", "write", "finish", "sync", "rename", "syncdir"}
  /\ GoTo(p, "cleanup")
  /\ UNCHANGED <<mutators, job, version, listed, files, output, history>>

\* Mutant: an error is returned at once.
CleanupForgotten(p) ==
  /\ pc[p] = "cleanup"
  /\ GoTo(p, "failed")
  /\ UNCHANGED <<mutators, job, version, listed, files, output, history>>

\* The temporary name is removed, if there is one.
Cleanup(p) ==
  /\ pc[p] = "cleanup"
  /\ temps' = temps \ {version[p]}
  /\ GoTo(p, "failed")
  /\ UNCHANGED <<mutators, job, version, listed, contents, synced, path, disk, output, history>>

-----------------------------------------------------------------------------
(* load *)

Open(p) ==
  /\ pc[p] = "open"
  /\ IF path = None
     THEN GoTo(p, "idle") /\ Shows(p, 0, "missing") /\ UNCHANGED version
     ELSE GoTo(p, "read") /\ version' = [version EXCEPT ![p] = path] /\ UNCHANGED output
  /\ UNCHANGED <<mutators, job, listed, files, history>>

\* The open file is read and parsed, whatever has its name by now.
Read(p) ==
  /\ pc[p] = "read"
  /\ IF contents[version[p]] = "whole" THEN Shows(p, version[p], "none")
     ELSE Shows(p, 0, "invalid")
  /\ GoTo(p, "idle")
  /\ UNCHANGED <<mutators, job, version, listed, files, history>>

-----------------------------------------------------------------------------
(* Failures *)

Writing(p) == pc[p] \in {"create", "write", "finish", "sync", "rename", "syncdir", "cleanup"}

\* A process dies; its lock goes with it, its files stay.
Crash(p) ==
  /\ pc[p] # "idle"
  /\ GoTo(p, "idle")
  /\ mutators' = mutators \ {p}
  /\ killed' = IF Writing(p) THEN killed \cup {version[p]} ELSE killed
  /\ UNCHANGED <<job, version, listed, files, output, acked, floor>>

\* All processes die.  The name of the cache is one of those that may be on the
\* disk, and a file that was not synchronized may have lost any of its contents.
PowerLoss ==
  /\ pc' = [p \in Procs |-> "idle"]
  /\ mutators' = {}
  /\ path' \in disk /\ disk' = {path'}
  /\ temps' = (temps \cup (disk \ {None})) \ {path'}
  /\ contents' \in {c \in [Versions -> {"none", "empty", "torn", "whole"}] :
       \A v \in Versions : \/ c[v] = contents[v]
                           \/ v \notin synced /\ contents[v] # "none"
                                /\ c[v] \in {"empty", "torn"}}
  /\ killed' = {v \in Versions : contents[v] # "none"}
  /\ UNCHANGED <<job, version, listed, synced, output, acked, floor>>

-----------------------------------------------------------------------------

WriteAtomic(p) == \/ Create(p) \/ Write(p) \/ Sync(p) \/ Rename(p) \/ SyncDir(p)
                  \/ CallFails(p) \/ Cleanup(p)

Next ==
  \/ \E p \in Procs : \/ StartRun(p) \/ StartStatus(p)
                      \/ Acquire(p) \/ Refused(p) \/ Discover(p) \/ GiveUp(p) \/ End(p)
                      \/ WriteAtomic(p)
                      \/ Open(p) \/ Read(p)
                      \/ Crash(p)
  \/ PowerLoss

Spec == Init /\ [][Next]_vars

-----------------------------------------------------------------------------
(* Properties *)

\* Once `zsnap status` has seen that there is a cache it can read it: whatever
\* is written beside it, and whatever was being written when a process was
\* killed or the power went, it never meets a file that is partial or gone.
AlwaysReadable == \A p \in Procs : error[p] \notin {"missing", "invalid"}

\* A version whose write was reported done is never lost, to a power failure
\* or to an older version written over it.
NeverBehind == acked > 0 => path # None /\ path >= acked

\* What `zsnap status` shows is no older than the last version that had been
\* written when it was started.
ShowsCurrent == \A p \in Procs : shown[p] # 0 => shown[p] >= floor[p]

\* Only a process that is killed leaves a temporary file behind: after an
\* error of any step of write_atomic there is none.
NoLitter == \A v \in temps \ killed : \E p \in Procs : Writing(p) /\ version[p] = v
=============================================================================
