------------------------------- MODULE RunLock -------------------------------
(***************************************************************************)
(* The process-wide run lock (src/lock.rs): an advisory flock on a file    *)
(* that is created on demand, never unlinked by zsnap, and that carries    *)
(* the PID of its last holder.  The kernel's part (an inode per created    *)
(* file, a lock per inode, release on close or death) and systemd's part   *)
(* (RuntimeDirectory= of packaging/zsnap.service) are external.            *)
(***************************************************************************)
CONSTANTS
  Procs,          \* zsnap invocations that may mutate ZFS state
  ServiceProcs,   \* those started by zsnap.service; the others are manual or cron
  Inodes,         \* identities of lock files
  None,           \* no inode, no process, an empty file
  DirRemoved      \* the lock lives in the service's RuntimeDirectory, which
                  \* systemd removes whenever the service stops

ASSUME RunLockAssumption ==
  /\ ServiceProcs \subseteq Procs
  /\ None \notin Procs \cup Inodes
  /\ DirRemoved \in BOOLEAN

VARIABLES
  dir,        \* the parent directory of the lock file exists
  path,       \* the inode the lock path names, or None
  content,    \* the PID written in each inode, None when it is empty
  owner,      \* the process whose open file holds the flock of each inode
  pc,         \* where each process is in acquire / the locked region
  fd,         \* the inode behind RunLock::file of each process
  unit,       \* the service's main process, None when the unit is inactive
  reported,   \* the PID named by the last "another zsnap process" error
  heldBy      \* history: who held the lock since that error's try_lock

vars == <<dir, path, content, owner, pc, fd, unit, reported, heldBy>>

\* Inside acquire with the flock, or past it with the guard alive.
Owning == {"locked", "truncated", "holding"}

\* The lock file is open.
Open == Owning \cup {"opened", "refused"}

Mutators == {p \in Procs : pc[p] \in Owning}

TypeOK ==
  /\ dir \in BOOLEAN
  /\ path \in Inodes \cup {None}
  /\ content \in [Inodes -> Procs \cup {None}]
  /\ owner \in [Inodes -> Procs \cup {None}]
  /\ pc \in [Procs -> Open \cup {"idle", "started", "made"}]
  /\ fd \in [Procs -> Inodes \cup {None}]
  /\ unit \in ServiceProcs \cup {None}
  /\ reported \in [Procs -> Procs \cup {None}]
  /\ heldBy \in [Procs -> SUBSET Procs]

Init ==
  /\ dir = FALSE
  /\ path = None
  /\ content = [i \in Inodes |-> None]
  /\ owner = [i \in Inodes |-> None]
  /\ pc = [p \in Procs |-> "idle"]
  /\ fd = [p \in Procs |-> None]
  /\ unit = None
  /\ reported = [p \in Procs |-> None]
  /\ heldBy = [p \in Procs |-> {}]

-----------------------------------------------------------------------------
(* Starting and stopping processes *)

\* A manual or cron invocation of a mutating command without --dry-run.
Start(p) ==
  /\ pc[p] = "idle" /\ p \notin ServiceProcs
  /\ pc' = [pc EXCEPT ![p] = "started"]
  /\ reported' = [reported EXCEPT ![p] = None]
  /\ heldBy' = [heldBy EXCEPT ![p] = {}]
  /\ UNCHANGED <<dir, path, content, owner, fd, unit>>

\* systemd starts the oneshot service: it creates RuntimeDirectory= first, and
\* never runs a second instance of a unit that is active.
ServiceStart(p) ==
  /\ pc[p] = "idle" /\ p \in ServiceProcs /\ unit = None
  /\ unit' = p
  /\ dir' = TRUE
  /\ pc' = [pc EXCEPT ![p] = "started"]
  /\ reported' = [reported EXCEPT ![p] = None]
  /\ heldBy' = [heldBy EXCEPT ![p] = {}]
  /\ UNCHANGED <<path, content, owner, fd>>

\* The main process has ended, with or without success: the unit stops and its
\* RuntimeDirectory, with the lock file in it, is unlinked (no
\* RuntimeDirectoryPreserve= is set).
ServiceStop ==
  /\ unit # None /\ pc[unit] = "idle"
  /\ unit' = None
  /\ IF DirRemoved THEN dir' = FALSE /\ path' = None ELSE UNCHANGED <<dir, path>>
  /\ UNCHANGED <<content, owner, pc, fd, reported, heldBy>>

\* File and lock end with the process: the file description is closed.
Close(p) ==
  /\ pc' = [pc EXCEPT ![p] = "idle"]
  /\ fd' = [fd EXCEPT ![p] = None]
  /\ owner' = [i \in Inodes |-> IF owner[i] = p THEN None ELSE owner[i]]

\* Mutant: the lock is a PID file that only an orderly exit gives up.
CrashKeepsLock(p) ==
  /\ pc[p] # "idle"
  /\ pc' = [pc EXCEPT ![p] = "idle"]
  /\ fd' = [fd EXCEPT ![p] = None]
  /\ UNCHANGED <<dir, path, content, owner, unit, reported, heldBy>>

\* kill -9, a panic or a power cut of the container: at any point.
Crash(p) ==
  /\ pc[p] # "idle"
  /\ Close(p)
  /\ UNCHANGED <<dir, path, content, unit, reported, heldBy>>

-----------------------------------------------------------------------------
(* RunLock::acquire *)

\* create_dir_all(parent).
CreateDir(p) ==
  /\ pc[p] = "started"
  /\ dir' = TRUE
  /\ pc' = [pc EXCEPT ![p] = "made"]
  /\ UNCHANGED <<path, content, owner, fd, unit, reported, heldBy>>

\* An inode nothing refers to: what a new file gets.
Fresh(i) == i # path /\ \A p \in Procs : fd[p] # i

\* Mutant: truncate(true), as File::create does.
OpenTruncates(p) ==
  /\ pc[p] = "made" /\ dir
  /\ \E i \in Inodes :
       /\ IF path # None THEN i = path ELSE Fresh(i)
       /\ path' = i
       /\ content' = [content EXCEPT ![i] = None]
       /\ fd' = [fd EXCEPT ![p] = i]
  /\ pc' = [pc EXCEPT ![p] = "opened"]
  /\ UNCHANGED <<dir, owner, unit, reported, heldBy>>

\* open(create, no truncate): the file the path names, or a new empty one.
OpenFile(p) ==
  /\ pc[p] = "made" /\ dir
  /\ IF path # None
     THEN /\ fd' = [fd EXCEPT ![p] = path]
          /\ UNCHANGED <<path, content>>
     ELSE \E i \in Inodes :
            /\ Fresh(i)
            /\ path' = i
            /\ content' = [content EXCEPT ![i] = None]
            /\ fd' = [fd EXCEPT ![p] = i]
  /\ pc' = [pc EXCEPT ![p] = "opened"]
  /\ UNCHANGED <<dir, owner, unit, reported, heldBy>>

\* create_dir_all or open fails; open has to when the directory was removed
\* between them.
OpenFails(p) ==
  /\ pc[p] \in {"started", "made"}
  /\ pc' = [pc EXCEPT ![p] = "idle"]
  /\ UNCHANGED <<dir, path, content, owner, fd, unit, reported, heldBy>>

\* Mutant: try_lock_shared.
TryLockShared(p) ==
  /\ pc[p] = "opened"
  /\ owner' = [owner EXCEPT ![fd[p]] = p]
  /\ pc' = [pc EXCEPT ![p] = "locked"]
  /\ UNCHANGED <<dir, path, content, fd, unit, reported, heldBy>>

\* try_lock: Ok.
TryLock(p) ==
  /\ pc[p] = "opened" /\ owner[fd[p]] = None
  /\ owner' = [owner EXCEPT ![fd[p]] = p]
  /\ pc' = [pc EXCEPT ![p] = "locked"]
  /\ heldBy' = [q \in Procs |->
                 IF pc[q] = "refused" /\ fd[q] = fd[p] THEN heldBy[q] \cup {p} ELSE heldBy[q]]
  /\ UNCHANGED <<dir, path, content, fd, unit, reported>>

\* Mutant: lock() waits for the holder where try_lock() reports it.
LockWaits(p) == FALSE /\ UNCHANGED vars

\* try_lock: WouldBlock.  It never waits.
TryLockRefused(p) ==
  /\ pc[p] = "opened" /\ owner[fd[p]] # None
  /\ pc' = [pc EXCEPT ![p] = "refused"]
  /\ heldBy' = [heldBy EXCEPT ![p] = {owner[fd[p]]}]
  /\ UNCHANGED <<dir, path, content, owner, fd, unit, reported>>

\* The error names whatever PID the file holds at this moment.
ReadHolder(p) ==
  /\ pc[p] = "refused"
  /\ reported' = [reported EXCEPT ![p] = content[fd[p]]]
  /\ Close(p)
  /\ UNCHANGED <<dir, path, content, unit, heldBy>>

\* set_len(0), seek.
Truncate(p) ==
  /\ pc[p] = "locked"
  /\ content' = [content EXCEPT ![fd[p]] = None]
  /\ pc' = [pc EXCEPT ![p] = "truncated"]
  /\ UNCHANGED <<dir, path, owner, fd, unit, reported, heldBy>>

\* Mutant: the descriptor is written where the process id belongs.
WriteDescriptor(p) ==
  /\ pc[p] = "truncated"
  /\ content' = [content EXCEPT ![fd[p]] = fd[p]]
  /\ pc' = [pc EXCEPT ![p] = "holding"]
  /\ UNCHANGED <<dir, path, owner, fd, unit, reported, heldBy>>

\* writeln!(pid), sync_data; acquire returns Ok.
WritePid(p) ==
  /\ pc[p] = "truncated"
  /\ content' = [content EXCEPT ![fd[p]] = p]
  /\ pc' = [pc EXCEPT ![p] = "holding"]
  /\ UNCHANGED <<dir, path, owner, fd, unit, reported, heldBy>>

\* An I/O error of set_len, seek, write or sync_data: acquire returns Err and
\* the file is dropped; a failed sync leaves the PID written.
WriteFails(p) ==
  /\ pc[p] \in {"locked", "truncated"}
  /\ \/ UNCHANGED content
     \/ pc[p] = "truncated" /\ content' = [content EXCEPT ![fd[p]] = p]
  /\ Close(p)
  /\ UNCHANGED <<dir, path, unit, reported, heldBy>>

\* Mutant: Drop also removes the lock file, as it would with a PID file.
ReleaseUnlinks(p) ==
  /\ pc[p] = "holding"
  /\ path' = None
  /\ Close(p)
  /\ UNCHANGED <<dir, content, unit, reported, heldBy>>

\* Drop at the end of run_zfs_command, on success or error.  The file keeps
\* its name and its content.
Release(p) ==
  /\ pc[p] = "holding"
  /\ Close(p)
  /\ UNCHANGED <<dir, path, content, unit, reported, heldBy>>

\* Every step of acquire itself.
Acquire(p) ==
  \/ CreateDir(p) \/ OpenFile(p) \/ OpenFails(p)
  \/ TryLock(p) \/ TryLockRefused(p) \/ ReadHolder(p)
  \/ Truncate(p) \/ WritePid(p) \/ WriteFails(p)

Next ==
  \/ ServiceStop
  \/ \E p \in Procs : Start(p) \/ ServiceStart(p) \/ Crash(p) \/ Acquire(p) \/ Release(p)

Spec == Init /\ [][Next]_vars

\* A process that is inside acquire is scheduled.  Nothing is assumed of the
\* locked region: a holder may keep the lock for ever.
Fairness == \A p \in Procs : WF_vars(Acquire(p))

FairSpec == Spec /\ Fairness

-----------------------------------------------------------------------------
(* Properties *)

\* README.md:97-99: the lock permits one mutating invocation at a time, even
\* when the timer overlaps a manual run.
MutualExclusion == \A p, q \in Mutators : p = q

\* While a process is in the locked region its own PID stays in the file it
\* locked: nobody who opens the file, is refused, dies or fails disturbs it
\* (the open does not truncate; only the owner writes).
HolderPidOnFile == \A p \in Procs : pc[p] = "holding" => content[fd[p]] = p

\* A flock belongs to a live process that is in the locked region: whatever
\* way a process ends, the next one is not refused because of it.
NoOrphanedLock ==
  \A i \in Inodes : owner[i] # None => pc[owner[i]] \in Owning /\ fd[owner[i]] = i

\* acquire does not wait: it is decided even when the holder never lets go.
AcquireDecides ==
  \A p \in Procs : pc[p] = "started" ~> pc[p] \in {"holding", "idle"}

\* lock.rs:34: "another zsnap process (PID n) holds": n held the lock at some
\* moment from the refused try_lock to the read of the file.
ReportedHolds ==
  \A p \in Procs : reported[p] # None => reported[p] \in heldBy[p]

\* The lock implements the one-run region that run_zfs_command relies on.
Region == INSTANCE OneRun WITH mutators <- Mutators
ImplementsOneRun == Region!Spec
=============================================================================
