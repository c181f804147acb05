---------------------------- MODULE RunLockProofs ----------------------------
(***************************************************************************)
(* Theorems about RunLock for every set of processes and inodes.           *)
(*                                                                         *)
(* The lock itself is sound per inode (FlockInv).  That it also serialises *)
(* the processes needs one fact more, that every open lock file is the one *)
(* the path names (OnPath), and that fact is what systemd's removal of the *)
(* RuntimeDirectory takes away: OnPath is inductive only without it.       *)
(***************************************************************************)
EXTENDS RunLock, TLAPS

\* The owner of an inode and the process that has it open agree.
OwnerHasFile ==
  \A p \in Procs : pc[p] \in Owning => fd[p] \in Inodes /\ owner[fd[p]] = p

\* A process with the lock file open has an inode behind it.
OpenHasInode == \A p \in Procs : pc[p] \in Open => fd[p] \in Inodes

\* The inductive invariant that holds however the lock directory is treated.
FlockInv ==
  /\ TypeOK
  /\ OpenHasInode
  /\ OwnerHasFile
  /\ NoOrphanedLock
  /\ HolderPidOnFile

\* Every open lock file is the file the path names.
OnPath == \A p \in Procs : pc[p] \in Open => fd[p] = path

-----------------------------------------------------------------------------
\* The state RunLock starts in satisfies the invariant.
LEMMA FlockInit == Init => FlockInv
BY RunLockAssumption
   DEF Init, FlockInv, TypeOK, OpenHasInode, OwnerHasFile, NoOrphanedLock,
       HolderPidOnFile, Open, Owning

\* Closing the lock file of a process, whatever it was doing, disturbs neither
\* the types nor what the other processes own.
LEMMA CloseKeeps ==
  ASSUME FlockInv, NEW p \in Procs, Close(p)
  PROVE  /\ pc' \in [Procs -> Open \cup {"idle", "started", "made"}]
         /\ fd' \in [Procs -> Inodes \cup {None}]
         /\ owner' \in [Inodes -> Procs \cup {None}]
         /\ OpenHasInode' /\ OwnerHasFile' /\ NoOrphanedLock'
<1> USE RunLockAssumption DEF FlockInv, TypeOK, Close
<1>1. /\ pc' \in [Procs -> Open \cup {"idle", "started", "made"}]
      /\ fd' \in [Procs -> Inodes \cup {None}]
      /\ owner' \in [Inodes -> Procs \cup {None}]
  OBVIOUS
<1>2. pc'[p] = "idle" /\ \A q \in Procs \ {p} : pc'[q] = pc[q] /\ fd'[q] = fd[q]
  OBVIOUS
<1>3. OpenHasInode'
  BY <1>1, <1>2 DEF OpenHasInode, Open, Owning
<1>4. OwnerHasFile'
  BY <1>1, <1>2 DEF OwnerHasFile, Open, Owning
<1>5. NoOrphanedLock'
  BY <1>1, <1>2 DEF NoOrphanedLock, Open, Owning
<1> QED BY <1>1, <1>3, <1>4, <1>5

\* No step of any process, and nothing systemd does, breaks it.
LEMMA FlockStep == FlockInv /\ [Next]_vars => FlockInv'
<1> SUFFICES ASSUME FlockInv, [Next]_vars PROVE FlockInv'
  OBVIOUS
<1> USE RunLockAssumption
<1>1. CASE ServiceStop
  BY <1>1 DEF ServiceStop, FlockInv, TypeOK, OpenHasInode, OwnerHasFile,
              NoOrphanedLock, HolderPidOnFile
<1>2. ASSUME NEW p \in Procs, Start(p) PROVE FlockInv'
  BY <1>2 DEF Start, FlockInv, TypeOK, OpenHasInode, OwnerHasFile,
              NoOrphanedLock, HolderPidOnFile, Open, Owning
<1>3. ASSUME NEW p \in Procs, ServiceStart(p) PROVE FlockInv'
  BY <1>3 DEF ServiceStart, FlockInv, TypeOK, OpenHasInode, OwnerHasFile,
              NoOrphanedLock, HolderPidOnFile, Open, Owning
<1>4. ASSUME NEW p \in Procs, Crash(p) PROVE FlockInv'
  <2>1. Close(p) BY <1>4 DEF Crash
  <2>2. HolderPidOnFile'
    BY <1>4 DEF Crash, Close, FlockInv, TypeOK, HolderPidOnFile
  <2>3. TypeOK'
    BY <1>4, <2>1, CloseKeeps DEF Crash, FlockInv, TypeOK
  <2> QED BY <2>1, <2>2, <2>3, CloseKeeps DEF FlockInv
<1>5. ASSUME NEW p \in Procs, CreateDir(p) PROVE FlockInv'
  BY <1>5 DEF CreateDir, FlockInv, TypeOK, OpenHasInode, OwnerHasFile,
              NoOrphanedLock, HolderPidOnFile, Open, Owning
<1>6. ASSUME NEW p \in Procs, OpenFile(p) PROVE FlockInv'
  <2> USE DEF FlockInv, TypeOK
  <2>1. PICK i \in Inodes :
          /\ fd' = [fd EXCEPT ![p] = i]
          /\ path' = i
          /\ \/ content' = content
             \/ content' = [content EXCEPT ![i] = None] /\ \A q \in Procs : fd[q] # i
    BY <1>6 DEF OpenFile, Fresh
  <2>2. /\ pc[p] = "made"
        /\ pc' = [pc EXCEPT ![p] = "opened"]
        /\ UNCHANGED <<dir, owner, unit, reported, heldBy>>
    BY <1>6 DEF OpenFile
  <2>3. TypeOK'
    BY <2>1, <2>2 DEF Open
  <2>4. OpenHasInode' /\ OwnerHasFile' /\ NoOrphanedLock'
    BY <2>1, <2>2 DEF OpenHasInode, OwnerHasFile, NoOrphanedLock, Open, Owning
  <2>5. HolderPidOnFile'
    BY <2>1, <2>2 DEF OwnerHasFile, HolderPidOnFile, Owning
  <2> QED BY <2>3, <2>4, <2>5
<1>7. ASSUME NEW p \in Procs, OpenFails(p) PROVE FlockInv'
  BY <1>7 DEF OpenFails, FlockInv, TypeOK, OpenHasInode, OwnerHasFile,
              NoOrphanedLock, HolderPidOnFile, Open, Owning
<1>8. ASSUME NEW p \in Procs, TryLock(p) PROVE FlockInv'
  <2> USE <1>8 DEF TryLock, FlockInv, TypeOK
  <2>1. fd[p] \in Inodes
    BY DEF OpenHasInode, Open
  <2>2. TypeOK'
    BY <2>1 DEF Open, Owning
  <2>3. OpenHasInode'
    BY <2>1 DEF OpenHasInode
  <2>4. OwnerHasFile' /\ NoOrphanedLock'
    BY <2>1 DEF OwnerHasFile, NoOrphanedLock, Owning
  <2>5. HolderPidOnFile'
    BY DEF HolderPidOnFile
  <2> QED BY <2>2, <2>3, <2>4, <2>5
<1>9. ASSUME NEW p \in Procs, TryLockRefused(p) PROVE FlockInv'
  <2> USE <1>9 DEF TryLockRefused, FlockInv, TypeOK
  <2>1. fd[p] \in Inodes /\ owner[fd[p]] \in Procs
    BY DEF OpenHasInode, Open
  <2>2. TypeOK'
    BY <2>1 DEF Open
  <2> QED
    BY <2>1, <2>2 DEF OpenHasInode, OwnerHasFile, NoOrphanedLock, HolderPidOnFile, Open, Owning
<1>10. ASSUME NEW p \in Procs, ReadHolder(p) PROVE FlockInv'
  <2>1. Close(p) BY <1>10 DEF ReadHolder
  <2>2. HolderPidOnFile'
    BY <1>10 DEF ReadHolder, Close, FlockInv, TypeOK, HolderPidOnFile
  <2>3. content[fd[p]] \in Procs \cup {None}
    BY <1>10 DEF ReadHolder, FlockInv, TypeOK, OpenHasInode, Open
  <2>4. TypeOK'
    BY <1>10, <2>1, <2>3, CloseKeeps DEF ReadHolder, FlockInv, TypeOK
  <2> QED BY <2>1, <2>2, <2>4, CloseKeeps DEF FlockInv
<1>11. ASSUME NEW p \in Procs, Truncate(p) PROVE FlockInv'
  <2> USE <1>11 DEF Truncate, FlockInv, TypeOK
  <2>1. fd[p] \in Inodes /\ owner[fd[p]] = p
    BY DEF OwnerHasFile, Owning
  <2>2. TypeOK' /\ OpenHasInode' /\ OwnerHasFile' /\ NoOrphanedLock'
    BY <2>1 DEF OpenHasInode, OwnerHasFile, NoOrphanedLock, Open, Owning
  <2>3. HolderPidOnFile'
    BY <2>1 DEF OwnerHasFile, HolderPidOnFile, Owning
  <2> QED BY <2>2, <2>3
<1>12. ASSUME NEW p \in Procs, WritePid(p) PROVE FlockInv'
  <2> USE <1>12 DEF WritePid, FlockInv, TypeOK
  <2>1. fd[p] \in Inodes /\ owner[fd[p]] = p
    BY DEF OwnerHasFile, Owning
  <2>2. TypeOK' /\ OpenHasInode' /\ OwnerHasFile' /\ NoOrphanedLock'
    BY <2>1 DEF OpenHasInode, OwnerHasFile, NoOrphanedLock, Open, Owning
  <2>3. HolderPidOnFile'
    BY <2>1 DEF OwnerHasFile, HolderPidOnFile, Owning
  <2> QED BY <2>2, <2>3
<1>13. ASSUME NEW p \in Procs, WriteFails(p) PROVE FlockInv'
  <2>1. Close(p) BY <1>13 DEF WriteFails
  <2> USE DEF FlockInv, TypeOK
  <2>2. fd[p] \in Inodes /\ owner[fd[p]] = p
    BY <1>13 DEF WriteFails, OwnerHasFile, Owning
  <2>3. TypeOK'
    BY <1>13, <2>1, <2>2, CloseKeeps DEF WriteFails
  <2>4. \A q \in Procs : pc'[q] = "holding" =>
           q # p /\ pc[q] = "holding" /\ fd'[q] = fd[q] /\ fd[q] # fd[p] /\ fd[q] \in Inodes
    BY <2>1, <2>2 DEF Close, OwnerHasFile, Owning
  <2>5. HolderPidOnFile'
    BY <1>13, <2>2, <2>4 DEF WriteFails, HolderPidOnFile
  <2> QED BY <2>1, <2>3, <2>5, CloseKeeps
<1>14. ASSUME NEW p \in Procs, Release(p) PROVE FlockInv'
  <2>1. Close(p) BY <1>14 DEF Release
  <2>2. HolderPidOnFile'
    BY <1>14 DEF Release, Close, FlockInv, TypeOK, HolderPidOnFile
  <2>3. TypeOK'
    BY <1>14, <2>1, CloseKeeps DEF Release, FlockInv, TypeOK
  <2> QED BY <2>1, <2>2, <2>3, CloseKeeps DEF FlockInv
<1>15. CASE UNCHANGED vars
  BY <1>15 DEF vars, FlockInv, TypeOK, OpenHasInode, OwnerHasFile,
               NoOrphanedLock, HolderPidOnFile, Open, Owning
<1> QED
  BY <1>1, <1>2, <1>3, <1>4, <1>5, <1>6, <1>7, <1>8, <1>9, <1>10, <1>11,
     <1>12, <1>13, <1>14, <1>15 DEF Next, Acquire

\* FlockInv is an invariant of the specification.
LEMMA FlockInvariant == Spec => []FlockInv
BY FlockInit, FlockStep, PTL DEF Spec

\* Types: every variable of the lock keeps its type (lock.rs:12-56).
THEOREM TypeCorrect == Spec => []TypeOK
<1>1. FlockInv => TypeOK BY DEF FlockInv
<1> QED BY <1>1, FlockInvariant, PTL

\* No flock outlives the process that took it, however that process ends
\* (lock.rs:52-56 and the kernel's release on close).
THEOREM NeverOrphaned == Spec => []NoOrphanedLock
<1>1. FlockInv => NoOrphanedLock BY DEF FlockInv
<1> QED BY <1>1, FlockInvariant, PTL

\* The PID of the process in the locked region is in the file it locked, also
\* where the directory is removed under it (lock.rs:17-23, 43-46).
THEOREM PidStaysOnFile == Spec => []HolderPidOnFile
<1>1. FlockInv => HolderPidOnFile BY DEF FlockInv
<1> QED BY <1>1, FlockInvariant, PTL

-----------------------------------------------------------------------------
\* Where nothing removes the lock directory, an open lock file stays the one
\* the path names.
LEMMA OnPathInvariant == ASSUME ~DirRemoved PROVE Spec => []OnPath
<1>1. Init => OnPath
  BY DEF Init, OnPath, Open, Owning
<1>2. FlockInv /\ OnPath /\ [Next]_vars => OnPath'
  <2> SUFFICES ASSUME FlockInv, OnPath, [Next]_vars PROVE OnPath'
    OBVIOUS
  <2> USE RunLockAssumption DEF FlockInv, TypeOK
  <2>1. CASE ServiceStop
    BY <2>1 DEF ServiceStop, OnPath
  <2>2. ASSUME NEW p \in Procs, Start(p) \/ ServiceStart(p) \/ CreateDir(p) \/ OpenFails(p)
        PROVE OnPath'
    BY <2>2 DEF Start, ServiceStart, CreateDir, OpenFails, OnPath, Open, Owning
  <2>3. ASSUME NEW p \in Procs, OpenFile(p) PROVE OnPath'
    <3>1. CASE path # None
      BY <2>3, <3>1 DEF OpenFile, OnPath, Open, Owning
    <3>2. CASE path = None
      <4>1. \A q \in Procs : pc[q] \notin Open
        BY <3>2 DEF OnPath, OpenHasInode
      <4> QED BY <2>3, <3>2, <4>1 DEF OpenFile, OnPath, Open, Owning
    <3> QED BY <3>1, <3>2
  <2>4. ASSUME NEW p \in Procs,
               TryLock(p) \/ TryLockRefused(p) \/ Truncate(p) \/ WritePid(p)
        PROVE OnPath'
    BY <2>4 DEF TryLock, TryLockRefused, Truncate, WritePid, OnPath, Open, Owning
  <2>5. ASSUME NEW p \in Procs, Crash(p) \/ ReadHolder(p) \/ WriteFails(p) \/ Release(p)
        PROVE OnPath'
    <3>1. Close(p) /\ path' = path
      BY <2>5 DEF Crash, ReadHolder, WriteFails, Release
    <3> QED BY <3>1 DEF Close, OnPath, Open, Owning
  <2>6. CASE UNCHANGED vars
    BY <2>6 DEF vars, OnPath, Open, Owning
  <2> QED
    BY <2>1, <2>2, <2>3, <2>4, <2>5, <2>6 DEF Next, Acquire
<1> QED
  BY <1>1, <1>2, FlockInvariant, PTL DEF Spec

\* Two owners would own one inode, the one on the path.
LEMMA OneOwner == FlockInv /\ OnPath => MutualExclusion
BY DEF FlockInv, OwnerHasFile, OnPath, MutualExclusion, Mutators, Open

\* One mutating invocation at a time (README.md:97-99), for any number of
\* processes, as long as nothing removes the lock directory.
THEOREM Mutex == ASSUME ~DirRemoved PROVE Spec => []MutualExclusion
BY OneOwner, FlockInvariant, OnPathInvariant, PTL

-----------------------------------------------------------------------------
\* Every step that can give the lock to a process finds it free.
LEMMA RegionStep ==
  ASSUME FlockInv, OnPath, MutualExclusion, [Next]_vars
  PROVE  [Region!Next]_(Region!vars)
<1> USE RunLockAssumption DEF FlockInv, TypeOK
<1> DEFINE Same == Mutators' = Mutators
<1>0. Same => [Region!Next]_(Region!vars)
  BY DEF Region!vars
<1>1. CASE ServiceStop
  BY <1>0, <1>1 DEF ServiceStop, Mutators
<1>2. ASSUME NEW p \in Procs, Start(p) \/ ServiceStart(p) \/ CreateDir(p) \/ OpenFails(p)
      PROVE Same
  BY <1>2 DEF Start, ServiceStart, CreateDir, OpenFails, Mutators, Owning
<1>3. ASSUME NEW p \in Procs, OpenFile(p) PROVE Same
  BY <1>3 DEF OpenFile, Mutators, Owning
<1>4. ASSUME NEW p \in Procs, TryLockRefused(p) \/ Truncate(p) \/ WritePid(p) PROVE Same
  BY <1>4 DEF TryLockRefused, Truncate, WritePid, Mutators, Owning
<1>5. ASSUME NEW p \in Procs, TryLock(p) PROVE Region!Enter(p)
  <2>1. Mutators = {}
    <3> SUFFICES ASSUME NEW q \in Procs, pc[q] \in Owning PROVE FALSE
      BY DEF Mutators
    <3>1. fd[q] = fd[p] /\ owner[fd[q]] = q
      BY <1>5 DEF TryLock, OnPath, OwnerHasFile, Open
    <3> QED BY <1>5, <3>1 DEF TryLock
  <2>2. Mutators' = {p}
    BY <1>5, <2>1 DEF TryLock, Mutators, Owning
  <2> QED BY <2>1, <2>2 DEF Region!Enter
<1>6. ASSUME NEW p \in Procs, Crash(p) \/ ReadHolder(p) \/ WriteFails(p) \/ Release(p)
      PROVE Same \/ Region!Leave(p)
  <2>1. Close(p)
    BY <1>6 DEF Crash, ReadHolder, WriteFails, Release
  <2>2. Mutators' = Mutators \ {p}
    BY <2>1 DEF Close, Mutators, Owning
  <2> QED BY <2>2 DEF Region!Leave
<1>7. CASE UNCHANGED vars
  BY <1>0, <1>7 DEF vars, Mutators
<1>8. ASSUME NEW p \in Procs, Region!Enter(p) \/ Region!Leave(p)
      PROVE [Region!Next]_(Region!vars)
  BY <1>8 DEF Region!Next
<1> QED
  BY <1>0, <1>1, <1>2, <1>3, <1>4, <1>5, <1>6, <1>7, <1>8 DEF Next, Acquire

\* The file, the flock and the PID implement the one-run region (OneRun) that
\* main.rs:241-246 takes the guard for.
THEOREM Refinement == ASSUME ~DirRemoved PROVE Spec => ImplementsOneRun
<1>1. Init => Region!Init
  BY DEF Init, Region!Init, Mutators, Owning
<1> QED
  BY <1>1, RegionStep, OneOwner, FlockInvariant, OnPathInvariant, PTL
     DEF Spec, ImplementsOneRun, Region!Spec
=============================================================================
