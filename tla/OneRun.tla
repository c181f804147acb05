------------------------------- MODULE OneRun -------------------------------
(***************************************************************************)
(* What the run lock promises to its callers, without the file it is kept  *)
(* in: at most one zsnap process at a time is inside the region that       *)
(* discovers, plans and changes ZFS state (main.rs, run_zfs_command).      *)
(***************************************************************************)
CONSTANT Procs      \* the zsnap processes

VARIABLE mutators   \* the processes inside the locked region

vars == <<mutators>>

Init == mutators = {}

\* RunLock::acquire returns Ok.
Enter(p) ==
  /\ mutators = {}
  /\ mutators' = {p}

\* The guard is dropped, or the process dies.
Leave(p) ==
  /\ p \in mutators
  /\ mutators' = mutators \ {p}

Next == \E p \in Procs : Enter(p) \/ Leave(p)

Spec == Init /\ [][Next]_vars
=============================================================================
