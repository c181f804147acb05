----------------------------- MODULE PoolPromise -----------------------------
(***************************************************************************)
(* What the execution of one pool's work promises: snapshots first, then   *)
(* destroys, and no destroy at all once a snapshot or a snapshot hook of   *)
(* the pool has failed (README.md:139-140).                                *)
(***************************************************************************)
VARIABLES
  snapshots, \* the targets the plan wants taken, and
  prunes,    \* those it wants destroyed; neither changes
  made,     \* snapshots taken
  gone,     \* snapshots destroyed
  failed,   \* a snapshot or a snapshot hook has failed
  stage     \* "snapshot", "prune" or "done"

vars == <<snapshots, prunes, made, gone, failed, stage>>

Init == made = {} /\ gone = {} /\ failed = FALSE /\ stage = "snapshot"

Take(batch) ==
  /\ stage = "snapshot"
  /\ batch \subseteq snapshots \ made
  /\ made' = made \cup batch
  /\ UNCHANGED <<snapshots, prunes, gone, failed, stage>>

Fail ==
  /\ stage = "snapshot"
  /\ failed' = TRUE
  /\ UNCHANGED <<snapshots, prunes, made, gone, stage>>

BeginPrune ==
  /\ stage = "snapshot" /\ ~failed
  /\ stage' = "prune"
  /\ UNCHANGED <<snapshots, prunes, made, gone, failed>>

Destroy(batch) ==
  /\ stage = "prune"
  /\ batch \subseteq prunes \ gone
  /\ gone' = gone \cup batch
  /\ UNCHANGED <<snapshots, prunes, made, failed, stage>>

End ==
  /\ stage = "prune" \/ failed
  /\ stage' = "done"
  /\ UNCHANGED <<snapshots, prunes, made, gone, failed>>

Next ==
  \/ \E batch \in SUBSET snapshots : Take(batch)
  \/ \E batch \in SUBSET prunes : Destroy(batch)
  \/ Fail \/ BeginPrune \/ End

Spec == Init /\ [][Next]_vars
=============================================================================
