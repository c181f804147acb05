------------------------------- MODULE MapOnce -------------------------------
(***************************************************************************)
(* What map_bounded promises its callers (the pool executor and the        *)
(* webhook delivery), without threads: every item is worked on at most     *)
(* once; Ok means every item was, Err means none was, and a panic of the   *)
(* work ends the call with a panic, now or later.                          *)
(***************************************************************************)
CONSTANT Items

VARIABLES
  applied,   \* the items the work has been started on
  crashed,   \* the work has panicked on one of them
  outcome    \* "pending", then "ok", "err" or "panic"

vars == <<applied, crashed, outcome>>

\* A call with nothing to do is over at once.
Init ==
  /\ applied = {} /\ crashed = FALSE
  /\ outcome = IF Items = {} THEN "ok" ELSE "pending"

Apply(i) ==
  /\ outcome = "pending" /\ i \notin applied
  /\ applied' = applied \cup {i}
  /\ UNCHANGED <<crashed, outcome>>

Panic ==
  /\ outcome = "pending" /\ applied # {}
  /\ crashed' = TRUE
  /\ outcome' \in {"pending", "panic"}
  /\ UNCHANGED applied

Decide ==
  /\ outcome = "pending"
  /\ \/ outcome' = "ok" /\ applied = Items /\ ~crashed
     \/ outcome' = "err" /\ applied = {}
     \/ outcome' = "panic" /\ crashed
  /\ UNCHANGED <<applied, crashed>>

Next == Panic \/ Decide \/ \E i \in Items : Apply(i)

Spec == Init /\ [][Next]_vars
=============================================================================
