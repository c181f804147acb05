----------------------------- MODULE HookRunner -----------------------------
(***************************************************************************)
(* run_hook (src/executor.rs): a worker starts a script, looks every 25 ms  *)
(* whether it has ended, and kills it once script_timeout is over.  The     *)
(* script ends when it likes, time passes when it likes, and a killed       *)
(* process dies a little later.  Only the process that was started is       *)
(* modelled: kill does not reach the children of a shell.                   *)
(***************************************************************************)
EXTENDS Naturals

CONSTANT Timeouts   \* values of script_timeout, in any unit; 0 means none

ASSUME HookRunnerAssumption == Timeouts \subseteq Nat

VARIABLES
  limit,    \* script_timeout; it never changes
  left,     \* time until the deadline
  runner,   \* where run_hook is: "idle", "poll", "check", "sleep", "wait", "returned"
  child,    \* the process: "none" (not started, or reaped), "running", "killed"
            \* (signalled, not dead yet), "zero" or "nonzero" (dead, not reaped)
  verdict   \* "none", "success", "failure" or "timeout"

hookVars == <<limit, left, runner, child, verdict>>

Returns(result) == runner' = "returned" /\ verdict' = result

HookInit ==
  /\ limit \in Timeouts
  /\ left = 0 /\ runner = "idle" /\ child = "none" /\ verdict = "none"

SpawnHook ==
  /\ runner = "idle"
  /\ runner' = "poll" /\ child' = "running" /\ left' = limit
  /\ UNCHANGED <<limit, verdict>>

SpawnHookFails ==
  /\ runner = "idle"
  /\ Returns("failure")
  /\ UNCHANGED <<limit, left, child>>

\* try_wait reaps a dead child.
TryWait ==
  /\ runner = "poll"
  /\ IF child = "running" THEN runner' = "check" /\ UNCHANGED <<child, verdict>>
     ELSE /\ Returns(IF child = "zero" THEN "success" ELSE "failure")
          /\ child' = "none"
  /\ UNCHANGED <<limit, left>>

\* The child is given up, running or not.
TryWaitFails ==
  /\ runner = "poll"
  /\ Returns("failure")
  /\ child' = "none"
  /\ UNCHANGED <<limit, left>>

\* Mutant: the signal is taken for the death of the child.
DeadlineReturns ==
  /\ runner = "check" /\ limit > 0 /\ left = 0
  /\ child' = IF child = "running" THEN "killed" ELSE child
  /\ Returns("timeout")
  /\ UNCHANGED <<limit, left>>

\* Mutant: the child is waited for without being killed.
DeadlineWaits ==
  /\ runner = "check" /\ limit > 0 /\ left = 0
  /\ runner' = "wait"
  /\ UNCHANGED <<limit, left, child, verdict>>

\* Past the deadline: kill, which does nothing to a dead child.
Deadline ==
  /\ runner = "check" /\ limit > 0 /\ left = 0
  /\ child' = IF child = "running" THEN "killed" ELSE child
  /\ runner' = "wait"
  /\ UNCHANGED <<limit, left, verdict>>

NotYet ==
  /\ runner = "check" /\ (limit > 0 => left > 0)
  /\ runner' = "sleep"
  /\ UNCHANGED <<limit, left, child, verdict>>

Wake ==
  /\ runner = "sleep"
  /\ runner' = "poll"
  /\ UNCHANGED <<limit, left, child, verdict>>

\* child.wait() blocks until the child is dead.
Wait ==
  /\ runner = "wait" /\ child \in {"zero", "nonzero"}
  /\ Returns("timeout")
  /\ child' = "none"
  /\ UNCHANGED <<limit, left>>

RunnerStep == SpawnHook \/ SpawnHookFails \/ TryWait \/ TryWaitFails \/ Deadline \/ NotYet
                \/ Wake \/ Wait

\* The script ends by itself.
ScriptEnds ==
  /\ child \in {"running", "killed"}
  /\ child' \in {"zero", "nonzero"}
  /\ UNCHANGED <<limit, left, runner, verdict>>

\* The kernel ends a killed process.
Dies ==
  /\ child = "killed"
  /\ child' = "nonzero"
  /\ UNCHANGED <<limit, left, runner, verdict>>

TimePasses ==
  /\ child # "none" /\ left > 0
  /\ left' = left - 1
  /\ UNCHANGED <<limit, runner, child, verdict>>

HookNext == RunnerStep \/ ScriptEnds \/ Dies \/ TimePasses

-----------------------------------------------------------------------------

\* A call that has not begun, or is over, has no process; the process of one
\* that is waiting has been signalled, and only past the deadline.
HookOK ==
  /\ limit \in Timeouts /\ left \in 0..limit
  /\ runner \in {"idle", "poll", "check", "sleep", "wait", "returned"}
  /\ runner \in {"idle", "returned"} => child = "none"
  /\ runner \in {"poll", "check", "sleep"} => child \in {"running", "zero", "nonzero"}
  /\ runner = "wait" => child \in {"killed", "zero", "nonzero"} /\ limit > 0 /\ left = 0
  /\ verdict \in (IF runner = "returned" THEN {"success", "failure", "timeout"} ELSE {"none"})
  /\ verdict = "timeout" => limit > 0 /\ left = 0
=============================================================================
