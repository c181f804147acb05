----------------------------- MODULE HookedPool -----------------------------
(***************************************************************************)
(* The worker of one pool with the processes of its hooks: wherever         *)
(* PoolExecutor runs a hook in one step, run_hook is called, and the step    *)
(* is taken with its result.                                               *)
(***************************************************************************)
EXTENDS PoolExecutor, HookRunner

\* The next step of the worker is a call of run_hook.
HookDue ==
  \/ todo # <<>> /\ at = "next" /\ Head(todo).kind = "hooked" /\ Head(todo).action.pre
  \/ todo # <<>> /\ at = "post" /\ PostDue
  \/ dels # <<>> /\ at = "prune" /\ Head(dels).kind = "hooked" /\ Head(dels).action.pre
  \/ at = "pruned"

RunHook ==
  /\ HookDue
  /\ RunnerStep
  /\ UNCHANGED vars

HookReturns ==
  /\ HookDue /\ runner = "returned"
  /\ Next
  /\ Last(hooks')[3] = (verdict = "success")
  /\ runner' = "idle" /\ verdict' = "none"
  /\ UNCHANGED <<limit, left, child>>

WorkerStep ==
  /\ ~HookDue
  /\ Next
  /\ UNCHANGED hookVars

Process == (ScriptEnds \/ Dies \/ TimePasses) /\ UNCHANGED vars

HookedInit == Init /\ HookInit

HookedNext == WorkerStep \/ RunHook \/ HookReturns \/ Process

\* The worker runs, time passes and the kernel ends what is killed; a script
\* without a timeout is trusted to end.
HookedSpec ==
  /\ HookedInit /\ [][HookedNext]_<<vars, hookVars>>
  /\ WF_<<vars, hookVars>>(WorkerStep \/ RunHook \/ HookReturns)
  /\ WF_<<vars, hookVars>>(Dies /\ UNCHANGED vars)
  /\ WF_<<vars, hookVars>>(TimePasses /\ UNCHANGED vars)
  /\ WF_<<vars, hookVars>>(limit = 0 /\ ScriptEnds /\ UNCHANGED vars)

-----------------------------------------------------------------------------
(* Properties *)

\* A ZFS command and the next script start only when the process of the last
\* script is gone, dead and reaped, however it ended: by itself before or after
\* the deadline was looked at, or killed (executor.rs:526-560).  A script that
\* zsnap could not wait for is the one exception; TryWaitFails gives it up.
OneProcessAtATime ==
  [][(commands' # commands \/ gone' # gone \/ hooks' # hooks \/ SpawnHook) => child = "none"]_
    <<vars, hookVars>>
=============================================================================
