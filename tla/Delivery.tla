------------------------------ MODULE Delivery ------------------------------
(***************************************************************************)
(* The end of an invocation: main tells the webhooks how the run went      *)
(* (src/notification.rs) after the lock is released, and exits.  Every     *)
(* webhook has its own retry loop; map_bounded works them off on a few     *)
(* threads, so their steps interleave (MapBounded shows each is worked on  *)
(* once, or none when no thread can be created).  A request may be         *)
(* accepted and its answer lost.                                           *)
(***************************************************************************)
EXTENDS Naturals, Sequences

CONSTANTS
  Webhooks,     \* config.webhooks
  MaxAttempts,  \* max_attempts
  Settings      \* the webhook settings a configuration may hold (see Setting)

Commands == {"run", "notify-test"}

\* What the endpoint makes of a request and the sender hears of it: "lost" is
\* accepted although the sender sees a timeout or a broken connection.
Answers == {"accepted", "lost", "transient", "permanent"}

\* is_retryable: a timeout, a network error, 408, 425, 429 and 5xx.
Retryable == {"lost", "transient"}

\* WebhookConfig, with `resolves` for the URL source holding a valid URL.
Setting == [enabled : BOOLEAN, events : SUBSET {"failure", "success"}, resolves : BOOLEAN]

ASSUME DeliveryAssumption == MaxAttempts \in Nat \ {0} /\ Settings \subseteq Setting

VARIABLES
  command,      \* the command of this invocation
  webhook,      \* config.webhooks by name
  failOnError,  \* notifications.fail_on_error
  result,       \* of run_zfs_command: "pending", "ok" or "failed"
  report,       \* of deliver: "pending", "none" (Err) or "some" (Ok)
  sender,       \* where deliver_one is: "queued", "sending", "backoff", "done"
  attempts,     \* delivery.attempts
  error,        \* delivery.error.is_some()
  answers,      \* what each endpoint answered, attempt by attempt (history)
  exit          \* of the process: "none", "ok" or "error"

config == <<command, webhook, failOnError>>
vars == <<config, result, report, sender, attempts, error, answers, exit>>

TypeOK ==
  /\ command \in Commands /\ webhook \in [Webhooks -> Setting] /\ failOnError \in BOOLEAN
  /\ result \in {"pending", "ok", "failed"}
  /\ report \in {"pending", "none", "some"}
  /\ sender \in [Webhooks -> {"queued", "sending", "backoff", "done"}]
  /\ attempts \in [Webhooks -> 0..MaxAttempts]
  /\ error \in [Webhooks -> BOOLEAN]
  /\ answers \in [Webhooks -> Seq(Answers)]
  /\ exit \in {"none", "ok", "error"}

\* A notify-test touches no ZFS.
Init ==
  /\ command \in Commands /\ webhook \in [Webhooks -> Settings] /\ failOnError \in BOOLEAN
  /\ result = IF command = "run" THEN "pending" ELSE "ok"
  /\ report = "pending"
  /\ sender = [w \in Webhooks |-> "queued"]
  /\ attempts = [w \in Webhooks |-> 0]
  /\ error = [w \in Webhooks |-> FALSE]
  /\ answers = [w \in Webhooks |-> <<>>]
  /\ exit = "none"

-----------------------------------------------------------------------------
\* A test goes to every webhook.
Subscribes(w) ==
  \/ command = "notify-test"
  \/ (IF result = "ok" THEN "success" ELSE "failure") \in webhook[w].events

Selected == {w \in Webhooks : webhook[w].enabled /\ Subscribes(w)}

\* run_zfs_command has returned, and with it the lock is gone.
RunEnds ==
  /\ result = "pending"
  /\ result' \in {"ok", "failed"}
  /\ UNCHANGED <<config, report, sender, attempts, error, answers, exit>>

\* deliver returns Err before any webhook is tried: webhooks.env is unreadable
\* or malformed, or not even the first thread could be created.
DeliverFails ==
  /\ result # "pending" /\ report = "pending"
  /\ \A w \in Webhooks : sender[w] = "queued"
  /\ report' = "none"
  /\ UNCHANGED <<config, result, sender, attempts, error, answers, exit>>

\* deliver_one: an unresolvable URL is the webhook's error, otherwise the
\* first attempt.
DeliverOne(w) ==
  /\ result # "pending" /\ report = "pending"
  /\ w \in Selected /\ sender[w] = "queued"
  /\ IF webhook[w].resolves
     THEN /\ sender' = [sender EXCEPT ![w] = "sending"]
          /\ attempts' = [attempts EXCEPT ![w] = 1]
          /\ UNCHANGED error
     ELSE /\ sender' = [sender EXCEPT ![w] = "done"]
          /\ error' = [error EXCEPT ![w] = TRUE]
          /\ UNCHANGED attempts
  /\ UNCHANGED <<config, result, report, answers, exit>>

\* send returns Ok, which is taken for the endpoint's acceptance: whether the
\* agent followed a redirect to it is not told apart.  deliver_one returns, with
\* delivery.error as an earlier attempt left it.
Sent(w) ==
  /\ sender[w] = "sending"
  /\ answers' = [answers EXCEPT ![w] = Append(@, "accepted")]
  /\ sender' = [sender EXCEPT ![w] = "done"]
  /\ UNCHANGED <<config, result, report, attempts, error, exit>>

\* Mutant: the error is noted only when there is a next attempt.
SendFailsSilently(w, answer) ==
  /\ sender[w] = "sending" /\ answer # "accepted"
  /\ answers' = [answers EXCEPT ![w] = Append(@, answer)]
  /\ LET retry == answer \in Retryable /\ attempts[w] < MaxAttempts
     IN /\ sender' = [sender EXCEPT ![w] = IF retry THEN "backoff" ELSE "done"]
        /\ error' = [error EXCEPT ![w] = retry]
  /\ UNCHANGED <<config, result, report, attempts, exit>>

\* Mutant: every error is retried.
SendFailsAndRetries(w, answer) ==
  /\ sender[w] = "sending" /\ answer # "accepted"
  /\ answers' = [answers EXCEPT ![w] = Append(@, answer)]
  /\ sender' = [sender EXCEPT ![w] = IF attempts[w] < MaxAttempts THEN "backoff" ELSE "done"]
  /\ error' = [error EXCEPT ![w] = TRUE]
  /\ UNCHANGED <<config, result, report, attempts, exit>>

\* send returns Err: note the error, and sleep before the next attempt if the
\* error is retryable and attempts are left.
SendFails(w, answer) ==
  /\ sender[w] = "sending" /\ answer # "accepted"
  /\ answers' = [answers EXCEPT ![w] = Append(@, answer)]
  /\ LET retry == answer \in Retryable /\ attempts[w] < MaxAttempts
     IN sender' = [sender EXCEPT ![w] = IF retry THEN "backoff" ELSE "done"]
  /\ error' = [error EXCEPT ![w] = TRUE]
  /\ UNCHANGED <<config, result, report, attempts, exit>>

\* The delay is over: the next attempt.
Retry(w) ==
  /\ sender[w] = "backoff"
  /\ attempts' = [attempts EXCEPT ![w] = @ + 1]
  /\ sender' = [sender EXCEPT ![w] = "sending"]
  /\ UNCHANGED <<config, result, report, error, answers, exit>>

\* Mutant: waits for the webhooks that were not selected, too.
CollectAll ==
  /\ result # "pending" /\ report = "pending"
  /\ \A w \in Webhooks : sender[w] = "done"
  /\ report' = "some"
  /\ UNCHANGED <<config, result, sender, attempts, error, answers, exit>>

\* deliver returns its report when every selected webhook is through.
Collect ==
  /\ result # "pending" /\ report = "pending"
  /\ \A w \in Selected : sender[w] = "done"
  /\ report' = "some"
  /\ UNCHANGED <<config, result, sender, attempts, error, answers, exit>>

Failed == {w \in Selected : error[w]}

\* Mutant: a failed delivery fails the run.
ExitMasked ==
  /\ report # "pending" /\ exit = "none"
  /\ exit' = IF result = "failed" \/ report = "none" \/ Failed # {} THEN "error" ELSE "ok"
  /\ UNCHANGED <<config, result, report, sender, attempts, error, answers>>

\* main of a mutating command and notify_test.
Exit ==
  /\ report # "pending" /\ exit = "none"
  /\ LET undelivered == report = "none" \/ Failed # {}
         fails == IF command = "run"
                  THEN result = "failed" \/ (failOnError /\ undelivered)
                  ELSE undelivered \/ Selected = {}
     IN exit' = IF fails THEN "error" ELSE "ok"
  /\ UNCHANGED <<config, result, report, sender, attempts, error, answers>>

Sender(w) == DeliverOne(w) \/ Sent(w) \/ Retry(w) \/ \E a \in Answers : SendFails(w, a)

Next == RunEnds \/ DeliverFails \/ Collect \/ Exit \/ \E w \in Webhooks : Sender(w)

Spec == Init /\ [][Next]_vars

\* The run ends, and an attempt ends: timeout_global bounds each one.
FairSpec == Spec /\ WF_vars(RunEnds) /\ WF_vars(Collect) /\ WF_vars(Exit)
                 /\ \A w \in Webhooks : WF_vars(Sender(w))

-----------------------------------------------------------------------------
(* Properties *)

Accepted(w) == {k \in 1..Len(answers[w]) : answers[w][k] \in {"accepted", "lost"}}

\* A request is repeated only after a transient error or a lost answer: an
\* endpoint never gets the message again once its acceptance or its permanent
\* refusal was heard (notification.rs:276-282).
OnlyLostIsRepeated ==
  \A w \in Webhooks : \A k \in 1..(Len(answers[w]) - 1) : answers[w][k] \in Retryable

\* deliver reports no success that was not one: a selected webhook without an
\* error has accepted the message (notification.rs:198-210, 276), as far as an
\* Ok of send says so.
NoFalseSuccess ==
  report = "some" => \A w \in Selected \ Failed : Accepted(w) # {}

\* Delivery does not mask the ZFS result unless fail_on_error is set, and a
\* failed run exits with an error whatever is delivered (README.md:477-478).
ZfsResultKept ==
  command = "run" /\ exit # "none" =>
    /\ result = "failed" => exit = "error"
    /\ result = "ok" /\ ~failOnError => exit = "ok"

\* The retry loops end and the process exits: max_attempts bounds them.
Exits == <>(exit # "none")

\* What a webhook has accepted, and said so, is not reported as a failed
\* delivery: "notification delivery attempt(s) failed" (main.rs:199-205), "Delivery
\* failures go to stderr" (README.md:477-478).
FailuresAreReal ==
  report = "some" => \A w \in Failed : ~\E k \in 1..Len(answers[w]) : answers[w][k] = "accepted"
=============================================================================
