------------------------------ MODULE Recovery ------------------------------
(***************************************************************************)
(* runtime/recovery.py: what a recovery observation asks of the worker.    *)
(* The worker gives a credential operation's result and the route it took, *)
(* and gets the state to converge toward.  Constant level only; delays and *)
(* the codes that go into the logs are left out.                           *)
(***************************************************************************)

\* CredentialRecoveryRoute, without "none".
Routes == {"ensure", "refresh", "validation_refresh"}

\* CredentialResultState, an exception of the supervisor included.
Results == {"success", "retryable_failure", "needs_validation", "terminal_failure",
            "exception"}

\* decide_for_credential_result and recover_credential.
CauseOf == [success           |-> "recovery_succeeded",
            retryable_failure |-> "credential_transient_failure",
            needs_validation  |-> "needs_validation",
            terminal_failure  |-> "terminal_failure",
            exception         |-> "internal_failure"]

\* The state in which a retryable operation waits for its next attempt.
RetryStateFor == [ensure             |-> "checking_session",
                  refresh            |-> "refreshing_credential",
                  validation_refresh |-> "needs_validation"]

\* The state from which a successful operation lets the worker go on.
SuccessStateFor == [ensure             |-> "connecting",
                    refresh            |-> "checking_session",
                    validation_refresh |-> "checking_session"]

\* decide, for the causes the worker observes.
Decide(cause, route) ==
  CASE cause = "transport_failure"                        -> "reconnecting"
    [] cause = "needs_validation"                         -> "needs_validation"
    [] cause \in {"terminal_failure", "internal_failure"} -> "error"
    [] cause = "credential_transient_failure"             -> RetryStateFor[route]
    [] cause = "recovery_succeeded"                       -> SuccessStateFor[route]

\* The state a worker converges toward after this result.
StateAfter(result, route) == Decide(CauseOf[result], route)
=============================================================================
