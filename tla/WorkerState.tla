---------------------------- MODULE WorkerState ----------------------------
(***************************************************************************)
(* domain/runtime/worker_state.py: the canonical states of one account     *)
(* worker, the transition table every state change is validated against,   *)
(* and the reading of a persisted worker_status row.  Constant level only. *)
(***************************************************************************)

\* ALLOWED_TRANSITIONS: the states a worker may move to; a self-transition is
\* accepted by CanTransition and is not listed.
AllowedFrom == [
  disabled              |-> {"starting"},
  starting              |-> {"checking_session", "needs_validation", "stopping", "error"},
  checking_session      |-> {"refreshing_credential", "connecting", "needs_validation",
                             "stopping", "error"},
  refreshing_credential |-> {"checking_session", "needs_validation", "stopping", "error"},
  connecting            |-> {"registering", "reconnecting", "needs_validation", "stopping",
                             "error"},
  registering           |-> {"syncing", "reconnecting", "needs_validation", "stopping", "error"},
  syncing               |-> {"online", "reconnecting", "needs_validation", "stopping", "error"},
  online                |-> {"reconnecting", "needs_validation", "stopping", "error"},
  reconnecting          |-> {"checking_session", "refreshing_credential", "connecting",
                             "needs_validation", "stopping", "error"},
  needs_validation      |-> {"checking_session", "stopping", "disabled", "error"},
  stopping              |-> {"disabled", "error"},
  error                 |-> {"starting", "stopping", "disabled"}]

States == DOMAIN AllowedFrom

\* can_transition / transition_worker_state: what the validation lets through.
CanTransition(current, target) == current = target \/ target \in AllowedFrom[current]

\* The two status strings other writers of worker_status leave behind.
LegacyStatus == {"offline", "risk_cooling"}

\* worker_state_from_persistence: the durable risk flag outranks the status.
FromPersistence(status, riskRequired) ==
  IF riskRequired \/ status = "risk_cooling" THEN "needs_validation"
  ELSE IF status = "offline" THEN "disabled" ELSE status
=============================================================================
