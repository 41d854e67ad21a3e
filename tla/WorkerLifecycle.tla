-------------------------- MODULE WorkerLifecycle --------------------------
(***************************************************************************)
(* What one account's lifecycle promises to its readers (pool, daemon,     *)
(* CLI): the state moves along the transition table, a new worker object   *)
(* starts over at disabled, online is entered only on evidence of the      *)
(* connection in use, and needs_validation is left towards business only   *)
(* by an operator.                                                         *)
(***************************************************************************)
EXTENDS WorkerState

VARIABLES
  state,    \* the lifecycle state readers see
  proven,   \* the current connection has shown its subscription-ready marker
  operator  \* an explicit validation recovery is in progress

lvars == <<state, proven, operator>>

Init == state = "disabled" /\ proven = FALSE /\ operator = FALSE

\* One validated change of state.
Move ==
  /\ state' \in AllowedFrom[state]
  /\ state' = "online" => proven /\ proven'
  /\ state = "needs_validation" => state' \in {"stopping", "disabled"} \/ operator
  /\ proven' \in BOOLEAN /\ operator' \in BOOLEAN

\* The worker object was replaced: stopped, dropped by the pool, or lost with
\* the process.
Replace ==
  /\ state' = "disabled"
  /\ proven' = FALSE /\ operator' = FALSE

\* Evidence and operator actions come and go.
Observe == state' = state /\ proven' \in BOOLEAN /\ operator' \in BOOLEAN

Next == Move \/ Replace \/ Observe

Spec == Init /\ [][Next]_lvars
=============================================================================
