-------------------------- MODULE MCAccountWorker --------------------------
(***************************************************************************)
(* Model-checking instance of AccountWorker.  In a calm behaviour no       *)
(* database call fails, and the operator's and the pool's requests may     *)
(* overlap the worker's own tasks; in any other, calls may fail and        *)
(* requests wait their turn.                                               *)
(***************************************************************************)
EXTENDS AccountWorker

VARIABLE calm

Overlapping == VBegin \/ (r \in RActive /\ Start)

MCInit == Init /\ calm \in BOOLEAN

MCNext ==
  /\ Next /\ UNCHANGED calm
  /\ IF calm THEN UNCHANGED faults ELSE ~Overlapping

MCSpec == MCInit /\ [][MCNext]_<<vars, calm>> /\ Fairness
=============================================================================
