--------------------------- MODULE MCAccountPool ---------------------------
(***************************************************************************)
(* Model-checking instance of AccountPool: one account, its commands.  A   *)
(* start may meet an ending run task only before any database call has     *)
(* failed, and no call fails in the rest of that life of the daemon.       *)
(***************************************************************************)
EXTENDS AccountPool

MCNext == PoolNext /\ (met' => faults' = 0)

MCSpec == PoolInit /\ [][MCNext]_poolVars /\ PoolFairness
=============================================================================
