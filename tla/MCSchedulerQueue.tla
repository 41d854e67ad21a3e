-------------------------- MODULE MCSchedulerQueue --------------------------
(***************************************************************************)
(* Model-checking instance of SchedulerQueue: two processes, one work.     *)
(***************************************************************************)
EXTENDS SchedulerQueue
=============================================================================
