-------------------------------- MODULE MCSoak --------------------------------
(***************************************************************************)
(* Model-checking instance of Soak: all is well, or the daemon has died.   *)
(***************************************************************************)
EXTENDS Soak

Fine == [daemon |-> "online", status |-> "online", fresh |-> TRUE, enabled |-> TRUE,
         running |-> TRUE, error |-> FALSE, risk |-> FALSE, others |-> FALSE]
Dead == [Fine EXCEPT !.daemon = "down", !.fresh = FALSE]

MCWorlds == {Fine, Dead}
=============================================================================
