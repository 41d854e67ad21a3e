------------------------------- MODULE MCOutbox -------------------------------
(***************************************************************************)
(* Model-checking instance of Outbox: each of two consumers can never      *)
(* handle one of the two oldest events, which fill a batch.                *)
(***************************************************************************)
EXTENDS Outbox

CONSTANTS ledger, notifier

MCConsumers == {ledger, notifier}
MCHandlers  == <<ledger, notifier>>
MCPoison    == {<<ledger, 1>>, <<notifier, 2>>}
=============================================================================
