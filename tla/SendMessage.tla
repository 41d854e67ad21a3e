---------------------------- MODULE SendMessage -----------------------------
(***************************************************************************)
(* One outbound text from the request to its classification:               *)
(* application/message/send_service.py over protocol/ws/message_send.py,   *)
(* request_router.py and infrastructure/message.  An attempt is written at *)
(* most once and is never repeated by itself; what the caller is told has  *)
(* to be true of what the platform did.                                    *)
(*                                                                         *)
(* The connection, its router and the platform are environment: requests   *)
(* may be lost, refused, or answered late or without a status.  WsSession  *)
(* composes this module with the client that owns the connection.          *)
(***************************************************************************)
EXTENDS Naturals

CONSTANTS
  Attempts,
  MaxFaults    \* bound: database calls that fail, and requests refused or answered oddly

VARIABLES
  step,      \* per attempt, where send_text is
  result,    \* per attempt, the status it has so far
  audit,     \* per attempt, the rows of the attempt recorder
  future,    \* per attempt, the waiter in the connection's router
  ready,     \* the session accepts business requests
  open,      \* its socket is open
  answers,   \* responses on their way to the client
  reached,   \* history: attempts whose request the platform has received
  verdict,   \* history: what the platform made of them
  faults

sendVars == <<step, result, audit, future, ready, open, answers, reached, verdict, faults>>

Finals   == {"SUCCESS", "FAILED_RETRYABLE", "FAILED_FINAL", "UNCERTAIN", "RECONCILIATION_REQUIRED"}
Verdicts == {"accepted", "refused", "unclear"}

At(a, s)      == step[a] = s
Goes(a, s)    == step' = [step EXCEPT ![a] = s]
Results(a, r) == result' = [result EXCEPT ![a] = r]

\* The environment and the records an action of send_text leaves alone.
KeepsWire  == UNCHANGED <<ready, open, answers, reached, verdict>>
KeepsBooks == UNCHANGED <<audit, faults>>

Fault == faults < MaxFaults /\ faults' = faults + 1

-----------------------------------------------------------------------------
(* send_text.                                                              *)

\* Nothing has been written: the send ends with this status.
PreflightFailure(a, status) ==
  Fault /\ Goes(a, "over") /\ Results(a, status) /\ UNCHANGED audit

\* The receiver is looked up, which may fail or find nobody.
Receiver(a) ==
  /\ At(a, "idle")
  /\ \/ Goes(a, "attempt") /\ UNCHANGED result /\ KeepsBooks
     \/ \E status \in {"FAILED_RETRYABLE", "FAILED_FINAL"} : PreflightFailure(a, status)
  /\ UNCHANGED future /\ KeepsWire

\* The attempt is recorded before anything is written.
RecordAttempt(a) ==
  /\ At(a, "attempt")
  /\ \/ /\ Goes(a, "send") /\ audit' = [audit EXCEPT ![a].begun = TRUE]
        /\ UNCHANGED <<result, faults>>
     \/ PreflightFailure(a, "FAILED_RETRYABLE")
  /\ UNCHANGED future /\ KeepsWire

\* Slip: a failed write counts as not sent.
FailedWriteUnsent == "FAILED_RETRYABLE"

\* The socket failed while it closed: nobody knows what went out.
FailedWrite == "UNCERTAIN"

\* _require_protocol_context.
Connected == ready

\* The waiter is registered, and the request is written or fails to be.
Request(a) ==
  \/ /\ open /\ Goes(a, "wait") /\ UNCHANGED result
     /\ future' = [future EXCEPT ![a] = "open"] /\ reached' = reached \cup {a}
  \/ /\ ~open /\ Goes(a, "terminal") /\ Results(a, FailedWrite)
     /\ UNCHANGED future /\ reached' \in {reached, reached \cup {a}}

\* WsClientMessageProtocol.send_text_message.
Write(a) ==
  /\ At(a, "send")
  /\ \/ Connected /\ Request(a)
     \/ /\ ~Connected
        /\ Goes(a, "terminal") /\ Results(a, "FAILED_RETRYABLE") /\ UNCHANGED <<future, reached>>
  /\ UNCHANGED <<ready, open, answers, verdict>> /\ KeepsBooks

\* The status of a matched response.
Classify(v) ==
  CASE v = "accepted" -> "SUCCESS" [] v = "refused" -> "FAILED_FINAL" [] OTHER -> "UNCERTAIN"

\* The waiter wakes with the response.
Answered(a) ==
  /\ At(a, "wait") /\ future[a] = "set"
  /\ Results(a, Classify(verdict[a]))
  /\ Goes(a, IF Classify(verdict[a]) = "SUCCESS" THEN "persist" ELSE "terminal")
  /\ UNCHANGED future /\ KeepsWire /\ KeepsBooks

\* The router was closed, or the time is up, perhaps just as the response came.
GivesUp(a) ==
  /\ At(a, "wait")
  /\ Results(a, "UNCERTAIN") /\ Goes(a, "terminal")
  /\ future' = [future EXCEPT ![a] = IF @ = "open" THEN "cancelled" ELSE @]
  /\ KeepsWire /\ KeepsBooks

\* _persist_confirmed_outbound: without it the conversation lacks a message that
\* was sent.
Persist(a) ==
  /\ At(a, "persist") /\ Goes(a, "terminal")
  /\ \/ UNCHANGED <<result, faults>>
     \/ Fault /\ Results(a, "RECONCILIATION_REQUIRED")
  /\ UNCHANGED <<audit, future>> /\ KeepsWire

\* A success that cannot be recorded has to be reconciled.
Unrecorded(r) == IF r = "SUCCESS" THEN "RECONCILIATION_REQUIRED" ELSE r

\* _record_terminal.
Conclude(a) ==
  /\ At(a, "terminal") /\ Goes(a, "over")
  /\ \/ audit' = [audit EXCEPT ![a].result = result[a]] /\ UNCHANGED <<result, faults>>
     \/ Fault /\ UNCHANGED audit /\ Results(a, Unrecorded(result[a]))
  /\ UNCHANGED future /\ KeepsWire

Send(a) ==
  \/ Receiver(a) \/ RecordAttempt(a) \/ Write(a) \/ Answered(a) \/ GivesUp(a)
  \/ Persist(a) \/ Conclude(a)

-----------------------------------------------------------------------------
(* The environment.                                                        *)

KeepsSend == UNCHANGED <<step, result, audit>>

\* The platform handles a request it has received, and answers it.
Respond(a, v) ==
  /\ a \in reached /\ verdict[a] = "none" /\ open
  /\ verdict' = [verdict EXCEPT ![a] = v] /\ answers' = answers \cup {a}
  /\ IF v = "accepted" THEN UNCHANGED faults ELSE Fault
  /\ KeepsSend /\ UNCHANGED <<future, ready, open, reached>>

\* match_frame: a response that nobody waits for any more is dropped.
Match(a) ==
  /\ a \in answers /\ answers' = answers \ {a}
  /\ future' = [future EXCEPT ![a] = IF @ = "open" THEN "set" ELSE @]
  /\ KeepsSend /\ UNCHANGED <<ready, open, reached, verdict, faults>>

\* A new connection, not ready yet.
Open ==
  /\ ~open /\ ~ready /\ open' = TRUE
  /\ KeepsSend /\ UNCHANGED <<future, ready, answers, reached, verdict, faults>>

Ready ==
  /\ ~ready /\ ready' = TRUE
  /\ KeepsSend /\ UNCHANGED <<future, open, answers, reached, verdict, faults>>

\* The socket closes before the client has noticed.
Closes ==
  /\ open /\ open' = FALSE
  /\ KeepsSend /\ UNCHANGED <<future, ready, answers, reached, verdict, faults>>

\* The session ends: its router cancels the waiters, its frames are gone.
Teardown ==
  /\ open' = FALSE /\ ready' = FALSE /\ answers' = {}
  /\ future' = [a \in Attempts |-> IF future[a] = "open" THEN "cancelled" ELSE future[a]]
  /\ KeepsSend /\ UNCHANGED <<reached, verdict, faults>>

Environment ==
  \/ \E a \in Attempts : Match(a) \/ \E v \in Verdicts : Respond(a, v)
  \/ Open \/ Ready \/ Closes \/ Teardown

SendInit ==
  /\ step = [a \in Attempts |-> "idle"] /\ result = [a \in Attempts |-> "none"]
  /\ audit = [a \in Attempts |-> [begun |-> FALSE, result |-> "none"]]
  /\ future = [a \in Attempts |-> "none"] /\ ready = FALSE /\ open = FALSE /\ answers = {}
  /\ reached = {} /\ verdict = [a \in Attempts |-> "none"] /\ faults = 0

SendNext == Environment \/ \E a \in Attempts : Send(a)

SendSpec == SendInit /\ [][SendNext]_sendVars

-----------------------------------------------------------------------------
\* What the caller is told is true: it may retry only what the platform never
\* received, a refusal is the platform's own, and a success is one it accepted.
OutcomeIsTrue ==
  \A a \in Attempts :
    /\ result[a] = "FAILED_RETRYABLE" => a \notin reached
    /\ result[a] = "FAILED_FINAL" => a \notin reached \/ verdict[a] = "refused"
    /\ result[a] \in {"SUCCESS", "RECONCILIATION_REQUIRED"} => verdict[a] = "accepted"

\* Whatever reaches the platform was announced in the audit log first, and a
\* success that is reported has its result there as well.
EvidenceIsKept ==
  \A a \in Attempts :
    /\ a \in reached => audit[a].begun
    /\ At(a, "over") /\ result[a] = "SUCCESS" => audit[a].result = "SUCCESS"
=============================================================================
