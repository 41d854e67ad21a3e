------------------------------- MODULE Replies -------------------------------
(***************************************************************************)
(* Conversations of one account: the worker's handling of a buyer's        *)
(* message (_on_event of runtime/account_worker.py, services/guardrails.py,*)
(* services/reply_engine.py in mode "rule", domain/message/rules.py) and   *)
(* the history of what the account has sent (domain/message/messages.py,   *)
(* infrastructure/message/message_store.py).                               *)
(*                                                                         *)
(* A worker handles its events one at a time; stopped past its deadline it *)
(* leaves the one it is handling to go on beside the next worker.          *)
(* `message send` runs a worker of its own, whose events are handled       *)
(* beside the command.  Rule commands and a deletion of the account come   *)
(* from other processes.  Every SELECT and every transaction is a step;    *)
(* of a send there are only the write and the outcome (see SendMessage).   *)
(***************************************************************************)
EXTENDS Naturals, Sequences, FiniteSets

CONSTANTS
  Msgs,        \* the buyers' messages
  Nameless,    \* those the platform gives no id
  Rules,       \* ordered as (priority, id)
  Own,         \* the rules of the account; the others are global
  Made,        \* the rules there are from the start
  Matches,     \* pairs <<rule, message>> that rule_matches accepts
  Workers,
  CliWorker,   \* the worker of `message send`
  Cli,         \* the command itself
  Nobody, NoRule,
  MaxPerHour,  \* guardrail_max_msg_per_hour
  MaxTries,    \* bound: texts handed to a connection
  MaxRows,     \* bound: rows of inbound messages
  MaxCopies,   \* bound: rows of one outbound text
  MaxChanges   \* bound: rule commands, deaths, and a deletion of the account

ASSUME RepliesAssumption ==
  /\ Rules \subseteq Nat /\ IsFiniteSet(Rules) /\ Own \subseteq Rules /\ Made \subseteq Rules /\ NoRule \notin Rules
  /\ Nameless \subseteq Msgs /\ Matches \subseteq Rules \X Msgs
  /\ CliWorker \in Workers /\ Cli \notin Workers /\ Nobody \notin Workers
  /\ MaxPerHour \in Nat \ {0}
  /\ MaxTries \in Nat /\ MaxRows \in Nat /\ MaxCopies \in Nat /\ MaxChanges \in Nat

VARIABLES
  live,      \* the account exists
  rule,      \* reply_rules: absent, on (enabled), off or gone
  hits,      \* hit_count
  inbound,   \* the messages of the inbound rows
  recent,    \* the inbound rows whose received_at is within the last hour
  out,       \* per try, its outbound rows: sparse or full by its id, or bare without one
  logs,      \* per try, its row in reply_logs: none, ok or failed
  job,       \* what each worker and the command are in the middle of
  conn,      \* who has the account's connection
  tries,     \* history: texts handed to a connection, by the rule they are for
  went,      \* history: those that went out
  told,      \* history: those whose acknowledgement was recorded
  pushed,    \* history: those of which a push with their id was recorded
  admitted,  \* history: the inbound rows whose message has passed the gate
  forgot,    \* history: tries whose process died before it could log them
  changes

mail    == <<inbound, recent>>
tables  == <<live, rule, hits, mail, out, logs>>
sent    == <<tries, went, told, pushed>>
history == <<sent, admitted, forgot>>
vars == <<tables, job, conn, history, changes>>

Idle       == [pc |-> "idle"]
Tries      == 1 .. MaxTries
Procs      == Workers \cup {Cli}
At(p, pc)  == job[p].pc = pc
Goes(p, j) == job' = [job EXCEPT ![p] = j]

-----------------------------------------------------------------------------
(* _on_event for a MessageReceived: upsert_inbound and check_message.      *)

\* A frame is decoded; its turn may come much later.
Receive(w, m) ==
  /\ At(w, "idle") /\ conn = w
  /\ Goes(w, [pc |-> "find", m |-> m])
  /\ UNCHANGED <<tables, conn, history, changes>>

RowsOf(m) == {k \in DOMAIN inbound : inbound[k] = m}

\* A message with an id is found again; without the account nothing is kept.
FindInbound(w) ==
  /\ At(w, "find")
  /\ LET m == job[w].m  known == m \notin Nameless /\ RowsOf(m) # {} IN
     Goes(w, IF ~live THEN [pc |-> "gate", m |-> m, k |-> 0]
             ELSE IF known THEN [pc |-> "gate", m |-> m, k |-> CHOOSE k \in RowsOf(m) : TRUE]
             ELSE [pc |-> "insert", m |-> m])
  /\ UNCHANGED <<tables, conn, history, changes>>

\* A row of the same id by now, or no account: the event fails, unanswered.
InsertInbound(w) ==
  /\ At(w, "insert")
  /\ LET m == job[w].m IN
     IF live /\ (m \in Nameless \/ RowsOf(m) = {})
     THEN /\ Len(inbound) < MaxRows
          /\ LET k == Len(inbound) + 1 IN
             /\ inbound' = Append(inbound, m) /\ recent' \in {recent, recent \cup {k}}
             /\ Goes(w, [pc |-> "gate", m |-> m, k |-> k])
     ELSE Goes(w, Idle) /\ UNCHANGED mail
  /\ UNCHANGED <<live, rule, hits, out, logs, conn, history, changes>>

\* Slip: the message at hand is taken for one of those allowed.
WithinRateInclusive == Cardinality(recent) <= MaxPerHour

WithinRate == Cardinality(recent) < MaxPerHour

\* check_message; in quiet hours it blocks whatever the rate.
Gate(w) ==
  /\ At(w, "gate")
  /\ \/ WithinRate /\ Goes(w, [pc |-> "match", m |-> job[w].m])
        /\ admitted' = admitted \cup ({job[w].k} \cap DOMAIN inbound)
     \/ Goes(w, Idle) /\ UNCHANGED admitted
  /\ UNCHANGED <<tables, conn, sent, forgot, changes>>

-----------------------------------------------------------------------------
(* ReplyEngine.handle.                                                     *)

Accepting(m) == {r \in Rules : rule[r] = "on" /\ <<r, m>> \in Matches}

\* match_for_account, of which handle takes the first.
Match(w) ==
  /\ At(w, "match")
  /\ LET S == IF live THEN Accepting(job[w].m) ELSE {} IN
     \/ S = {} /\ Goes(w, Idle)
     \/ \E r \in S : (\A q \in S : r <= q) /\ Goes(w, [pc |-> "hit", r |-> r])
  /\ UNCHANGED <<tables, conn, history, changes>>

\* record_hit reads the count of a rule that may be gone ...
ReadHits(w) ==
  /\ At(w, "hit")
  /\ LET r == job[w].r IN
     Goes(w, IF rule[r] = "gone" THEN [pc |-> "send", r |-> r]
             ELSE [pc |-> "count", r |-> r, n |-> hits[r] + 1])
  /\ UNCHANGED <<tables, conn, history, changes>>

\* Slip: the hit is counted in memory and never committed.
CountedUncommitted(r, n) == hits

\* The count that the row is left with.
Counted(r, n) == [hits EXCEPT ![r] = n]

\* ... and writes what it has computed; an UPDATE of no row fails the event.
WriteHits(w) ==
  /\ At(w, "count")
  /\ LET r == job[w].r IN
     IF rule[r] = "gone" THEN Goes(w, Idle) /\ UNCHANGED hits
     ELSE hits' = Counted(r, job[w].n) /\ Goes(w, [pc |-> "send", r |-> r])
  /\ UNCHANGED <<live, rule, mail, out, logs, conn, history, changes>>

\* Whose connection a text goes over.
Line(p) == IF p = Cli THEN CliWorker ELSE p

\* After the outcome: a worker logs it, the command disconnects.
After(p, i, res) == IF p = Cli THEN [pc |-> "close"] ELSE [pc |-> "log", i |-> i, res |-> res]

\* resolve_receiver and the write, which may have gone out.  Without an account
\* there is no receiver.
Send(p) ==
  /\ At(p, "send") /\ Len(tries) < MaxTries /\ tries' = Append(tries, job[p].r)
  /\ LET i == Len(tries) + 1 IN
     \/ /\ live /\ conn = Line(p) /\ Goes(p, [pc |-> "wait", i |-> i])
        /\ went' \in {went, went \cup {i}}
     \/ Goes(p, After(p, i, "failed")) /\ UNCHANGED went
  /\ UNCHANGED <<tables, conn, told, pushed, admitted, forgot, changes>>

\* Slip: whatever was sent without an error counts as delivered.
UncertainAsSuccess(p) == After(p, job[p].i, "ok")

\* No answer, or one that says nothing.
Uncertain(p) == After(p, job[p].i, "failed")

\* The outcome: a platform id to record, a success without one, or neither.
Answer(p) ==
  /\ At(p, "wait")
  /\ LET i == job[p].i IN
     \/ i \in went /\ Goes(p, [pc |-> "keep", i |-> i, of |-> "ack"])
     \/ i \in went /\ Goes(p, After(p, i, "ok"))
     \/ Goes(p, Uncertain(p))
  /\ UNCHANGED <<tables, conn, history, changes>>

\* Slip: a reply that failed leaves no trace.
LoggedIfSent(i, res) == IF res = "ok" THEN [logs EXCEPT ![i] = res] ELSE logs

Logged(i, res) == [logs EXCEPT ![i] = res]

\* record_reply_log.  The row refers to the account, which it looks for, and to
\* the rule, whose deletion fails the INSERT and with it the event.
Log(w) ==
  /\ At(w, "log") /\ Goes(w, Idle)
  /\ LET i == job[w].i IN
     logs' = IF live /\ rule[tries[i]] # "gone" THEN Logged(i, job[w].res) ELSE logs
  /\ UNCHANGED <<live, rule, hits, mail, out, conn, history, changes>>

-----------------------------------------------------------------------------
(* record_outbound, for an acknowledgement and for a push of the platform. *)

\* _on_event for a MessageSent: what the account sent comes back to it, and the
\* frame may say no id (_parse_message, _extract_message_id).
ReceivePush(w, i, of) ==
  /\ At(w, "idle") /\ conn = w /\ i \in went
  /\ Goes(w, [pc |-> "keep", i |-> i, of |-> of])
  /\ UNCHANGED <<tables, conn, history, changes>>

\* The rows that the text's id finds.
Keyed(i) == {k \in DOMAIN out[i] : out[i][k] # "bare"}

\* Slip: the row that is there stays as it is.
MergedNever(row, of) == row

\* _merge_outbound_metadata: a push has what an acknowledgement lacks.
Merged(row, of) == IF of = "push" THEN "full" ELSE row

Merge(i, of) ==
  out' = [out EXCEPT ![i] = [k \in DOMAIN @ |-> IF k \in Keyed(i) THEN Merged(@[k], of) ELSE @[k]]]

Fresh(of) == CASE of = "push" -> "full" [] of = "ack" -> "sparse" [] of = "bare push" -> "bare"

\* Only what has an id is looked for, and only an id can be in the table already.
Known(i, of) == of # "bare push" /\ Keyed(i) # {}

\* record_outbound raises: a push is over then, and an acknowledgement that
\* could not be recorded is no success (_persist_confirmed_outbound).
NotRecorded(p) ==
  /\ Goes(p, IF job[p].of = "ack" THEN After(p, job[p].i, "failed") ELSE Idle)
  /\ UNCHANGED <<out, told, pushed>>

\* It has committed the row.
Recorded(p) ==
  LET i == job[p].i  of == job[p].of IN
  /\ told' = IF of = "ack" THEN told \cup {i} ELSE told
  /\ pushed' = IF of = "push" THEN pushed \cup {i} ELSE pushed
  /\ Goes(p, IF of = "ack" THEN After(p, i, "ok") ELSE Idle)

FindOutbound(p) ==
  /\ At(p, "keep")
  /\ LET i == job[p].i  of == job[p].of IN
     \/ ~live /\ NotRecorded(p)
     \/ live /\ Known(i, of) /\ Merge(i, of) /\ Recorded(p)
     \/ /\ live /\ ~Known(i, of) /\ Goes(p, [pc |-> "add", i |-> i, of |-> of])
        /\ UNCHANGED <<out, told, pushed>>
  /\ UNCHANGED <<live, rule, hits, mail, logs, conn, tries, went, admitted, forgot, changes>>

\* The INSERT; the row of somebody who was faster is merged instead.
AddOutbound(p) ==
  /\ At(p, "add")
  /\ LET i == job[p].i  of == job[p].of IN
     \/ ~live /\ NotRecorded(p)
     \/ live /\ Known(i, of) /\ Merge(i, of) /\ Recorded(p)
     \/ /\ live /\ ~Known(i, of) /\ Len(out[i]) < MaxCopies
        /\ out' = [out EXCEPT ![i] = Append(@, Fresh(of))] /\ Recorded(p)
  /\ UNCHANGED <<live, rule, hits, mail, logs, conn, tries, went, admitted, forgot, changes>>

-----------------------------------------------------------------------------
(* Workers, the command, the operator and the clock.                       *)

\* A worker of the daemon gets the connection, or `message send` does.
Connect(w) ==
  /\ conn = Nobody /\ conn' = w
  /\ IF w = CliWorker THEN At(Cli, "idle") /\ Goes(Cli, [pc |-> "send", r |-> NoRule]) ELSE UNCHANGED job
  /\ UNCHANGED <<tables, history, changes>>

\* A stop whose deadline passes leaves the event it is handling behind.
Stop(w) ==
  /\ conn = w /\ conn' = Nobody
  /\ UNCHANGED <<tables, job, history, changes>>

\* p is to log the outcome of this try.
Holds(p, i) ==
  /\ At(p, "wait") \/ At(p, "log") \/ ((At(p, "keep") \/ At(p, "add")) /\ job[p].of = "ack")
  /\ job[p].i = i

\* A process ends, with what it was in the middle of.
Ends(w) ==
  LET dead == IF w = CliWorker THEN {w, Cli} ELSE {w} IN
  /\ job' = [p \in Procs |-> IF p \in dead THEN Idle ELSE job[p]]
  /\ forgot' = forgot \cup {i \in DOMAIN tries : \E p \in dead : Holds(p, i)}
  /\ conn' = IF conn = w THEN Nobody ELSE conn
  /\ UNCHANGED <<tables, sent, admitted>>

\* The command has its outcome, stops its worker and ends.
Close == At(Cli, "close") /\ Ends(CliWorker) /\ UNCHANGED changes

Change == changes < MaxChanges /\ changes' = changes + 1

Die(w) == Change /\ Ends(w)

\* `rule add`, which looks for the account, enable, disable and delete.
SetRule(r, from, to) ==
  /\ Change /\ rule[r] \in from /\ rule' = [rule EXCEPT ![r] = to]
  /\ UNCHANGED <<live, hits, mail, out, logs, job, conn, history>>

RuleCommand(r) ==
  \/ (r \in Own => live) /\ SetRule(r, {"absent"}, "on")
  \/ SetRule(r, {"on"}, "off") \/ SetRule(r, {"off"}, "on") \/ SetRule(r, {"on", "off"}, "gone")

\* The rows of the account go with it.
DeleteAccount ==
  /\ live /\ Change /\ live' = FALSE
  /\ rule' = [r \in Rules |-> IF r \in Own /\ rule[r] # "absent" THEN "gone" ELSE rule[r]]
  /\ inbound' = <<>> /\ recent' = {} /\ out' = [i \in Tries |-> <<>>]
  /\ logs' = [i \in Tries |-> "none"]
  /\ admitted' = {} /\ UNCHANGED <<hits, job, conn, sent, forgot>>

\* The hour after a message has passed.
Age(k) ==
  /\ k \in recent /\ recent' = recent \ {k}
  /\ UNCHANGED <<live, rule, hits, inbound, out, logs, job, conn, history, changes>>

Init ==
  /\ live = TRUE /\ rule = [r \in Rules |-> IF r \in Made THEN "on" ELSE "absent"]
  /\ hits = [r \in Rules |-> 0]
  /\ inbound = <<>> /\ recent = {} /\ out = [i \in Tries |-> <<>>]
  /\ logs = [i \in Tries |-> "none"]
  /\ job = [p \in Procs |-> Idle] /\ conn = Nobody
  /\ tries = <<>> /\ went = {} /\ told = {} /\ pushed = {} /\ admitted = {} /\ forgot = {} /\ changes = 0

Handle(w) ==
  \/ FindInbound(w) \/ InsertInbound(w) \/ Gate(w) \/ Match(w) \/ ReadHits(w) \/ WriteHits(w)
  \/ Log(w)

Next ==
  \/ \E w \in Workers :
       \/ \E m \in Msgs : Receive(w, m)
       \/ \E i \in DOMAIN tries, of \in {"push", "bare push"} : ReceivePush(w, i, of)
       \/ Handle(w) \/ Connect(w) \/ Stop(w) \/ Die(w)
  \/ \E p \in Procs : Send(p) \/ Answer(p) \/ FindOutbound(p) \/ AddOutbound(p)
  \/ \E r \in Rules : RuleCommand(r)
  \/ (\E k \in DOMAIN inbound : Age(k)) \/ Close \/ DeleteAccount

Spec == Init /\ [][Next]_vars

-----------------------------------------------------------------------------
\* In no hour are MaxPerHour messages received and let through, although two
\* workers may handle messages at once, each of which keeps its message first
\* and counts then, and although messages come late or twice.
FewAreAdmitted == Cardinality(admitted \cap recent) < MaxPerHour

\* A reply that was tried is on record, whatever became of it, unless its
\* process died first, its rule or the account was deleted, or it is under way.
RepliesAreLogged ==
  live => \A i \in DOMAIN tries :
    tries[i] # NoRule /\ logs[i] = "none" /\ rule[tries[i]] # "gone" =>
      i \in forgot \/ \E w \in Workers : Holds(w, i)

\* What the reply log says of success went out, and a rule that has replied has
\* hits, although two workers may count them at once and one hit be lost.
LogsAreTrue ==
  \A i \in DOMAIN tries : logs[i] # "none" =>
    (logs[i] = "ok" => i \in went) /\ hits[tries[i]] > 0

\* A text that the platform has acknowledged or pushed back has exactly one row
\* by its id, with the push's metadata, whichever came first or both at once and
\* whatever rows the pushes without an id have added, which are never merged.
OutboundIsKept ==
  live => \A i \in Tries :
    /\ i \in told \cup pushed => Keyed(i) # {}
    /\ \A k, l \in Keyed(i) : k = l
    /\ i \in pushed => \A k \in Keyed(i) : out[i][k] = "full"
=============================================================================
