-------------------------- MODULE WsSessionProofs ---------------------------
(***************************************************************************)
(* Proofs about WsSession and about the sends it composes (SendMessage):   *)
(* what a send reports is true and its evidence complete, a frame that was *)
(* acknowledged is kept exactly once, and frames keep their order, for any *)
(* number of frames, any queue size, and any connections and faults.       *)
(***************************************************************************)
EXTENDS WsSession, SequenceTheorems, TLAPS

SendTypeOK ==
  /\ step \in [Pushes -> {"idle", "attempt", "send", "wait", "persist", "terminal", "over"}]
  /\ result \in [Pushes -> S!Finals \cup {"none"}]
  /\ audit \in [Pushes -> [begun : BOOLEAN, result : S!Finals \cup {"none"}]]
  /\ future \in [Pushes -> {"none", "open", "set", "cancelled"}]
  /\ verdict \in [Pushes -> S!Verdicts \cup {"none"}]

\* The platform answers what it has received, and a waiter is set by an answer.
AnswersAreReal ==
  \A a \in Pushes :
    /\ a \in InFlight => verdict[a] # "none"
    /\ future[a] = "set" => verdict[a] # "none"
    /\ verdict[a] # "none" => a \in reached

\* Each place of send_text, with what is known there.
PlacesAgree ==
  \A a \in Pushes :
    /\ step[a] \in {"idle", "attempt", "send"} => a \notin reached
    /\ step[a] \in {"idle", "attempt", "send", "wait"} => result[a] = "none"
    /\ step[a] \in {"send", "wait", "persist", "terminal"} => audit[a].begun
    /\ step[a] = "persist" => result[a] = "SUCCESS"

SendInv == SendTypeOK /\ AnswersAreReal /\ PlacesAgree /\ S!OutcomeIsTrue /\ S!EvidenceIsKept

LEMMA SendInitially == S!SendInit => SendInv
  BY DEF S!SendInit, SendInv, SendTypeOK, AnswersAreReal, PlacesAgree, S!OutcomeIsTrue,
         S!EvidenceIsKept, S!At, S!Finals, S!Verdicts

\* What an action does to the audit rows of its own attempt, and to no other's.
LEMMA AuditBegins ==
  ASSUME SendTypeOK, NEW a \in Pushes, audit' = [audit EXCEPT ![a].begun = TRUE]
  PROVE  /\ audit' \in [Pushes -> [begun : BOOLEAN, result : S!Finals \cup {"none"}]]
         /\ \A b \in Pushes : audit'[b].begun = (audit[b].begun \/ b = a)
         /\ \A b \in Pushes : audit'[b].result = audit[b].result
BY DEF SendTypeOK

LEMMA AuditResults ==
  ASSUME SendTypeOK, NEW a \in Pushes, audit' = [audit EXCEPT ![a].result = result[a]]
  PROVE  /\ audit' \in [Pushes -> [begun : BOOLEAN, result : S!Finals \cup {"none"}]]
         /\ \A b \in Pushes : audit'[b].begun = audit[b].begun
         /\ \A b \in Pushes : audit'[b].result = IF b = a THEN result[a] ELSE audit[b].result
BY DEF SendTypeOK

\* One attempt moves: nothing is known to the others that it could disturb.
LEMMA SendKeeps ==
  ASSUME SendInv, NEW a \in Pushes, S!Send(a)
  PROVE  SendInv'
<1> USE DEF SendInv, SendTypeOK, AnswersAreReal, PlacesAgree, S!OutcomeIsTrue, S!EvidenceIsKept,
            S!At, S!Goes, S!Results, S!KeepsWire, S!KeepsBooks, S!Finals, S!Verdicts
<1>1. CASE S!Receiver(a)
  <2>1. CASE S!Goes(a, "attempt") BY <1>1, <2>1 DEF S!Receiver, S!PreflightFailure
  <2>2. CASE \E status \in {"FAILED_RETRYABLE", "FAILED_FINAL"} : S!PreflightFailure(a, status)
    BY <1>1, <2>2 DEF S!Receiver, S!PreflightFailure, S!Fault
  <2> QED BY <1>1, <2>1, <2>2 DEF S!Receiver
<1>7. CASE S!RecordAttempt(a)
  <2>1. CASE S!Goes(a, "send") BY <1>7, <2>1, AuditBegins DEF S!RecordAttempt, S!PreflightFailure
  <2>2. CASE S!PreflightFailure(a, "FAILED_RETRYABLE")
    BY <1>7, <2>2 DEF S!RecordAttempt, S!PreflightFailure, S!Fault
  <2> QED BY <1>7, <2>1, <2>2 DEF S!RecordAttempt
<1>2. CASE S!Write(a)
  <2>1. ASSUME ~gate PROVE SendInv'
    <3>1. /\ audit[a].begun /\ a \notin reached /\ step[a] = "send"
          /\ step' = [step EXCEPT ![a] = "terminal"]
          /\ result' = [result EXCEPT ![a] = "FAILED_RETRYABLE"]
          /\ UNCHANGED <<audit, InFlight, verdict, future, reached>>
      BY <1>2, <2>1 DEF S!Write, S!Connected
    <3>2. SendTypeOK' BY <3>1
    <3>3. AnswersAreReal' /\ PlacesAgree' BY <3>1
    <3>4. S!OutcomeIsTrue' BY <3>1
    <3>5. S!EvidenceIsKept' BY <3>1
    <3> QED BY <3>2, <3>3, <3>4, <3>5
  <2>2. ASSUME gate PROVE SendInv'
    <3>1. /\ audit[a].begun /\ result[a] = "none" /\ a \notin reached /\ step[a] = "send"
          /\ UNCHANGED <<audit, InFlight, verdict>>
      BY <1>2 DEF S!Write
    <3>2. /\ step' = [step EXCEPT ![a] = IF sock THEN "wait" ELSE "terminal"]
          /\ result' = [result EXCEPT ![a] = IF sock THEN "none" ELSE "UNCERTAIN"]
          /\ future' = [future EXCEPT ![a] = IF sock THEN "open" ELSE future[a]]
          /\ reached' \in {reached, reached \cup {a}}
      BY <1>2, <2>2 DEF S!Write, S!Connected, S!Request, S!FailedWrite
    <3>3. SendTypeOK' BY <3>1, <3>2
    <3>4. AnswersAreReal' BY <3>1, <3>2
    <3>5. PlacesAgree' BY <3>1, <3>2
    <3>6. S!OutcomeIsTrue' BY <3>1, <3>2
    <3>7. S!EvidenceIsKept' BY <3>1, <3>2
    <3> QED BY <3>3, <3>4, <3>5, <3>6, <3>7
  <2> QED BY <2>1, <2>2
<1>3. CASE S!Answered(a) BY <1>3 DEF S!Answered, S!Classify
<1>4. CASE S!GivesUp(a) BY <1>4 DEF S!GivesUp
<1>5. CASE S!Persist(a)
  <2>1. CASE UNCHANGED result BY <1>5, <2>1 DEF S!Persist
  <2>2. CASE S!Results(a, "RECONCILIATION_REQUIRED") BY <1>5, <2>2 DEF S!Persist
  <2> QED BY <1>5, <2>1, <2>2 DEF S!Persist
<1>6. CASE S!Conclude(a)
  <2>1. CASE audit' = [audit EXCEPT ![a].result = result[a]] /\ UNCHANGED result
    BY <1>6, <2>1, AuditResults DEF S!Conclude
  <2>2. CASE UNCHANGED audit /\ S!Results(a, S!Unrecorded(result[a]))
    BY <1>6, <2>2 DEF S!Conclude, S!Unrecorded
  <2> QED BY <1>6, <2>1, <2>2 DEF S!Conclude
<1> QED BY <1>1, <1>2, <1>3, <1>4, <1>5, <1>6, <1>7 DEF S!Send

LEMMA EnvironmentKeeps ==
  ASSUME SendInv, S!Environment
  PROVE  SendInv'
<1> USE DEF SendInv, SendTypeOK, AnswersAreReal, PlacesAgree, S!OutcomeIsTrue, S!EvidenceIsKept,
            S!At, S!KeepsSend, S!Finals, S!Verdicts
<1>1. ASSUME NEW a \in Pushes, S!Match(a) PROVE SendInv' BY <1>1 DEF S!Match
<1>2. ASSUME NEW a \in Pushes, NEW v \in S!Verdicts, S!Respond(a, v) PROVE SendInv'
  BY <1>2 DEF S!Respond, S!Fault
<1>3. CASE S!Open BY <1>3 DEF S!Open
<1>4. CASE S!Ready BY <1>4 DEF S!Ready
<1>5. CASE S!Closes BY <1>5 DEF S!Closes
<1>6. CASE S!Teardown BY <1>6 DEF S!Teardown
<1> QED BY <1>1, <1>2, <1>3, <1>4, <1>5, <1>6 DEF S!Environment

\* The inductive invariant of every behaviour.
THEOREM SendInvariant == S!SendSpec => []SendInv
<1>1. SendInv /\ [S!SendNext]_(S!sendVars) => SendInv'
  <2> SUFFICES ASSUME SendInv, [S!SendNext]_(S!sendVars) PROVE SendInv' OBVIOUS
  <2>1. CASE S!Environment BY <2>1, EnvironmentKeeps
  <2>2. CASE \E a \in Pushes : S!Send(a) BY <2>2, SendKeeps
  <2>3. CASE UNCHANGED S!sendVars
    BY <2>3 DEF S!sendVars, SendInv, SendTypeOK, AnswersAreReal, PlacesAgree, S!OutcomeIsTrue,
                S!EvidenceIsKept, S!At
  <2> QED BY <2>1, <2>2, <2>3 DEF S!SendNext
<1> QED BY SendInitially, <1>1, PTL DEF S!SendSpec

\* What send_text reports is true of what the platform did, whatever the
\* connection, the database and the platform do meanwhile.
THEOREM OutcomesAreTrue == S!SendSpec => []S!OutcomeIsTrue
<1>1. SendInv => S!OutcomeIsTrue BY DEF SendInv
<1> QED BY <1>1, SendInvariant, PTL

\* No attempt reaches the platform unannounced, and no success is reported that
\* the audit log does not have.
THEOREM EvidenceIsComplete == S!SendSpec => []S!EvidenceIsKept
<1>1. SendInv => S!EvidenceIsKept BY DEF SendInv
<1> QED BY <1>1, SendInvariant, PTL

-----------------------------------------------------------------------------
(* The frames of a session: on the wire, with the receive loop, and kept.  *)

Kept == handled \o InHand \o queue \o deferred

Kinds == {"business", "response", "registered", "sync", "exchange"}

\* The ids of the frames of one kind that are on their way.
Ids(kind) == {net[i].id : i \in {j \in DOMAIN net : net[j].kind = kind}}

\* Business frames on their way.
Due == {net[i].id : i \in {j \in DOMAIN net : net[j].kind = "business"}}

FlowTypeOK ==
  /\ net \in Seq([kind : Kinds, id : Pushes \cup {Nothing}]) /\ Nothing \notin InFlight
  /\ gate \in BOOLEAN /\ sock \in BOOLEAN /\ pushed \in 0..Frames
  /\ rx \in [at : {"none", "recv", "slot", "put", "done"}, n : Pushes \cup {Nothing}]
  /\ rx.at \in {"slot", "put"} <=> rx.n # Nothing
  /\ disp \in [at : {"none", "get", "gate", "handle"}, n : Pushes \cup {Nothing}]
  /\ disp.at \in {"gate", "handle"} <=> disp.n # Nothing
  /\ queue \in Seq(Pushes) /\ deferred \in Seq(Pushes) /\ handled \in Seq(Pushes)
  /\ Len(queue) <= QueueSize

\* The platform numbers its frames as it sends them.
NetRises ==
  \A i, j \in DOMAIN net :
    i < j /\ net[i].kind = "business" /\ net[j].kind = "business" => net[i].id < net[j].id

\* What is kept came before what the receive loop holds, that before what is on
\* the wire, and that before what has not been sent yet.
DueInOrder == rx.n <= pushed /\ \A n \in Due : rx.n < n /\ n <= pushed

KeptInOrder ==
  \A i \in DOMAIN Kept :
    /\ Kept[i] <= pushed
    /\ rx.n # Nothing => Kept[i] < rx.n
    /\ \A n \in Due : Kept[i] < n

ComeInOrder == DueInOrder /\ KeptInOrder

\* As long as nobody has waited for room, an open gate leaves no backlog to be
\* overtaken.
NothingToOvertake == crowded \/ ((gate => deferred = <<>>) /\ rx.at # "put")

FlowInv ==
  /\ FlowTypeOK /\ NetRises /\ ComeInOrder /\ NothingToOvertake
  /\ AckedIsKeptOnce /\ OrderHoldsUnlessCrowded

-----------------------------------------------------------------------------
(* What the steps do to the sequences.                                     *)

\* One frame is put after p, in front of d.
LEMMA PutBetween ==
  ASSUME NEW p \in Seq(Pushes), NEW d \in Seq(Pushes), NEW n \in Pushes,
         \A i \in DOMAIN (p \o d) : (p \o d)[i] < n
  PROVE  LET s == Append(p, n) \o d IN
         /\ ToSet(s) = ToSet(p \o d) \cup {n}
         /\ \A i \in DOMAIN s : s[i] <= n
         /\ IsInjective(p \o d) => IsInjective(s)
         /\ d = <<>> /\ (\A i, j \in DOMAIN (p \o d) : i < j => (p \o d)[i] < (p \o d)[j])
              => \A i, j \in DOMAIN s : i < j => s[i] < s[j]
<1> DEFINE t == p \o d
           s == Append(p, n) \o d
           k == Len(p)
<1>1. /\ k \in Nat /\ Len(d) \in Nat /\ Len(t) = k + Len(d) /\ DOMAIN t = 1..Len(t)
      /\ t \in Seq(Pushes)
      /\ \A i \in 1..Len(t) : t[i] = IF i <= k THEN p[i] ELSE d[i - k]
  BY ConcatProperties, LenProperties
<1>2. /\ Append(p, n) \in Seq(Pushes) /\ Len(Append(p, n)) = k + 1
      /\ Append(p, n)[k + 1] = n /\ \A i \in 1..k : Append(p, n)[i] = p[i]
  BY AppendProperties
<1>3. /\ s \in Seq(Pushes) /\ Len(s) = Len(t) + 1 /\ DOMAIN s = 1..Len(s)
      /\ \A i \in 1..Len(s) : s[i] = IF i <= k + 1 THEN Append(p, n)[i] ELSE d[i - (k + 1)]
  BY <1>1, <1>2, ConcatProperties, LenProperties
<1>4. \A i \in 1..Len(s) : s[i] = IF i <= k THEN t[i] ELSE IF i = k + 1 THEN n ELSE t[i - 1]
  <2> SUFFICES ASSUME NEW i \in 1..Len(s)
               PROVE  s[i] = IF i <= k THEN t[i] ELSE IF i = k + 1 THEN n ELSE t[i - 1]
    OBVIOUS
  <2> HIDE DEF s, t, k
  <2>1. CASE i <= k BY <2>1, <1>1, <1>2, <1>3
  <2>2. CASE i = k + 1 BY <2>2, <1>1, <1>2, <1>3
  <2>3. CASE i > k + 1
    <3>1. i - 1 \in 1..Len(t) /\ ~(i - 1 <= k) /\ (i - 1) - k = i - (k + 1) BY <2>3, <1>1, <1>3
    <3> QED BY <2>3, <3>1, <1>1, <1>3
  <2> QED BY <2>1, <2>2, <2>3, <1>1, <1>3
<1>5. \A i \in 1..Len(t) : t[i] \in Int /\ n \in Int /\ t[i] < n /\ t[i] <= n
  <2> SUFFICES ASSUME NEW i \in 1..Len(t)
               PROVE  t[i] \in Int /\ n \in Int /\ t[i] < n /\ t[i] <= n
    OBVIOUS
  <2>1. t[i] < n BY <1>1
  <2> HIDE DEF t
  <2>2. t[i] \in Pushes BY <1>1, ElementOfSeq
  <2> QED BY <2>1, <2>2 DEF Pushes
<1> HIDE DEF s, t, k
<1>6. ToSet(s) = ToSet(t) \cup {n}
  <2>1. ASSUME NEW i \in 1..Len(s) PROVE s[i] = n \/ \E j \in 1..Len(t) : s[i] = t[j]
    <3>1. CASE i <= k
      <4>1. i \in 1..Len(t) /\ s[i] = t[i] BY <3>1, <1>1, <1>3, <1>4
      <4> QED BY <4>1
    <3>2. CASE i > k + 1
      <4>1. i - 1 \in 1..Len(t) /\ s[i] = t[i - 1] BY <3>2, <1>1, <1>3, <1>4
      <4> QED BY <4>1
    <3> QED BY <3>1, <3>2, <1>1, <1>3, <1>4
  <2>2. ASSUME NEW j \in 1..Len(t) PROVE \E i \in 1..Len(s) : s[i] = t[j]
    <3>1. CASE j <= k BY <3>1, <1>1, <1>3, <1>4
    <3>2. CASE j > k
      <4>1. j + 1 \in 1..Len(s) /\ s[j + 1] = t[j] BY <3>2, <1>1, <1>3, <1>4
      <4> QED BY <4>1
    <3> QED BY <3>1, <3>2, <1>1
  <2>3. k + 1 \in 1..Len(s) /\ s[k + 1] = n BY <1>1, <1>3, <1>4
  <2>4. ToSet(s) = {s[i] : i \in 1..Len(s)} /\ ToSet(t) = {t[i] : i \in 1..Len(t)}
    BY <1>1, <1>3 DEF ToSet
  <2> QED BY <2>1, <2>2, <2>3, <2>4
<1>7. \A i \in DOMAIN s : s[i] <= n
  <2> SUFFICES ASSUME NEW i \in 1..Len(s) PROVE s[i] <= n BY <1>1, <1>3
  <2>1. CASE i <= k BY <2>1, <1>1, <1>3, <1>4, <1>5
  <2>2. CASE i > k + 1
    <3>1. i - 1 \in 1..Len(t) /\ s[i] = t[i - 1] BY <2>2, <1>1, <1>3, <1>4
    <3> QED BY <3>1, <1>5
  <2>3. n \in Int BY DEF Pushes
  <2> QED BY <2>1, <2>2, <2>3, <1>1, <1>3, <1>4
<1>8. ASSUME IsInjective(t) PROVE IsInjective(s)
  <2> SUFFICES ASSUME NEW i \in 1..Len(s), NEW j \in 1..Len(s), s[i] = s[j] PROVE i = j
    BY <1>3, <1>1 DEF IsInjective
  <2> DEFINE m(x) == IF x <= k THEN x ELSE x - 1
  <2>1. ASSUME NEW x \in 1..Len(s), x # k + 1
        PROVE  m(x) \in 1..Len(t) /\ s[x] = t[m(x)] /\ s[x] < n
    <3>1. CASE x <= k BY <3>1, <1>1, <1>3, <1>4, <1>5
    <3>2. CASE x > k
      <4>1. x - 1 \in 1..Len(t) /\ m(x) = x - 1 /\ s[x] = t[x - 1]
        BY <2>1, <3>2, <1>1, <1>3, <1>4
      <4> QED BY <4>1, <1>1, <1>5
    <3> QED BY <3>1, <3>2, <1>1
  <2>2. s[k + 1] = n BY <1>1, <1>3, <1>4
  <2>3. CASE i = k + 1 \/ j = k + 1 BY <2>1, <2>2, <2>3 DEF Pushes
  <2>4. CASE i # k + 1 /\ j # k + 1
    <3>1. m(i) = m(j)
      <4> HIDE DEF m
      <4> QED BY <2>1, <2>4, <1>8, <1>1 DEF IsInjective
    <3> QED BY <3>1, <2>4, <1>1, <1>3
  <2> QED BY <2>3, <2>4
<1>9. ASSUME d = <<>>, \A i, j \in DOMAIN t : i < j => t[i] < t[j]
      PROVE  \A i, j \in DOMAIN s : i < j => s[i] < s[j]
  <2>1. Len(t) = k BY <1>9, <1>1
  <2>2. \A i \in 1..k : s[i] = t[i] /\ s[i] < n BY <2>1, <1>1, <1>3, <1>4, <1>5
  <2>3. s[k + 1] = n /\ DOMAIN s = 1..k + 1 BY <2>1, <1>1, <1>3, <1>4
  <2> QED BY <2>1, <2>2, <2>3, <1>9, <1>1
<1> QED BY <1>6, <1>7, <1>8, <1>9 DEF s, t

\* The wire loses its first frame.
LEMMA WireShortens ==
  ASSUME FlowTypeOK, NetRises, net # <<>>, net' = Tail(net), NEW kind
  PROVE  /\ net' \in Seq([kind : Kinds, id : Pushes \cup {Nothing}])
         /\ Head(net) \in [kind : Kinds, id : Pushes \cup {Nothing}]
         /\ NetRises'
         /\ Ids(kind)' \subseteq Ids(kind)
         /\ Head(net).kind # kind => Ids(kind)' = Ids(kind)
         /\ Head(net).kind = kind => Head(net).id \in Ids(kind)
         /\ Head(net).kind = "business" => \A n \in Ids("business")' : Head(net).id < n
<1>1. /\ net' \in Seq([kind : Kinds, id : Pushes \cup {Nothing}])
      /\ Head(net) \in [kind : Kinds, id : Pushes \cup {Nothing}]
      /\ Len(net') = Len(net) - 1 /\ Len(net) \in Nat \ {0}
      /\ DOMAIN net = 1..Len(net) /\ DOMAIN net' = 1..Len(net) - 1
      /\ \A i \in 1..Len(net) - 1 : net'[i] = net[i + 1]
      /\ Head(net) = net[1]
  <2> DEFINE F == [kind : Kinds, id : Pushes \cup {Nothing}]
  <2>1. net \in Seq(F) BY DEF FlowTypeOK
  <2> HIDE DEF F
  <2>2. /\ Head(net) \in F /\ Tail(net) \in Seq(F) /\ Len(Tail(net)) = Len(net) - 1
        /\ \A i \in 1..Len(Tail(net)) : Tail(net)[i] = net[i + 1]
    BY <2>1, HeadTailProperties
  <2>3. Len(net) \in Nat \ {0} BY <2>1, EmptySeq
  <2>4. DOMAIN net = 1..Len(net) BY <2>1, LenProperties
  <2>5. DOMAIN Tail(net) = 1..Len(Tail(net)) BY <2>2, LenProperties
  <2>6. Head(net) = net[1] BY <2>1, <2>3
  <2> QED BY <2>2, <2>3, <2>4, <2>5, <2>6 DEF F
<1>2. ASSUME NEW i \in DOMAIN net' PROVE i + 1 \in DOMAIN net /\ net'[i] = net[i + 1] /\ 1 < i + 1
  BY <1>1
<1>3. ASSUME NEW j \in DOMAIN net, j # 1 PROVE j - 1 \in DOMAIN net' /\ net'[j - 1] = net[j]
  BY <1>1, <1>3
<1>4. NetRises' BY <1>1, <1>2 DEF NetRises
<1>5. Ids(kind)' \subseteq Ids(kind) BY <1>2 DEF Ids
<1>6. ASSUME Head(net).kind # kind, NEW n \in Ids(kind) PROVE n \in Ids(kind)'
  <2>1. PICK j \in DOMAIN net : net[j].kind = kind /\ n = net[j].id BY DEF Ids
  <2>2. j - 1 \in DOMAIN net' /\ net'[j - 1] = net[j] BY <2>1, <1>1, <1>3, <1>6
  <2> QED BY <2>1, <2>2 DEF Ids
<1>7. Head(net).kind = kind => Head(net).id \in Ids(kind)
  <2>1. 1 \in DOMAIN net BY <1>1
  <2> QED BY <2>1, <1>1 DEF Ids
<1>8. ASSUME Head(net).kind = "business", NEW n \in Ids("business")' PROVE Head(net).id < n
  <2>1. PICK i \in DOMAIN net' : net'[i].kind = "business" /\ n = net'[i].id BY DEF Ids
  <2> QED BY <2>1, <1>1, <1>2, <1>8 DEF NetRises
<1> QED BY <1>1, <1>4, <1>5, <1>6, <1>7, <1>8

\* A frame is put on the wire.
LEMMA WireGrows ==
  ASSUME FlowTypeOK, NEW f \in [kind : Kinds, id : Pushes \cup {Nothing}], net' = Append(net, f),
         NEW kind
  PROVE  /\ net' \in Seq([kind : Kinds, id : Pushes \cup {Nothing}])
         /\ Ids(kind)' = IF f.kind = kind THEN Ids(kind) \cup {f.id} ELSE Ids(kind)
         /\ NetRises /\ (f.kind = "business" => \A n \in Ids("business") : n < f.id) => NetRises'
<1>1. /\ net' \in Seq([kind : Kinds, id : Pushes \cup {Nothing}])
      /\ Len(net) \in Nat /\ Len(net') = Len(net) + 1
      /\ DOMAIN net = 1..Len(net) /\ DOMAIN net' = 1..Len(net) + 1
      /\ \A i \in 1..Len(net) : net'[i] = net[i]
      /\ net'[Len(net) + 1] = f
  BY AppendProperties, LenProperties DEF FlowTypeOK
<1>2. /\ DOMAIN net' = DOMAIN net \cup {Len(net) + 1} /\ Len(net) + 1 \notin DOMAIN net
      /\ \A i \in DOMAIN net : net'[i] = net[i] /\ i < Len(net) + 1 /\ ~(Len(net) + 1 < i)
  BY <1>1
<1>3. Ids(kind)' = IF f.kind = kind THEN Ids(kind) \cup {f.id} ELSE Ids(kind)
  BY <1>1, <1>2 DEF Ids
<1>4. ASSUME NetRises, f.kind = "business" => \A n \in Ids("business") : n < f.id PROVE NetRises'
  <2>1. \A i \in DOMAIN net : f.kind = "business" /\ net[i].kind = "business" => net[i].id < f.id
    BY <1>4 DEF Ids
  <2> QED BY <1>1, <1>2, <1>4, <2>1 DEF NetRises
<1> QED BY <1>1, <1>3, <1>4

-----------------------------------------------------------------------------
(* Each step keeps FlowInv.                                                *)

LEMMA IdsAreNumbers ==
  ASSUME FlowTypeOK, NEW kind
  PROVE  Ids(kind) \subseteq Nat
<1> SUFFICES ASSUME NEW i \in DOMAIN net PROVE net[i].id \in Nat BY DEF Ids
<1>1. net[i] \in [kind : Kinds, id : Pushes \cup {Nothing}]
  <2> DEFINE F == [kind : Kinds, id : Pushes \cup {Nothing}]
  <2>1. net \in Seq(F) BY DEF FlowTypeOK
  <2> HIDE DEF F
  <2>2. DOMAIN net = 1..Len(net) BY <2>1, LenProperties
  <2> QED BY <2>1, <2>2, ElementOfSeq DEF F
<1> QED BY <1>1 DEF Pushes, Nothing

\* The wire after a step that sends no business frame.
WireIsSound ==
  /\ net' \in Seq([kind : Kinds, id : Pushes \cup {Nothing}])
  /\ NetRises' /\ Due' \subseteq Due /\ Nothing \notin InFlight'

LEMMA WireUntouched == ASSUME FlowInv, net' = net PROVE WireIsSound
BY DEF FlowInv, FlowTypeOK, WireIsSound, NetRises, Due, InFlight

LEMMA WireCut ==
  ASSUME FlowInv, net' = <<>>
  PROVE  WireIsSound
<1>1. DOMAIN net' = {} /\ net' \in Seq([kind : Kinds, id : Pushes \cup {Nothing}])
  BY EmptySeq, LenProperties
<1> QED BY <1>1 DEF WireIsSound, NetRises, Due, InFlight

LEMMA WireReceives ==
  ASSUME FlowInv, NEW kind \in Kinds, Received(kind)
  PROVE  /\ WireIsSound
         /\ Head(net).id \in Ids(kind) /\ Head(net) \in [kind : Kinds, id : Pushes \cup {Nothing}]
         /\ kind # "response" => InFlight' = InFlight
         /\ kind = "business" => \A n \in Due' : Head(net).id < n
<1>1. FlowTypeOK /\ NetRises /\ net # <<>> /\ net' = Tail(net) /\ Head(net).kind = kind
  BY DEF FlowInv, Received
<1>2. /\ net' \in Seq([kind : Kinds, id : Pushes \cup {Nothing}]) /\ NetRises'
      /\ Head(net) \in [kind : Kinds, id : Pushes \cup {Nothing}]
      /\ Ids("business")' \subseteq Ids("business")
  BY <1>1, WireShortens
<1>3. Head(net).id \in Ids(kind) BY <1>1, WireShortens
<1>4. /\ Ids("response")' \subseteq Ids("response")
      /\ kind # "response" => Ids("response")' = Ids("response")
  BY <1>1, WireShortens
<1>5. kind = "business" => \A n \in Ids("business")' : Head(net).id < n
  BY <1>1, WireShortens
<1>6. /\ InFlight = Ids("response") /\ InFlight' = Ids("response")'
      /\ Due = Ids("business") /\ Due' = Ids("business")'
  BY DEF InFlight, Due, Ids
<1> QED BY <1>1, <1>2, <1>3, <1>4, <1>5, <1>6 DEF WireIsSound, FlowTypeOK

LEMMA WireAnswers ==
  ASSUME FlowInv, NEW kind \in Kinds \ {"business"}, NEW n \in Pushes \cup {Nothing},
         kind = "response" => n # Nothing, Arrives(Frame(kind, n))
  PROVE  /\ WireIsSound
         /\ kind # "response" => InFlight' = InFlight
<1> DEFINE f == Frame(kind, n)
<1>1. f \in [kind : Kinds, id : Pushes \cup {Nothing}] /\ f.kind = kind /\ f.id = n BY DEF Frame
<1>2. FlowTypeOK /\ NetRises /\ net' = Append(net, f) BY DEF FlowInv, Arrives
<1> HIDE DEF f
<1>3. /\ net' \in Seq([kind : Kinds, id : Pushes \cup {Nothing}]) /\ NetRises'
      /\ Ids("business")' = Ids("business")
  BY <1>1, <1>2, WireGrows
<1>4. Ids("response")' = IF kind = "response" THEN Ids("response") \cup {n} ELSE Ids("response")
  BY <1>1, <1>2, WireGrows
<1>5. /\ InFlight = Ids("response") /\ InFlight' = Ids("response")'
      /\ Due = Ids("business") /\ Due' = Ids("business")'
  BY DEF InFlight, Due, Ids
<1> QED BY <1>1, <1>2, <1>3, <1>4, <1>5 DEF WireIsSound, FlowTypeOK

LEMMA OrderOfArrival ==
  ASSUME FlowTypeOK, ComeInOrder, Kept' = Kept, pushed' = pushed, rx'.n \in {rx.n, Nothing},
         Due' \subseteq Due
  PROVE  ComeInOrder'
<1>1. Due = Ids("business") BY DEF Due, Ids
<1>2. Due \subseteq Nat BY <1>1, IdsAreNumbers
<1>3. rx.n \in Nat /\ rx'.n \in Nat /\ rx'.n <= rx.n /\ pushed \in Nat
  BY DEF FlowTypeOK, Pushes, Nothing
<1>4. \A n \in Due' : rx'.n < n /\ n <= pushed' BY <1>2, <1>3 DEF ComeInOrder, DueInOrder, KeptInOrder
<1>5. rx'.n <= pushed' BY <1>3 DEF ComeInOrder, DueInOrder, KeptInOrder
<1> QED BY <1>4, <1>5 DEF ComeInOrder, DueInOrder, KeptInOrder

\* A step that moves no kept frame, and at most lets go of the one the receive
\* loop holds.
LEMMA QuietSteps ==
  ASSUME FlowInv, WireIsSound,
         UNCHANGED <<queue, deferred, handled, acked, crowded, pushed>>,
         disp' \in [at : {"none", "get", "gate", "handle"}, n : Pushes \cup {Nothing}],
         disp'.n = disp.n, disp'.at \in {"gate", "handle"} <=> disp'.n # Nothing,
         \/ rx' = rx
         \/ \E at \in {"none", "recv", "done"} : rx' = [at |-> at, n |-> Nothing],
         gate' \in BOOLEAN, sock' \in BOOLEAN, gate' => gate
  PROVE  FlowInv'
<1>1. FlowTypeOK' BY DEF FlowInv, FlowTypeOK, WireIsSound
<1>2. Kept' = Kept /\ InHand' = InHand BY DEF Kept, InHand
<1>3. rx'.n \in {rx.n, Nothing} /\ (rx'.at = "put" => rx.at = "put") OBVIOUS
<1>4. ComeInOrder' BY <1>2, <1>3, OrderOfArrival DEF FlowInv, WireIsSound
<1>5. NothingToOvertake' BY <1>3 DEF FlowInv, NothingToOvertake
<1>6. AckedIsKeptOnce' /\ OrderHoldsUnlessCrowded'
  BY <1>2 DEF FlowInv, AckedIsKeptOnce, OrderHoldsUnlessCrowded, Kept
<1> QED BY <1>1, <1>4, <1>5, <1>6 DEF FlowInv, WireIsSound

LEMMA PiecesAreSequences ==
  ASSUME FlowTypeOK
  PROVE  /\ InHand \in Seq(Pushes) /\ handled \o InHand \in Seq(Pushes)
         /\ (handled \o InHand) \o queue \in Seq(Pushes) /\ Kept \in Seq(Pushes)
         /\ Kept = ((handled \o InHand) \o queue) \o deferred
<1>1. /\ handled \in Seq(Pushes) /\ queue \in Seq(Pushes) /\ deferred \in Seq(Pushes)
      /\ disp.n \in Pushes \cup {Nothing}
  BY DEF FlowTypeOK
<1>2. InHand \in Seq(Pushes) BY <1>1 DEF InHand
<1>3. handled \o InHand \in Seq(Pushes) BY <1>1, <1>2, ConcatProperties
<1>4. (handled \o InHand) \o queue \in Seq(Pushes) BY <1>1, <1>3, ConcatProperties
<1> QED BY <1>1, <1>2, <1>3, <1>4, ConcatProperties DEF Kept

\* A flush moves frames from the head of the backlog to the end of the queue.
LEMMA FlushMovesNothing ==
  ASSUME FlowTypeOK, FlushSome, UNCHANGED <<handled, disp>>
  PROVE  /\ Kept' = Kept
         /\ queue' \in Seq(Pushes) /\ deferred' \in Seq(Pushes) /\ Len(queue') <= QueueSize
         /\ deferred' = <<>> \/ crowded'
         /\ crowded => crowded'
<1> DEFINE k == IF Len(deferred) < Room THEN Len(deferred) ELSE Room
           moved == SubSeq(deferred, 1, k)
           left == SubSeq(deferred, k + 1, Len(deferred))
           front == handled \o InHand
<1>1. /\ queue \in Seq(Pushes) /\ deferred \in Seq(Pushes)
      /\ Len(queue) \in Nat /\ Len(deferred) \in Nat /\ QueueSize \in Nat
      /\ Len(queue) <= QueueSize /\ front \in Seq(Pushes) /\ front \o queue \in Seq(Pushes)
  BY SessionAssumption, PiecesAreSequences, LenProperties DEF FlowTypeOK
<1>2. /\ queue' = queue \o moved /\ deferred' = left
      /\ crowded' = (crowded \/ k < Len(deferred))
  BY DEF FlushSome
<1>3. k \in 0..Len(deferred) /\ k <= QueueSize - Len(queue) BY <1>1 DEF Room
<1> HIDE DEF k
<1>4. /\ moved \in Seq(Pushes) /\ Len(moved) = k
      /\ left \in Seq(Pushes) /\ Len(left) = Len(deferred) - k
  <2>1. \A i \in 1..Len(deferred) : deferred[i] \in Pushes BY <1>1, ElementOfSeq
  <2>2. \A i \in 1..k : deferred[i] \in Pushes BY <2>1, <1>1, <1>3
  <2>3. \A i \in k + 1..Len(deferred) : deferred[i] \in Pushes BY <2>1, <1>1, <1>3
  <2>4. moved \in Seq(Pushes) /\ Len(moved) = IF 1 <= k THEN k - 1 + 1 ELSE 0
    BY <2>2, <1>3, SubSeqProperties
  <2>5. left \in Seq(Pushes)
         /\ Len(left) = IF k + 1 <= Len(deferred) THEN Len(deferred) - (k + 1) + 1 ELSE 0
    BY <2>3, <1>1, <1>3, SubSeqProperties
  <2> QED BY <2>4, <2>5, <1>1, <1>3
<1>5. moved \o left = deferred
  <2>1. 1 \in 1..Len(deferred) + 1 /\ k \in 1 - 1..Len(deferred) /\ Len(deferred) \in k..Len(deferred)
    BY <1>1, <1>3
  <2>2. moved \o left = SubSeq(deferred, 1, Len(deferred))
    BY <2>1, <1>1, ConcatAdjacentSubSeq
  <2> QED BY <2>2, <1>1, SubSeqFull
<1> HIDE DEF moved, left
<1>6. Kept' = Kept
  <2>1. InHand' = InHand /\ front' = front BY DEF InHand
  <2> HIDE DEF front
  <2>2. Kept = (front \o queue) \o deferred /\ Kept' = (front \o (queue \o moved)) \o left
    BY <2>1, <1>2 DEF Kept, front
  <2>3. (front \o (queue \o moved)) \o left = (front \o queue) \o (moved \o left)
    <3>1. front \in Seq(Pushes) /\ queue \in Seq(Pushes) BY <1>1
    <3>2. moved \in Seq(Pushes) /\ left \in Seq(Pushes) BY <1>4
    <3>3. front \o (queue \o moved) = (front \o queue) \o moved
      BY <3>1, <3>2, ConcatAssociative
    <3> DEFINE u == front \o queue
    <3>4. u \in Seq(Pushes) BY <3>1, ConcatProperties
    <3> HIDE DEF u
    <3>5. (u \o moved) \o left = u \o (moved \o left) BY <3>2, <3>4, ConcatAssociative
    <3> QED BY <3>3, <3>5 DEF u
  <2> QED BY <2>2, <2>3, <1>5
<1>7. queue' \in Seq(Pushes) /\ Len(queue') <= QueueSize
  <2>1. queue' \in Seq(Pushes) /\ Len(queue') = Len(queue) + Len(moved)
    BY <1>1, <1>2, <1>4, ConcatProperties
  <2> QED BY <2>1, <1>1, <1>3, <1>4
<1>8. deferred' = <<>> \/ crowded'
  <2>1. CASE k < Len(deferred) BY <2>1, <1>2
  <2>2. CASE k = Len(deferred)
    <3>1. Len(left) = 0 BY <2>2, <1>1, <1>4
    <3> QED BY <3>1, <1>2, <1>4, EmptySeq
  <2> QED BY <2>1, <2>2, <1>1, <1>3
<1> QED BY <1>2, <1>4, <1>6, <1>7, <1>8

LEMMA FlushSteps ==
  ASSUME FlowInv, FlushSome, UNCHANGED <<net, sock, rx, disp, handled, acked, pushed>>,
         gate' \in BOOLEAN
  PROVE  FlowInv'
<1>1. /\ Kept' = Kept
      /\ queue' \in Seq(Pushes) /\ deferred' \in Seq(Pushes) /\ Len(queue') <= QueueSize
      /\ deferred' = <<>> \/ crowded'
      /\ crowded => crowded'
  BY FlushMovesNothing DEF FlowInv
<1>2. FlowTypeOK' /\ NetRises' /\ Due' = Due
  BY <1>1 DEF FlowInv, FlowTypeOK, NetRises, Due, InFlight
<1>3. ComeInOrder' BY <1>1, <1>2, OrderOfArrival DEF FlowInv
<1>4. NothingToOvertake' BY <1>1 DEF FlowInv, NothingToOvertake
<1>5. AckedIsKeptOnce' /\ OrderHoldsUnlessCrowded'
  BY <1>1 DEF FlowInv, AckedIsKeptOnce, OrderHoldsUnlessCrowded, Kept
<1> QED BY <1>2, <1>3, <1>4, <1>5 DEF FlowInv

\* One more frame is kept, later than all that are, and acknowledged if it can be.
LEMMA KeepingSteps ==
  ASSUME FlowInv, WireIsSound, NEW n \in Pushes, n <= pushed,
         \A i \in DOMAIN Kept : Kept[i] < n, \A m \in Due' : n < m,
         UNCHANGED <<gate, sock, disp, handled, pushed, crowded>>, Ack(n),
         \/ (gate \/ crowded) /\ Room > 0 /\ queue' = Append(queue, n) /\ UNCHANGED deferred
         \/ ~gate /\ deferred' = Append(deferred, n) /\ UNCHANGED queue
  PROVE  FlowInv'
<1> DEFINE front == (handled \o InHand) \o queue
           rises(s) == \A i, j \in DOMAIN s : i < j => s[i] < s[j]
<1>1. /\ handled \o InHand \in Seq(Pushes) /\ front \in Seq(Pushes) /\ Kept \in Seq(Pushes)
      /\ queue \in Seq(Pushes) /\ deferred \in Seq(Pushes) /\ Kept = front \o deferred
      /\ InHand' = InHand
  BY PiecesAreSequences DEF FlowInv, FlowTypeOK, InHand
<1>2. PICK p \in Seq(Pushes), d \in Seq(Pushes) :
        /\ Kept = p \o d /\ Kept' = Append(p, n) \o d
        /\ crowded \/ d = <<>>
  <2>1. CASE (gate \/ crowded) /\ queue' = Append(queue, n) /\ UNCHANGED deferred
    <3>1. (handled \o InHand) \o Append(queue, n) = Append(front, n)
      <4> DEFINE h == handled \o InHand
      <4>1. h \in Seq(Pushes) BY <1>1
      <4> HIDE DEF h
      <4>2. Append(queue, n) = queue \o <<n>> /\ <<n>> \in Seq(Pushes) BY <1>1, AppendIsConcat
      <4>3. h \o (queue \o <<n>>) = (h \o queue) \o <<n>> BY <1>1, <4>1, <4>2, ConcatAssociative
      <4>4. h \o queue \in Seq(Pushes) BY <1>1, <4>1, ConcatProperties
      <4>5. Append(h \o queue, n) = (h \o queue) \o <<n>> BY <4>4, AppendIsConcat
      <4> QED BY <4>2, <4>3, <4>5 DEF h
    <3>2. Kept' = Append(front, n) \o deferred BY <2>1, <3>1, <1>1 DEF Kept
    <3>3. crowded \/ deferred = <<>> BY <2>1 DEF FlowInv, NothingToOvertake
    <3> QED BY <3>2, <3>3, <1>1
  <2>2. CASE deferred' = Append(deferred, n) /\ UNCHANGED queue
    <3>1. Kept' = Append(Kept, n)
      <4> DEFINE f == front
      <4>1. f \in Seq(Pushes) /\ Kept = f \o deferred /\ Kept' = f \o Append(deferred, n)
        BY <2>2, <1>1 DEF Kept
      <4> HIDE DEF f
      <4>2. Append(deferred, n) = deferred \o <<n>> /\ <<n>> \in Seq(Pushes)
        BY <1>1, AppendIsConcat
      <4>3. f \o (deferred \o <<n>>) = (f \o deferred) \o <<n>>
        <5>1. deferred \in Seq(Pushes) BY <1>1
        <5> QED BY <5>1, <4>1, <4>2, ConcatAssociative
      <4>4. Append(Kept, n) = Kept \o <<n>> BY <1>1, AppendIsConcat
      <4> QED BY <4>1, <4>2, <4>3, <4>4
    <3>2. /\ <<>> \in Seq(Pushes) /\ Kept = Kept \o <<>> 
          /\ Append(Kept, n) = Append(Kept, n) \o <<>>
      <4>1. Append(Kept, n) \in Seq(Pushes) BY <1>1, AppendProperties
      <4> QED BY <4>1, <1>1, ConcatEmptySeq, EmptySeq
    <3> QED BY <3>1, <3>2, <1>1
  <2> QED BY <2>1, <2>2
<1>3. /\ ToSet(Kept') = ToSet(Kept) \cup {n}
      /\ \A i \in DOMAIN Kept' : Kept'[i] <= n
      /\ IsInjective(Kept) => IsInjective(Kept')
      /\ d = <<>> /\ rises(Kept) => rises(Kept')
  BY <1>2, PutBetween
<1>4. FlowTypeOK'
  <2>1. Append(queue, n) \in Seq(Pushes) /\ Append(deferred, n) \in Seq(Pushes)
        /\ Len(Append(queue, n)) = Len(queue) + 1
    BY <1>1, AppendProperties
  <2>2. Room > 0 => Len(queue) + 1 <= QueueSize
    BY <1>1, SessionAssumption, LenProperties DEF Room
  <2>3. rx' \in [at : {"recv", "done"}, n : {Nothing}] BY DEF Ack, Rx
  <2> QED BY <2>1, <2>2, <2>3 DEF FlowInv, FlowTypeOK, WireIsSound
<1>5. rx'.n = Nothing /\ rx'.at # "put" /\ acked' \subseteq acked \cup {n} BY DEF Ack, Rx
<1>6. ComeInOrder'
  <2>1. Kept' \in Seq(Pushes)
    <3>1. Append(p, n) \in Seq(Pushes) BY AppendProperties
    <3> QED BY <3>1, <1>2, ConcatProperties
  <2>2. ASSUME NEW i \in DOMAIN Kept' PROVE Kept'[i] \in Nat
    <3>1. i \in 1..Len(Kept') BY <2>1, LenProperties
    <3>2. Kept'[i] \in Pushes BY <2>1, <3>1, ElementOfSeq
    <3> QED BY <3>2 DEF Pushes
  <2>3. Due' \subseteq Nat
    <3>1. Due = Ids("business") BY DEF Due, Ids
    <3>2. Due \subseteq Nat BY <3>1, IdsAreNumbers DEF FlowInv
    <3> QED BY <3>2 DEF WireIsSound
  <2>4. n \in Nat /\ pushed \in Nat /\ pushed' = pushed BY DEF Pushes, FlowInv, FlowTypeOK
  <2>5. DueInOrder'
    BY <2>3, <2>4, <1>5 DEF FlowInv, ComeInOrder, DueInOrder, WireIsSound, Nothing
  <2>6. KeptInOrder' BY <2>2, <2>3, <2>4, <1>3, <1>5 DEF KeptInOrder
  <2> QED BY <2>5, <2>6 DEF ComeInOrder
<1>7. NothingToOvertake' BY <1>5 DEF FlowInv, NothingToOvertake
<1>8. AckedIsKeptOnce' BY <1>3, <1>5 DEF FlowInv, AckedIsKeptOnce, Kept
<1>9. OrderHoldsUnlessCrowded' BY <1>2, <1>3 DEF FlowInv, OrderHoldsUnlessCrowded, Kept
<1> QED BY <1>4, <1>6, <1>7, <1>8, <1>9 DEF FlowInv, WireIsSound

\* The receive loop waits with its frame.
LEMMA HoldingSteps ==
  ASSUME FlowInv, WireIsSound, NEW n \in Pushes, n <= pushed,
         \A i \in DOMAIN Kept : Kept[i] < n, \A m \in Due' : n < m,
         UNCHANGED <<gate, sock, disp, handled, queue, deferred, acked, pushed>>,
         NEW at \in {"slot", "put"}, rx' = [at |-> at, n |-> n],
         crowded => crowded', at = "put" => crowded'
  PROVE  FlowInv'
<1>1. FlowTypeOK' BY DEF FlowInv, FlowTypeOK, WireIsSound, Pushes, Nothing
<1>2. Kept' = Kept BY DEF Kept, InHand
<1>3. ComeInOrder'
  <2>1. \A i \in DOMAIN Kept : Kept[i] < n /\ Kept[i] <= pushed
    BY DEF FlowInv, ComeInOrder, DueInOrder, KeptInOrder
  <2>2. \A m \in Due' : n < m /\ m <= pushed /\ \A i \in DOMAIN Kept : Kept[i] < m
    BY DEF FlowInv, ComeInOrder, DueInOrder, KeptInOrder, WireIsSound
  <2> QED BY <2>1, <2>2, <1>2 DEF ComeInOrder, DueInOrder, KeptInOrder
<1>4. NothingToOvertake' BY DEF FlowInv, NothingToOvertake
<1>5. AckedIsKeptOnce' /\ OrderHoldsUnlessCrowded'
  BY <1>2 DEF FlowInv, AckedIsKeptOnce, OrderHoldsUnlessCrowded, Kept
<1> QED BY <1>1, <1>3, <1>4, <1>5 DEF FlowInv, WireIsSound

\* _handle_or_defer_business_frame keeps the frame, or waits with it.
LEMMA HandleOrDeferKeeps ==
  ASSUME FlowInv, WireIsSound, NEW n \in Pushes, n <= pushed,
         \A i \in DOMAIN Kept : Kept[i] < n, \A m \in Due' : n < m,
         UNCHANGED <<gate, sock, disp, handled, pushed>>, HandleOrDefer(n)
  PROVE  FlowInv'
<1>1. CASE gate /\ Room > 0
  <2>1. queue' = Append(queue, n) /\ Ack(n) /\ UNCHANGED <<deferred, crowded>>
    BY <1>1 DEF HandleOrDefer, Put, backlog
  <2> QED BY <1>1, <2>1, KeepingSteps
<1>2. CASE gate /\ ~(Room > 0)
  <2>1. rx' = [at |-> "put", n |-> n] /\ crowded' = TRUE /\ UNCHANGED <<queue, deferred, acked>>
    BY <1>2 DEF HandleOrDefer, Put, backlog, Rx
  <2> QED BY <2>1, HoldingSteps
<1>3. CASE ~gate /\ slots > 0
  <2>1. deferred' = Append(deferred, n) /\ Ack(n) /\ UNCHANGED <<queue, crowded>>
    BY <1>3 DEF HandleOrDefer, Defer
  <2> QED BY <1>3, <2>1, KeepingSteps
<1>4. CASE ~gate /\ ~(slots > 0)
  <2>1. rx' = [at |-> "slot", n |-> n] /\ UNCHANGED <<queue, crowded, deferred, acked>>
    BY <1>4 DEF HandleOrDefer, Defer, backlog, Rx
  <2> QED BY <2>1, HoldingSteps
<1> QED BY <1>1, <1>2, <1>3, <1>4

LEMMA ReceiveKeeps ==
  ASSUME FlowInv, Receive
  PROVE  FlowInv'
<1> USE DEF session, backlog, dispatcher, stopping, syncing, sending, history
<1>0. FlowTypeOK /\ ComeInOrder BY DEF FlowInv
<1>1. CASE RxBusiness
  <2> DEFINE n == Head(net).id
  <2>1. /\ WireIsSound /\ n \in Due /\ n \in Pushes \cup {Nothing}
        /\ \A m \in Due' : n < m
    <3>1. Received("business") BY <1>1 DEF RxBusiness
    <3>2. Due = Ids("business") BY DEF Due, Ids
    <3> QED BY <3>1, <3>2, WireReceives DEF Kinds
  <2>2. UNCHANGED <<gate, sock, disp, handled, pushed>> /\ HandleOrDefer(n)
    BY <1>1 DEF RxBusiness
  <2> HIDE DEF n
  <2>3. n \in Pushes /\ n <= pushed /\ \A i \in DOMAIN Kept : Kept[i] < n
    BY <2>1, <1>0 DEF ComeInOrder, DueInOrder, KeptInOrder, FlowTypeOK, Pushes, Nothing
  <2> QED BY <2>1, <2>2, <2>3, HandleOrDeferKeeps
<1>2. CASE RxSlot
  <2>1. WireIsSound /\ Due' = Due BY <1>2, WireUntouched DEF RxSlot, Due
  <2>2. rx.n \in Pushes /\ rx.n <= pushed /\ \A i \in DOMAIN Kept : Kept[i] < rx.n
    BY <1>2, <1>0 DEF RxSlot, ComeInOrder, DueInOrder, KeptInOrder, FlowTypeOK
  <2>3. \A m \in Due' : rx.n < m BY <2>1, <1>0 DEF ComeInOrder, DueInOrder
  <2>4. UNCHANGED <<gate, sock, disp, handled, pushed>> /\ HandleOrDefer(rx.n)
    BY <1>2 DEF RxSlot
  <2> QED BY <2>1, <2>2, <2>3, <2>4, HandleOrDeferKeeps
<1>3. CASE RxPut
  <2>1. WireIsSound /\ Due' = Due BY <1>3, WireUntouched DEF RxPut, Due
  <2>2. rx.n \in Pushes /\ rx.n <= pushed /\ \A i \in DOMAIN Kept : Kept[i] < rx.n
    BY <1>3, <1>0 DEF RxPut, ComeInOrder, DueInOrder, KeptInOrder, FlowTypeOK
  <2>3. \A m \in Due' : rx.n < m BY <2>1, <1>0 DEF ComeInOrder, DueInOrder
  <2>4. /\ UNCHANGED <<gate, sock, disp, handled, pushed, crowded, deferred>> /\ Ack(rx.n)
        /\ crowded /\ Room > 0 /\ queue' = Append(queue, rx.n)
    BY <1>3 DEF RxPut, FlowInv, NothingToOvertake
  <2> QED BY <2>1, <2>2, <2>3, <2>4, KeepingSteps
<1>4. ASSUME WireIsSound, rx' = rx \/ rx' = [at |-> "done", n |-> Nothing],
             UNCHANGED <<queue, deferred, handled, acked, crowded, pushed, disp, gate, sock>>
      PROVE  FlowInv'
  BY <1>4, <1>0, QuietSteps DEF FlowTypeOK
<1>5. CASE RxResponse
  <2>1. WireIsSound BY <1>5, WireReceives DEF RxResponse, Kinds
  <2> QED BY <1>4, <1>5, <2>1 DEF RxResponse, Acks, Rx, S!Match
<1>6. CASE RxRegistered
  <2>1. WireIsSound BY <1>6, WireReceives DEF RxRegistered, Kinds
  <2> QED BY <1>4, <1>6, <2>1 DEF RxRegistered, Acks, Rx
<1>7. CASE RxSync
  <2>1. WireIsSound BY <1>7, WireReceives DEF RxSync, Kinds
  <2> QED BY <1>4, <1>7, <2>1 DEF RxSync, Acks, Rx
<1>8. CASE RxExchange
  <2>1. WireIsSound BY <1>8, WireReceives DEF RxExchange, Kinds
  <2> QED BY <1>4, <1>8, <2>1 DEF RxExchange, Acks, Rx
<1>9. CASE RxEnds
  <2>1. WireIsSound BY <1>9, WireUntouched DEF RxEnds
  <2> QED BY <1>4, <1>9, <2>1 DEF RxEnds, Rx
<1> QED BY <1>1, <1>2, <1>3, <1>5, <1>6, <1>7, <1>8, <1>9 DEF Receive

\* Every way out of a connection loses what is on the wire and in the loop, and
\* nothing that is kept.
LEMMA TeardownKeeps ==
  ASSUME FlowInv, NEW place, Teardown(place),
         UNCHANGED <<queue, deferred, handled, acked, crowded, pushed, disp>>
  PROVE  FlowInv'
<1>1. WireIsSound BY WireCut DEF Teardown
<1>2. /\ rx' = [at |-> "none", n |-> Nothing] /\ gate' = FALSE /\ sock' = FALSE
  BY DEF Teardown, Rx, S!Teardown
<1> QED BY <1>1, <1>2, QuietSteps DEF FlowInv, FlowTypeOK

LEMMA RunKeeps ==
  ASSUME FlowInv, Run
  PROVE  FlowInv'
<1> USE DEF session, backlog, dispatcher, stopping, syncing, sending, history
<1>1. ASSUME net' = net, rx' = rx \/ rx' = [at |-> "recv", n |-> Nothing],
             UNCHANGED <<queue, deferred, handled, acked, crowded, pushed, disp, gate>>,
             sock' \in BOOLEAN
      PROVE  FlowInv'
  <2>1. WireIsSound BY <1>1, WireUntouched
  <2> QED BY <1>1, <2>1, QuietSteps DEF FlowInv, FlowTypeOK
<1>2. CASE Connects BY <1>1, <1>2 DEF Connects, S!Open, Rx
<1>3. CASE Registered BY <1>1, <1>3 DEF Registered, FlowInv, FlowTypeOK
<1>4. CASE RegistrationFails BY <1>4, TeardownKeeps DEF RegistrationFails
<1>5. CASE GateOpens BY <1>5, FlushSteps DEF GateOpens, S!Ready
<1>6. CASE SettleFails BY <1>6, TeardownKeeps DEF SettleFails
<1>7. CASE FlushGoesOn BY <1>7, FlushSteps DEF FlushGoesOn, FlowInv, FlowTypeOK
<1>8. CASE Serves BY <1>1, <1>8 DEF Serves, FlowInv, FlowTypeOK
<1>9. CASE SessionEnds BY <1>9, TeardownKeeps DEF SessionEnds
<1>10. CASE LeavesLoop BY <1>1, <1>10 DEF LeavesLoop, FlowInv, FlowTypeOK
<1> QED BY <1>2, <1>3, <1>4, <1>5, <1>6, <1>7, <1>8, <1>9, <1>10 DEF Run

\* A frame moves from one place to the next.
LEMMA MovingSteps ==
  ASSUME FlowInv, Kept' = Kept, UNCHANGED <<net, gate, sock, rx, deferred, acked, crowded, pushed>>,
         disp' \in [at : {"none", "get", "gate", "handle"}, n : Pushes \cup {Nothing}],
         disp'.at \in {"gate", "handle"} <=> disp'.n # Nothing,
         queue' \in Seq(Pushes), handled' \in Seq(Pushes), Len(queue') <= QueueSize
  PROVE  FlowInv'
<1>1. FlowTypeOK' /\ NetRises' /\ Due' = Due
  BY DEF FlowInv, FlowTypeOK, NetRises, Due, InFlight
<1>2. ComeInOrder' BY <1>1, OrderOfArrival DEF FlowInv
<1>3. NothingToOvertake' BY DEF FlowInv, NothingToOvertake
<1>4. AckedIsKeptOnce' /\ OrderHoldsUnlessCrowded'
  BY DEF FlowInv, AckedIsKeptOnce, OrderHoldsUnlessCrowded, Kept
<1> QED BY <1>1, <1>2, <1>3, <1>4 DEF FlowInv

LEMMA DispatchKeeps ==
  ASSUME FlowInv, Dispatch
  PROVE  FlowInv'
<1> USE DEF session, backlog, dispatcher, stopping, syncing, sending, history
<1>0. /\ FlowTypeOK /\ handled \in Seq(Pushes) /\ queue \in Seq(Pushes) /\ Len(queue) <= QueueSize
      /\ InHand \in Seq(Pushes)
  BY PiecesAreSequences DEF FlowInv, FlowTypeOK
<1>1. CASE DGet
  <2> DEFINE n == Head(queue)
             q == Tail(queue)
  <2>1. /\ n \in Pushes /\ q \in Seq(Pushes) /\ Len(q) = Len(queue) - 1
        /\ Len(queue) \in Nat /\ Len(q) <= QueueSize
    BY <1>0, <1>1, HeadTailProperties, LenProperties, SessionAssumption DEF DGet
  <2>2. <<n>> \o q = queue
    <3>1. queue # <<>> BY <1>1 DEF DGet
    <3>2. <<queue[1]>> \o SubSeq(queue, 2, Len(queue)) = SubSeq(queue, 1, Len(queue))
      <4>1. 1 \in 1..Len(queue) /\ Len(queue) \in 1..Len(queue) /\ 1 + 1 = 2
        BY <3>1, <1>0, EmptySeq
      <4> QED BY <4>1, <1>0, SubSeqRecursiveFirst
    <3>3. n = queue[1] /\ q = SubSeq(queue, 2, Len(queue)) BY <3>1, <1>0, TailIsSubSeq
    <3> QED BY <3>2, <3>3, <1>0, SubSeqFull
  <2>3. InHand = <<>> /\ InHand' = <<n>> /\ queue' = q /\ UNCHANGED <<handled, deferred>>
    BY <1>0, <1>1, <2>1 DEF DGet, Disp, InHand, FlowTypeOK, Pushes, Nothing
  <2>4. (handled \o <<n>>) \o q = (handled \o <<>>) \o queue
    <3> HIDE DEF n, q
    <3>1. <<n>> \in Seq(Pushes) BY <2>1
    <3>2. (handled \o <<n>>) \o q = handled \o (<<n>> \o q)
      BY <3>1, <2>1, <1>0, ConcatAssociative
    <3> QED BY <3>2, <2>2, <1>0, ConcatEmptySeq
  <2>5. Kept' = Kept BY <2>3, <2>4 DEF Kept
  <2>6. disp' = [at |-> "gate", n |-> n] BY <1>1 DEF DGet, Disp
  <2> QED
    BY <2>1, <2>3, <2>5, <2>6, <1>0, <1>1, MovingSteps DEF DGet, Pushes, Nothing
<1>2. CASE DGate
  <2>1. WireIsSound BY <1>2, WireUntouched DEF DGate
  <2> QED BY <2>1, <1>0, <1>2, QuietSteps DEF DGate, Disp, FlowTypeOK
<1>3. CASE DSends
  <2>1. WireIsSound BY <1>3, WireUntouched DEF DSends
  <2>2. UNCHANGED <<gate, sock>>
    BY <1>3 DEF DSends, S!Send, S!Receiver, S!RecordAttempt, S!Write, S!Answered, S!GivesUp,
                S!Persist, S!Conclude, S!KeepsWire
  <2> QED BY <2>1, <2>2, <1>0, <1>3, QuietSteps DEF DSends, FlowTypeOK
<1>4. CASE DDone
  <2>1. disp.n \in Pushes /\ disp.n # Nothing /\ InHand = <<disp.n>>
    BY <1>0, <1>4 DEF DDone, FlowTypeOK, InHand
  <2>2. /\ handled' = Append(handled, disp.n) /\ InHand' = <<>> /\ UNCHANGED <<queue, deferred>>
        /\ disp'.n = Nothing /\ disp'.at \in {"none", "get"}
        /\ disp' \in [at : {"none", "get"}, n : {Nothing}]
    BY <1>4 DEF DDone, Disp, InHand
  <2>3. handled' \in Seq(Pushes) /\ handled' = handled \o <<disp.n>>
    BY <2>1, <2>2, <1>0, AppendProperties, AppendIsConcat
  <2>4. handled' \o <<>> = handled' BY <2>3, ConcatEmptySeq
  <2>5. Kept' = Kept BY <2>1, <2>2, <2>3, <2>4 DEF Kept
  <2> QED BY <2>2, <2>3, <2>5, <1>0, <1>4, MovingSteps DEF DDone, Pushes, Nothing
<1> QED BY <1>1, <1>2, <1>3, <1>4 DEF Dispatch

LEMMA StoppingKeeps ==
  ASSUME FlowInv, Stopping \/ StopCall \/ Retained \/ Exchange
  PROVE  FlowInv'
<1> USE DEF session, backlog, dispatcher, stopping, syncing, sending, history
<1>1. ASSUME net' = net, disp' = disp \/ (Drained /\ disp' = [at |-> "none", n |-> Nothing]),
             UNCHANGED <<rx, queue, deferred, handled, acked, crowded, pushed>>,
             gate' = gate, sock' \in BOOLEAN
      PROVE  FlowInv'
  <2>1. WireIsSound BY <1>1, WireUntouched
  <2>2. Drained => disp.n = Nothing BY DEF Drained, FlowInv, FlowTypeOK
  <2> QED BY <1>1, <2>1, <2>2, QuietSteps DEF FlowInv, FlowTypeOK
<1>0. FlowTypeOK BY DEF FlowInv
<1>2. CASE Deadline \/ StopSeesEnd \/ StopHandsOver \/ StopJoins
  <2>1. /\ net' = net /\ disp' = disp /\ gate' = gate /\ sock' = sock
        /\ UNCHANGED <<rx, queue, deferred, handled, acked, crowded, pushed>>
    BY <1>2 DEF Deadline, StopSeesEnd, StopHandsOver, StopJoins
  <2> QED BY <1>0, <1>1, <2>1 DEF FlowTypeOK
<1>8. CASE StopCall BY <1>1, <1>8 DEF StopCall
<1>3. CASE StopCancels BY <1>3, TeardownKeeps DEF StopCancels
<1>4. CASE StopFlushes \/ RetainedFlushes
  BY <1>0, <1>4, FlushSteps DEF StopFlushes, RetainedFlushes, FlowTypeOK
<1>5. CASE StopEnds \/ RetainedEnds
  BY <1>0, <1>1, <1>5 DEF StopEnds, RetainedEnds, FlowTypeOK, Disp
<1>6. CASE StopLeavesDispatcher
  <2>1. disp' = disp \/ (Drained /\ disp' = [at |-> "none", n |-> Nothing])
    <3>1. disp = [at |-> disp.at, n |-> disp.n] BY <1>0 DEF FlowTypeOK
    <3> QED BY <3>1, <1>6 DEF StopLeavesDispatcher, Disp
  <2> QED BY <1>0, <1>1, <1>6, <2>1 DEF StopLeavesDispatcher, FlowTypeOK
<1>7. CASE Exchange
  <2>1. CASE SyncReady BY <1>0, <1>1, <2>1 DEF SyncReady, FlowTypeOK
  <2>2. CASE SyncFails BY <1>1, <2>2 DEF SyncFails
  <2> QED BY <1>7, <2>1, <2>2 DEF Exchange
<1> QED BY <1>2, <1>3, <1>4, <1>5, <1>6, <1>7, <1>8 DEF Stopping, Retained

LEMMA PlatformKeeps ==
  ASSUME FlowInv, Platform
  PROVE  FlowInv'
<1> USE DEF session, backlog, dispatcher, stopping, syncing, sending, history
<1>0. FlowTypeOK BY DEF FlowInv
<1>1. ASSUME WireIsSound, sock' \in BOOLEAN,
             UNCHANGED <<gate, rx, disp, queue, deferred, handled, acked, crowded, pushed>>
      PROVE  FlowInv'
  BY <1>0, <1>1, QuietSteps DEF FlowTypeOK
<1>2. CASE Pushed
  <2> DEFINE f == Frame("business", pushed + 1)
  <2>1. /\ pushed \in Nat /\ pushed + 1 \in Pushes /\ pushed' = pushed + 1 /\ pushed' \in 0..Frames
        /\ net' = Append(net, f)
        /\ UNCHANGED <<gate, sock, rx, disp, queue, deferred, handled, acked, crowded>>
    BY <1>0, <1>2, SessionAssumption DEF Pushed, Arrives, FlowTypeOK, Pushes
  <2>2. /\ f \in [kind : Kinds, id : Pushes \cup {Nothing}]
        /\ f.kind = "business" /\ f.id = pushed + 1
    BY <2>1 DEF Frame, Kinds
  <2> HIDE DEF f
  <2>3. /\ Due = Ids("business") /\ Due' = Ids("business")'
        /\ InFlight = Ids("response") /\ InFlight' = Ids("response")'
    BY DEF Due, InFlight, Ids
  <2>4. Due \subseteq Nat BY <2>3, <1>0, IdsAreNumbers
  <2>5. \A n \in Due : n < pushed + 1
    BY <2>1, <2>4 DEF FlowInv, ComeInOrder, DueInOrder
  <2>6. net' \in Seq([kind : Kinds, id : Pushes \cup {Nothing}]) /\ NetRises'
    BY <2>1, <2>2, <2>3, <2>5, <1>0, WireGrows DEF FlowInv
  <2>7. Due' = Due \cup {pushed + 1}
    BY <2>1, <2>2, <2>3, <1>0, WireGrows
  <2>8. InFlight' = InFlight
    BY <2>1, <2>2, <2>3, <1>0, WireGrows
  <2>9. FlowTypeOK' BY <2>1, <2>6, <2>8, <1>0 DEF FlowTypeOK
  <2>10. Kept' = Kept BY <2>1 DEF Kept, InHand
  <2>11. Kept \in Seq(Pushes) BY <1>0, PiecesAreSequences
  <2>12. \A i \in DOMAIN Kept : Kept[i] \in Nat
    <3> SUFFICES ASSUME NEW i \in DOMAIN Kept PROVE Kept[i] \in Nat OBVIOUS
    <3>1. i \in 1..Len(Kept) BY <2>11, LenProperties
    <3>2. Kept[i] \in Pushes BY <2>11, <3>1, ElementOfSeq
    <3> QED BY <3>2 DEF Pushes
  <2>13. rx.n \in Nat BY <1>0 DEF FlowTypeOK, Pushes, Nothing
  <2>14. DueInOrder'
    BY <2>1, <2>4, <2>7, <2>13 DEF FlowInv, ComeInOrder, DueInOrder
  <2>15. KeptInOrder'
    BY <2>1, <2>7, <2>10, <2>12 DEF FlowInv, ComeInOrder, KeptInOrder
  <2>16. NothingToOvertake' BY <2>1 DEF FlowInv, NothingToOvertake
  <2>17. AckedIsKeptOnce' /\ OrderHoldsUnlessCrowded'
    BY <2>1, <2>10 DEF FlowInv, AckedIsKeptOnce, OrderHoldsUnlessCrowded, Kept
  <2> QED BY <2>6, <2>9, <2>14, <2>15, <2>16, <2>17 DEF FlowInv, ComeInOrder
<1>3. CASE AnswersRegistration
  <2>1. WireIsSound BY <1>3, WireAnswers DEF AnswersRegistration, Kinds
  <2> QED BY <1>0, <1>1, <1>3, <2>1 DEF AnswersRegistration, FlowTypeOK
<1>4. CASE AnswersMessage
  <2>1. PICK n \in Pushes, v \in S!Verdicts : Arrives(Frame("response", n)) /\ S!Respond(n, v)
    BY <1>4 DEF AnswersMessage
  <2>2. WireIsSound BY <2>1, WireAnswers DEF Kinds, Pushes, Nothing
  <2> QED BY <1>0, <1>1, <1>4, <2>1, <2>2 DEF AnswersMessage, S!Respond, FlowTypeOK
<1>5. CASE SendsSync
  <2>1. WireIsSound BY <1>5, WireAnswers DEF SendsSync, Kinds
  <2> QED BY <1>0, <1>1, <1>5, <2>1 DEF SendsSync, FlowTypeOK
<1>6. CASE AnswersSync
  <2>1. WireIsSound BY <1>6, WireAnswers DEF AnswersSync, Kinds
  <2> QED BY <1>0, <1>1, <1>6, <2>1 DEF AnswersSync, FlowTypeOK
<1>7. CASE Drops
  <2>1. WireIsSound BY <1>7, WireUntouched DEF Drops
  <2> QED BY <1>1, <1>7, <2>1 DEF Drops
<1> QED BY <1>2, <1>3, <1>4, <1>5, <1>6, <1>7 DEF Platform

\* The inductive invariant of a session.
THEOREM SessionInvariant == Spec => []FlowInv
<1>1. Init => FlowInv
  <2> SUFFICES ASSUME Init PROVE FlowInv OBVIOUS
  <2>1. /\ net = <<>> /\ queue = <<>> /\ deferred = <<>> /\ handled = <<>> /\ InHand = <<>>
        /\ gate = FALSE /\ sock = FALSE /\ pushed = 0 /\ acked = {} /\ crowded = FALSE
        /\ rx = [at |-> "none", n |-> Nothing] /\ disp = [at |-> "get", n |-> Nothing]
    BY DEF Init, S!SendInit, InHand
  <2>2. DOMAIN net = {} /\ Due = {} /\ InFlight = {}
    <3>1. DOMAIN net = {} BY <2>1
    <3> QED BY <3>1 DEF Due, InFlight
  <2>3. FlowTypeOK
    <3>1. /\ <<>> \in Seq([kind : Kinds, id : Pushes \cup {Nothing}]) /\ <<>> \in Seq(Pushes)
          /\ Len(<<>>) = 0
      BY EmptySeq
    <3>2. Len(queue) <= QueueSize /\ pushed \in 0..Frames BY <2>1, <3>1, SessionAssumption
    <3> QED BY <2>1, <2>2, <3>1, <3>2 DEF FlowTypeOK
  <2>4. Kept = <<>> /\ DOMAIN Kept = {}
    <3>1. Kept = ((<<>> \o <<>>) \o <<>>) \o <<>> BY <2>1 DEF Kept
    <3>2. <<>> \o <<>> = <<>>
      <4>1. <<>> \in Seq(Pushes) BY EmptySeq
      <4> QED BY <4>1, ConcatEmptySeq
    <3>3. Kept = <<>> BY <3>1, <3>2
    <3> QED BY <3>3
  <2>5. NetRises BY <2>2 DEF NetRises
  <2>6. ComeInOrder BY <2>1, <2>2, <2>4 DEF ComeInOrder, DueInOrder, KeptInOrder, Nothing
  <2>7. NothingToOvertake BY <2>1 DEF NothingToOvertake
  <2>8. AckedIsKeptOnce /\ OrderHoldsUnlessCrowded
    BY <2>1, <2>4 DEF AckedIsKeptOnce, OrderHoldsUnlessCrowded, IsInjective, Kept
  <2> QED BY <2>3, <2>5, <2>6, <2>7, <2>8 DEF FlowInv
<1>2. FlowInv /\ [Next]_vars => FlowInv'
  <2> SUFFICES ASSUME FlowInv, [Next]_vars PROVE FlowInv' OBVIOUS
  <2>1. CASE UNCHANGED vars
    <3>1. WireIsSound BY <2>1, WireUntouched DEF vars
    <3> QED
      BY <3>1, <2>1, QuietSteps
      DEF vars, session, backlog, dispatcher, history, FlowInv, FlowTypeOK
  <2> QED
    BY <2>1, ReceiveKeeps, RunKeeps, DispatchKeeps, StoppingKeeps, PlatformKeeps DEF Next
<1> QED BY <1>1, <1>2, PTL DEF Spec

\* A frame that was acknowledged is kept until it is handled, and is kept once,
\* whatever becomes of the connections, of the gate and of stop().
THEOREM AckedFramesAreKeptOnce == Spec => []AckedIsKeptOnce
<1>1. FlowInv => AckedIsKeptOnce BY DEF FlowInv
<1> QED BY <1>1, SessionInvariant, PTL

\* Frames are handled in the order in which the platform sent them, over any
\* number of connections, as long as nobody had to wait for room.
THEOREM FramesKeepTheirOrder == Spec => []OrderHoldsUnlessCrowded
<1>1. FlowInv => OrderHoldsUnlessCrowded BY DEF FlowInv
<1> QED BY <1>1, SessionInvariant, PTL

-----------------------------------------------------------------------------
(* The sends of a session are those of SendMessage.                        *)

\* A step that touches neither the sends nor their connection.
Aside == UNCHANGED <<sending, gate, sock, InFlight>>

LEMMA AsideStutters == ASSUME Aside PROVE [S!SendNext]_(S!sendVars)
BY DEF Aside, sending, S!sendVars

LEMMA ReceiveImplements ==
  ASSUME FlowInv, Receive
  PROVE  [S!SendNext]_(S!sendVars)
<1> USE DEF session, sending
<1>1. CASE RxResponse
  <2>1. S!Match(Head(net).id) /\ Head(net).id # Nothing
        /\ Head(net).id \in Pushes \cup {Nothing}
    <3>1. Head(net).id \in Ids("response") /\ Head(net) \in [kind : Kinds, id : Pushes \cup {Nothing}]
      BY <1>1, WireReceives DEF RxResponse, Kinds
    <3>2. InFlight = Ids("response") BY DEF InFlight, Ids
    <3> QED BY <1>1, <3>1, <3>2 DEF RxResponse, FlowInv, FlowTypeOK
  <2> QED BY <2>1 DEF S!SendNext, S!Environment
<1>2. ASSUME NEW kind \in Kinds \ {"response"}, Received(kind) PROVE InFlight' = InFlight
  BY <1>2, WireReceives
<1>3. ASSUME net' = net PROVE InFlight' = InFlight BY <1>3 DEF InFlight
<1>4. CASE RxBusiness BY <1>2, <1>4, AsideStutters DEF RxBusiness, Kinds, Aside
<1>5. CASE RxRegistered BY <1>2, <1>5, AsideStutters DEF RxRegistered, Kinds, Aside
<1>6. CASE RxSync BY <1>2, <1>6, AsideStutters DEF RxSync, Kinds, Aside
<1>7. CASE RxExchange BY <1>2, <1>7, AsideStutters DEF RxExchange, Kinds, Aside
<1>8. CASE RxSlot \/ RxPut \/ RxEnds
  BY <1>3, <1>8, AsideStutters DEF RxSlot, RxPut, RxEnds, Aside
<1> QED BY <1>1, <1>4, <1>5, <1>6, <1>7, <1>8 DEF Receive

LEMMA SocketCloses ==
  ASSUME FlowInv, sock' = FALSE, UNCHANGED <<sending, gate, net>>
  PROVE  [S!SendNext]_(S!sendVars)
<1>1. InFlight' = InFlight BY DEF InFlight
<1>2. CASE sock
  <2>1. S!Closes BY <1>1, <1>2 DEF S!Closes, S!KeepsSend, sending
  <2> QED BY <2>1 DEF S!SendNext, S!Environment
<1>3. CASE ~sock BY <1>1, <1>3, AsideStutters DEF Aside, FlowInv, FlowTypeOK
<1> QED BY <1>2, <1>3

LEMMA OthersImplement ==
  ASSUME FlowInv, Exchange \/ Run \/ Dispatch \/ Stopping \/ StopCall \/ Retained
  PROVE  [S!SendNext]_(S!sendVars)
<1> USE DEF session
<1>1. ASSUME UNCHANGED <<sending, gate, sock, net>> PROVE [S!SendNext]_(S!sendVars)
  BY <1>1, AsideStutters DEF Aside, InFlight
<1>2. ASSUME NEW place, Teardown(place) PROVE [S!SendNext]_(S!sendVars)
  BY <1>2 DEF Teardown, S!SendNext, S!Environment
<1>3. CASE Exchange
  <2>1. CASE SyncReady BY <2>1, <1>1 DEF SyncReady
  <2>2. CASE SyncFails BY <2>2, SocketCloses DEF SyncFails
  <2> QED BY <1>3, <2>1, <2>2 DEF Exchange
<1>4. CASE Run
  <2>1. CASE Connects BY <2>1 DEF Connects, S!SendNext, S!Environment
  <2>2. CASE GateOpens BY <2>2 DEF GateOpens, S!SendNext, S!Environment
  <2>3. CASE RegistrationFails \/ SettleFails \/ SessionEnds
    BY <2>3, <1>2 DEF RegistrationFails, SettleFails, SessionEnds
  <2>4. CASE Registered \/ FlushGoesOn \/ Serves \/ LeavesLoop
    BY <2>4, <1>1 DEF Registered, FlushGoesOn, Serves, LeavesLoop
  <2> QED BY <1>4, <2>1, <2>2, <2>3, <2>4 DEF Run
<1>5. CASE Dispatch
  <2>1. CASE DSends
    <3>1. disp.n \in Pushes BY <2>1, SessionAssumption DEF DSends, Pushes
    <3>2. S!Send(disp.n) BY <2>1 DEF DSends
    <3> QED BY <3>1, <3>2 DEF S!SendNext
  <2>2. CASE DGet \/ DGate \/ DDone BY <2>2, <1>1 DEF DGet, DGate, DDone
  <2> QED BY <1>5, <2>1, <2>2 DEF Dispatch
<1>6. CASE Stopping
  <2>1. CASE StopCancels BY <2>1, <1>2 DEF StopCancels
  <2>2. CASE Deadline \/ StopSeesEnd \/ StopFlushes \/ StopHandsOver
    BY <2>2, <1>1 DEF Deadline, StopSeesEnd, StopFlushes, StopHandsOver
  <2>3. CASE StopJoins \/ StopEnds \/ StopLeavesDispatcher
    BY <2>3, <1>1 DEF StopJoins, StopEnds, StopLeavesDispatcher
  <2> QED BY <1>6, <2>1, <2>2, <2>3 DEF Stopping
<1>7. CASE StopCall BY <1>7, SocketCloses DEF StopCall
<1>8. CASE Retained BY <1>8, <1>1 DEF Retained, RetainedFlushes, RetainedEnds
<1> QED BY <1>3, <1>4, <1>5, <1>6, <1>7, <1>8

LEMMA PlatformImplements ==
  ASSUME FlowInv, Platform
  PROVE  [S!SendNext]_(S!sendVars)
<1> USE DEF session
<1>1. CASE AnswersMessage BY <1>1 DEF AnswersMessage, S!SendNext, S!Environment
<1>2. CASE Drops BY <1>2, SocketCloses DEF Drops
<1>3. CASE Pushed
  <2>1. InFlight' = InFlight
    <3> DEFINE f == Frame("business", pushed + 1)
    <3>1. FlowTypeOK /\ net' = Append(net, f) BY <1>3 DEF FlowInv, Pushed, Arrives
    <3>2. f \in [kind : Kinds, id : Pushes \cup {Nothing}] /\ f.kind = "business"
      BY <1>3, SessionAssumption DEF FlowInv, FlowTypeOK, Pushed, Frame, Kinds, Pushes
    <3> HIDE DEF f
    <3>3. Ids("response")' = Ids("response") BY <3>1, <3>2, WireGrows
    <3>4. InFlight = Ids("response") /\ InFlight' = Ids("response")' BY DEF InFlight, Ids
    <3> QED BY <3>3, <3>4
  <2> QED BY <2>1, <1>3, AsideStutters DEF Pushed, Aside
<1>4. CASE AnswersRegistration
  <2>1. InFlight' = InFlight BY <1>4, WireAnswers DEF AnswersRegistration, Kinds
  <2> QED BY <2>1, <1>4, AsideStutters DEF AnswersRegistration, Aside
<1>5. CASE SendsSync
  <2>1. InFlight' = InFlight BY <1>5, WireAnswers DEF SendsSync, Kinds
  <2> QED BY <2>1, <1>5, AsideStutters DEF SendsSync, Aside
<1>6. CASE AnswersSync
  <2>1. InFlight' = InFlight BY <1>6, WireAnswers DEF AnswersSync, Kinds
  <2> QED BY <2>1, <1>6, AsideStutters DEF AnswersSync, Aside
<1> QED BY <1>1, <1>2, <1>3, <1>4, <1>5, <1>6 DEF Platform

\* The session implements SendMessage, with its socket for the connection, its
\* gate for readiness, and the responses on its wire for the answers.
THEOREM SessionImplementsSends == Spec => SendSpec
<1>1. Init => S!SendInit BY DEF Init
<1>2. FlowInv /\ [Next]_vars => [S!SendNext]_(S!sendVars)
  <2> SUFFICES ASSUME FlowInv, [Next]_vars PROVE [S!SendNext]_(S!sendVars) OBVIOUS
  <2>1. CASE UNCHANGED vars
    BY <2>1, AsideStutters DEF vars, session, Aside, InFlight
  <2> QED BY <2>1, ReceiveImplements, OthersImplement, PlatformImplements DEF Next
<1> QED BY <1>1, <1>2, SessionInvariant, PTL DEF Spec, SendSpec, S!SendSpec

\* Through every reconnection and stop, what the callers of send_text are told
\* is true, and the audit log bears it out.
THEOREM SessionSendsAreTrue == Spec => []SendsAreTrue
<1>1. SendInv => SendsAreTrue BY DEF SendInv, SendsAreTrue
<1> QED BY <1>1, SessionImplementsSends, SendInvariant, PTL DEF SendSpec
=============================================================================
