---------------------------- MODULE RepliesProofs ----------------------------
(***************************************************************************)
(* For any messages, rules, workers and bounds: the hourly rate holds, the *)
(* reply log is complete and true, and outbound texts are kept.            *)
(*                                                                         *)
(* The argument: whoever has a text to log knows which rule it is for and  *)
(* whether it went out (Fits), and the rule has been counted by then or is *)
(* gone (Earned, Counts); who passes the gate was counted as a row first   *)
(* (admitted is a part of the rows).                                       *)
(***************************************************************************)
EXTENDS Replies, SequenceTheorems, FiniteSetTheorems, TLAPS

\* j is a job that ends in a row of the reply log.
ToLog(j) == j.pc \in {"wait", "log"} \/ (j.pc \in {"keep", "add"} /\ j.of = "ack")

\* What an outbound row may be, and what it may be made of.
OutRows == {"sparse", "full", "bare"}
Sources == {"ack", "push", "bare push"}

\* What p may be in the middle of, given the tries and which went out.
Fits(p, j, tr, we) ==
  /\ j.pc = "send" => IF p = Cli THEN j.r = NoRule ELSE j.r \in Rules
  /\ j.pc \in {"find", "insert"} => j.m \in Msgs
  /\ j.pc = "hit" => j.r \in Rules
  /\ j.pc = "count" => j.r \in Rules /\ j.n \in Nat /\ j.n > 0
  /\ j.pc \in {"wait", "keep", "add", "log"} => j.i \in DOMAIN tr
  /\ j.pc \in {"keep", "add"} => j.i \in we /\ j.of \in Sources
  /\ j.pc = "log" => p # Cli /\ j.res \in {"ok", "failed"} /\ (j.res = "ok" => j.i \in we)
  /\ ToLog(j) /\ p # Cli => tr[j.i] \in Rules

\* A rule that is to reply has been counted, unless it is gone.
Earned(j, h, ru) == j.pc = "send" /\ j.r \in Rules => h[j.r] > 0 \/ ru[j.r] = "gone"

Jobs1 == \A p \in Procs : Fits(p, job[p], tries, went) /\ Earned(job[p], hits, rule)

Shape ==
  /\ live \in BOOLEAN /\ rule \in [Rules -> {"absent", "on", "off", "gone"}] /\ hits \in [Rules -> Nat]
  /\ inbound \in Seq(Msgs) /\ recent \subseteq DOMAIN inbound /\ admitted \subseteq DOMAIN inbound
  /\ out \in [Tries -> Seq(OutRows)] /\ logs \in [Tries -> {"none", "ok", "failed"}]
  /\ tries \in Seq(Rules \cup {NoRule}) /\ Len(tries) <= MaxTries /\ DOMAIN job = Procs

Counts == \A i \in DOMAIN tries : tries[i] \in Rules => hits[tries[i]] > 0 \/ rule[tries[i]] = "gone"

\* A row of the log is about a try of a rule, and is true.
Rows ==
  \A i \in Tries : logs[i] # "none" =>
    /\ i \in DOMAIN tries /\ tries[i] \in Rules
    /\ logs[i] = "ok" => i \in went
    /\ hits[tries[i]] > 0

RepliesInv ==
  /\ Shape /\ Jobs1 /\ Counts /\ Rows /\ RepliesAreLogged /\ OutboundIsKept /\ FewAreAdmitted

LEMMA HoldsIs ==
  ASSUME NEW p, NEW i PROVE Holds(p, i) <=> ToLog(job[p]) /\ job[p].i = i
BY DEF Holds, ToLog, At

\* Nothing that a process relies on is ever taken back.
Grows ==
  /\ \A i \in DOMAIN tries : i \in DOMAIN tries' /\ tries'[i] = tries[i]
  /\ went \subseteq went'
  /\ \A r \in Rules : hits[r] > 0 => hits'[r] > 0
  /\ \A r \in Rules : rule[r] = "gone" => rule'[r] = "gone"

LEMMA JobsKept ==
  ASSUME RepliesInv, Grows, NEW p \in Procs, NEW j, Goes(p, j),
         Fits(p, j, tries', went'), Earned(j, hits', rule')
  PROVE  Jobs1' /\ DOMAIN job' = Procs /\ job'[p] = j /\ \A q \in Procs : q # p => job'[q] = job[q]
<1>1. DOMAIN job' = Procs /\ job'[p] = j /\ \A q \in Procs : q # p => job'[q] = job[q]
  BY DEF RepliesInv, Shape, Goes
<1>2. ASSUME NEW q \in Procs PROVE Fits(q, job[q], tries', went') /\ Earned(job[q], hits', rule')
  <2>1. Fits(q, job[q], tries, went) /\ Earned(job[q], hits, rule) BY DEF RepliesInv, Jobs1
  <2>2. Fits(q, job[q], tries', went')
    <3>1. ToLog(job[q]) => job[q].i \in DOMAIN tries BY <2>1 DEF Fits, ToLog
    <3> QED BY <2>1, <3>1 DEF Fits, Grows
  <2> QED BY <2>1, <2>2 DEF Earned, Grows
<1>3. ASSUME NEW q \in Procs PROVE Fits(q, job'[q], tries', went') /\ Earned(job'[q], hits', rule')
  <2>1. CASE q = p BY <1>1, <2>1
  <2>2. CASE q # p BY <1>1, <1>2, <2>2
  <2> QED BY <2>1, <2>2
<1> QED BY <1>1, <1>3 DEF Jobs1

\* A step of p that leaves the texts and what is known of them alone.
LEMMA StepKeeps ==
  ASSUME RepliesInv, NEW p \in Procs, NEW j, Goes(p, j),
         UNCHANGED <<live, rule, out, logs, tries, went, told, pushed, forgot>>,
         hits' \in [Rules -> Nat], \A r \in Rules : hits[r] > 0 => hits'[r] > 0,
         inbound' \in Seq(Msgs), recent' \subseteq DOMAIN inbound', admitted' \subseteq DOMAIN inbound',
         FewAreAdmitted', Fits(p, j, tries, went), Earned(j, hits', rule),
         p \in Workers => \A i : ToLog(job[p]) /\ job[p].i = i => ToLog(j) /\ j.i = i
  PROVE  RepliesInv'
<1>1. Grows BY DEF Grows
<1>2. Jobs1' /\ DOMAIN job' = Procs /\ job'[p] = j /\ \A q \in Procs : q # p => job'[q] = job[q]
  <2>1. Fits(p, j, tries', went') /\ Earned(j, hits', rule') OBVIOUS
  <2> QED BY <1>1, <2>1, JobsKept
<1>3. Shape' BY <1>2 DEF RepliesInv, Shape
<1>4. Counts' /\ OutboundIsKept' BY DEF RepliesInv, Counts, OutboundIsKept, Keyed
<1>5. Rows' BY DEF RepliesInv, Rows
<1>6. ASSUME NEW w \in Workers, NEW i, Holds(w, i) PROVE Holds(w, i)'
  <2>1. ToLog(job[w]) /\ job[w].i = i BY <1>6, HoldsIs
  <2>2. ToLog(job'[w]) /\ job'[w].i = i BY <2>1, <1>2 DEF Procs
  <2> QED BY <2>2 DEF Holds, ToLog, At
<1>7. RepliesAreLogged' BY <1>6 DEF RepliesInv, RepliesAreLogged
<1> QED BY <1>2, <1>3, <1>4, <1>5, <1>7 DEF RepliesInv

\* A step of p that changes nothing else.
LEMMA JobOnly ==
  ASSUME RepliesInv, NEW p \in Procs, NEW j, Goes(p, j), UNCHANGED <<tables, history>>,
         Fits(p, j, tries, went), Earned(j, hits, rule),
         p \in Workers => \A i : ToLog(job[p]) /\ job[p].i = i => ToLog(j) /\ j.i = i
  PROVE  RepliesInv'
<1>1. /\ UNCHANGED <<live, rule, out, logs, tries, went, told, pushed, forgot>>
      /\ UNCHANGED <<hits, inbound, recent, admitted>>
  BY DEF tables, mail, history, sent
<1>2. hits' \in [Rules -> Nat] /\ inbound' \in Seq(Msgs) /\ recent' \subseteq DOMAIN inbound'
      /\ admitted' \subseteq DOMAIN inbound' /\ FewAreAdmitted'
  BY <1>1 DEF RepliesInv, Shape, FewAreAdmitted
<1> QED BY <1>1, <1>2, StepKeeps

\* A job that has no text in hand.
LEMMA EmptyHanded ==
  ASSUME NEW j, j.pc \in {"idle", "gate", "match", "close"}, NEW p,
         NEW tr, NEW we, NEW h, NEW ru
  PROVE  Fits(p, j, tr, we) /\ Earned(j, h, ru)
BY DEF Fits, Earned, ToLog

\* Of fewer rows, no more are let through.
LEMMA RecentIsFinite == RepliesInv => IsFiniteSet(recent)
<1> SUFFICES ASSUME RepliesInv PROVE IsFiniteSet(recent) OBVIOUS
<1>1. recent \subseteq 1 .. Len(inbound) /\ Len(inbound) \in Nat BY DEF RepliesInv, Shape
<1>2. IsFiniteSet(1 .. Len(inbound)) BY <1>1, FS_Interval
<1> QED BY <1>1, <1>2, FS_Subset

LEMMA FewerAreFew ==
  ASSUME RepliesInv, admitted' \cap recent' \subseteq admitted \cap recent
  PROVE  FewAreAdmitted'
<1>1. IsFiniteSet(admitted \cap recent) BY RecentIsFinite, FS_Subset
<1>2. /\ Cardinality(admitted' \cap recent') <= Cardinality(admitted \cap recent)
      /\ IsFiniteSet(admitted' \cap recent')
  BY <1>1, FS_Subset
<1>3. Cardinality(admitted' \cap recent') \in Nat /\ Cardinality(admitted \cap recent) \in Nat
  BY <1>1, <1>2, FS_CardinalityType
<1> QED BY <1>2, <1>3, RepliesAssumption DEF RepliesInv, FewAreAdmitted

LEMMA IdleIs == Idle.pc = "idle" BY DEF Idle

LEMMA WorkersAct == Workers \subseteq Procs /\ Cli \in Procs /\ Cli \notin Workers
BY RepliesAssumption DEF Procs

\* Steps that only read: to a job without a text, ...
LEMMA ToEmpty ==
  ASSUME RepliesInv, NEW w \in Workers, NEW j, Goes(w, j), UNCHANGED <<tables, history>>,
         ~ToLog(job[w]), j.pc \in {"idle", "gate", "match", "close"}
  PROVE  RepliesInv'
BY EmptyHanded, WorkersAct, JobOnly

LEMMA ToFind ==
  ASSUME RepliesInv, NEW w \in Workers, NEW m \in Msgs, NEW pc \in {"find", "insert"},
         Goes(w, [pc |-> pc, m |-> m]), UNCHANGED <<tables, history>>, ~ToLog(job[w])
  PROVE  RepliesInv'
<1> DEFINE j == [pc |-> pc, m |-> m]
<1>1. Fits(w, j, tries, went) /\ Earned(j, hits, rule) BY DEF Fits, Earned, ToLog
<1> QED BY <1>1, WorkersAct, JobOnly

LEMMA ReceiveKeeps ==
  ASSUME RepliesInv, NEW w \in Workers, NEW m \in Msgs, Receive(w, m)
  PROVE  RepliesInv'
<1>1. UNCHANGED <<tables, history>> /\ ~ToLog(job[w]) BY DEF Receive, At, ToLog
<1> QED BY <1>1, ToFind DEF Receive

LEMMA FindInboundKeeps ==
  ASSUME RepliesInv, NEW w \in Workers, FindInbound(w)
  PROVE  RepliesInv'
<1> DEFINE m == job[w].m
           known == m \notin Nameless /\ RowsOf(m) # {}
<1>1. UNCHANGED <<tables, history>> /\ ~ToLog(job[w]) BY DEF FindInbound, At, ToLog
<1>2. m \in Msgs BY WorkersAct DEF FindInbound, At, RepliesInv, Jobs1, Fits
<1>3. CASE ~live
  <2> DEFINE j == [pc |-> "gate", m |-> m, k |-> 0]
  <2>1. Goes(w, j) BY <1>3 DEF FindInbound
  <2> QED BY <1>1, <2>1, ToEmpty
<1>4. CASE live /\ known
  <2> DEFINE j == [pc |-> "gate", m |-> m, k |-> CHOOSE k \in RowsOf(m) : TRUE]
  <2>1. Goes(w, j) BY <1>4 DEF FindInbound
  <2>2. j.pc = "gate" OBVIOUS
  <2> HIDE DEF j
  <2> QED BY <1>1, <2>1, <2>2, ToEmpty
<1>5. CASE live /\ ~known
  <2>1. Goes(w, [pc |-> "insert", m |-> m]) BY <1>5 DEF FindInbound
  <2> QED BY <1>1, <1>2, <2>1, ToFind
<1> QED BY <1>3, <1>4, <1>5

\* ... to a rule, or to its count, ...
LEMMA RuleSteps ==
  ASSUME RepliesInv, NEW w \in Workers, Match(w) \/ ReadHits(w)
  PROVE  RepliesInv'
<1>0. w \in Procs /\ w # Cli BY WorkersAct
<1>1. CASE Match(w)
  <2> DEFINE S == IF live THEN Accepting(job[w].m) ELSE {}
  <2>1. S \subseteq Rules BY DEF Accepting
  <2>2. ~ToLog(job[w]) /\ UNCHANGED <<tables, history>> BY <1>1 DEF Match, At, ToLog
  <2>3. CASE S = {} /\ Goes(w, Idle) BY <2>2, <2>3, IdleIs, ToEmpty
  <2>4. ASSUME NEW r \in S, Goes(w, [pc |-> "hit", r |-> r]) PROVE RepliesInv'
    <3> DEFINE j == [pc |-> "hit", r |-> r]
    <3>1. Fits(w, j, tries, went) /\ Earned(j, hits, rule) BY <2>1 DEF Fits, Earned, ToLog
    <3> QED BY <1>0, <2>2, <2>4, <3>1, JobOnly
  <2> QED BY <1>1, <2>3, <2>4 DEF Match
<1>2. CASE ReadHits(w)
  <2> DEFINE r == job[w].r
  <2>1. r \in Rules BY <1>0, <1>2 DEF ReadHits, At, RepliesInv, Jobs1, Fits
  <2>2. hits[r] \in Nat BY <2>1 DEF RepliesInv, Shape
  <2>3. ~ToLog(job[w]) BY <1>2 DEF ReadHits, At, ToLog
  <2>4. CASE rule[r] = "gone"
    <3> DEFINE j == [pc |-> "send", r |-> r]
    <3>1. Goes(w, j) /\ UNCHANGED <<tables, history>> BY <1>2, <2>4 DEF ReadHits
    <3>2. Fits(w, j, tries, went) /\ Earned(j, hits, rule) BY <1>0, <2>1, <2>4 DEF Fits, Earned, ToLog
    <3> QED BY <1>0, <2>3, <3>1, <3>2, JobOnly
  <2>5. CASE rule[r] # "gone"
    <3> DEFINE j == [pc |-> "count", r |-> r, n |-> hits[r] + 1]
    <3>1. Goes(w, j) /\ UNCHANGED <<tables, history>> BY <1>2, <2>5 DEF ReadHits
    <3>2. Fits(w, j, tries, went) /\ Earned(j, hits, rule) BY <2>1, <2>2 DEF Fits, Earned, ToLog
    <3> QED BY <1>0, <2>3, <3>1, <3>2, JobOnly
  <2> QED BY <2>4, <2>5
<1> QED BY <1>1, <1>2

\* What becomes of a text: the worker still has to log it.
LEMMA AfterFits ==
  ASSUME NEW p \in Procs, NEW i, NEW res \in {"ok", "failed"}, NEW tr, NEW we, NEW h, NEW ru,
         i \in DOMAIN tr, res = "ok" => i \in we, p # Cli => tr[i] \in Rules
  PROVE  /\ Fits(p, After(p, i, res), tr, we) /\ Earned(After(p, i, res), h, ru)
         /\ p \in Workers => ToLog(After(p, i, res)) /\ After(p, i, res).i = i
<1>1. CASE p = Cli
  <2>1. After(p, i, res) = [pc |-> "close"] BY <1>1 DEF After
  <2> QED BY <1>1, <2>1, WorkersAct DEF Fits, Earned, ToLog
<1>2. CASE p # Cli
  <2>1. After(p, i, res) = [pc |-> "log", i |-> i, res |-> res] BY <1>2 DEF After
  <2> QED BY <1>2, <2>1 DEF Fits, Earned, ToLog
<1> QED BY <1>1, <1>2

\* ... to the outcome of a text, ...
LEMMA AnswerKeeps ==
  ASSUME RepliesInv, NEW p \in Procs, Answer(p)
  PROVE  RepliesInv'
<1> DEFINE i == job[p].i
<1>1. /\ job[p].pc = "wait" /\ i \in DOMAIN tries /\ (p # Cli => tries[i] \in Rules)
      /\ \A n : ToLog(job[p]) /\ job[p].i = n => n = i
      /\ UNCHANGED <<tables, history>>
  BY DEF Answer, At, RepliesInv, Jobs1, Fits, ToLog
<1>2. CASE i \in went /\ Goes(p, [pc |-> "keep", i |-> i, of |-> "ack"])
  <2> DEFINE j == [pc |-> "keep", i |-> i, of |-> "ack"]
  <2>1. Fits(p, j, tries, went) /\ Earned(j, hits, rule) /\ ToLog(j) /\ j.i = i
    BY <1>1, <1>2 DEF Fits, Earned, ToLog, Sources
  <2> QED BY <1>1, <1>2, <2>1, JobOnly
<1>3. CASE i \in went /\ Goes(p, After(p, i, "ok"))
  <2> DEFINE j == After(p, i, "ok")
  <2>1. Fits(p, j, tries, went) /\ Earned(j, hits, rule) /\ (p \in Workers => ToLog(j) /\ j.i = i)
    BY <1>1, <1>3, AfterFits
  <2> HIDE DEF j
  <2>2. Goes(p, j) BY <1>3 DEF j
  <2> QED BY <1>1, <2>1, <2>2, JobOnly
<1>4. CASE Goes(p, Uncertain(p))
  <2> DEFINE j == After(p, i, "failed")
  <2>1. Fits(p, j, tries, went) /\ Earned(j, hits, rule) /\ (p \in Workers => ToLog(j) /\ j.i = i)
    BY <1>1, AfterFits
  <2>2. Goes(p, j) BY <1>4 DEF Uncertain
  <2> HIDE DEF j
  <2> QED BY <1>1, <2>1, <2>2, JobOnly
<1> QED BY <1>2, <1>3, <1>4 DEF Answer

\* ... to a push, and to the command's own text.
LEMMA PushKeeps ==
  ASSUME RepliesInv, NEW w \in Workers, NEW i \in DOMAIN tries, NEW of \in {"push", "bare push"}, ReceivePush(w, i, of)
  PROVE  RepliesInv'
<1> DEFINE j == [pc |-> "keep", i |-> i, of |-> of]
<1>1. Fits(w, j, tries, went) /\ Earned(j, hits, rule) BY DEF ReceivePush, Fits, Earned, ToLog, Sources
<1>2. Goes(w, j) /\ UNCHANGED <<tables, history>> /\ ~ToLog(job[w]) BY DEF ReceivePush, At, ToLog
<1> QED BY <1>1, <1>2, WorkersAct, JobOnly

LEMMA SameKeeps ==
  ASSUME RepliesInv, UNCHANGED <<tables, job, history>>
  PROVE  RepliesInv'
BY DEF RepliesInv, Shape, Jobs1, Counts, Rows, RepliesAreLogged, OutboundIsKept, Keyed, FewAreAdmitted,
       Holds, At, tables, mail, history, sent

LEMMA ConnectKeeps ==
  ASSUME RepliesInv, NEW w \in Workers, Connect(w)
  PROVE  RepliesInv'
<1>1. CASE w = CliWorker
  <2> DEFINE j == [pc |-> "send", r |-> NoRule]
  <2>1. Fits(Cli, j, tries, went) /\ Earned(j, hits, rule)
    BY RepliesAssumption DEF Fits, Earned, ToLog
  <2>2. Goes(Cli, j) /\ UNCHANGED <<tables, history>> BY <1>1 DEF Connect
  <2> QED BY <2>1, <2>2, WorkersAct, JobOnly
<1>2. CASE w # CliWorker BY <1>2, SameKeeps DEF Connect
<1> QED BY <1>1, <1>2

\* A message becomes a row, which has not been let through yet.
LEMMA InsertInboundKeeps ==
  ASSUME RepliesInv, NEW w \in Workers, InsertInbound(w)
  PROVE  RepliesInv'
<1> DEFINE m == job[w].m
<1>0. /\ UNCHANGED <<live, rule, out, logs, tries, went, told, pushed, forgot, hits, admitted>>
      /\ ~ToLog(job[w]) /\ w \in Procs
  BY WorkersAct DEF InsertInbound, history, sent, At, ToLog
<1>1. CASE live /\ (m \in Nameless \/ RowsOf(m) = {})
  <2> DEFINE k == Len(inbound) + 1
             j == [pc |-> "gate", m |-> m, k |-> k]
  <2>1. inbound' = Append(inbound, m) /\ recent' \subseteq recent \cup {k} /\ Goes(w, j)
    BY <1>1 DEF InsertInbound
  <2>2. m \in Msgs
    BY <1>0 DEF InsertInbound, At, RepliesInv, Jobs1, Fits
  <2>3. inbound' \in Seq(Msgs) /\ DOMAIN inbound' = DOMAIN inbound \cup {k} /\ k \notin DOMAIN inbound
    BY <2>1, <2>2 DEF RepliesInv, Shape
  <2>4. recent' \subseteq DOMAIN inbound' /\ admitted' \subseteq DOMAIN inbound'
    BY <1>0, <2>1, <2>3 DEF RepliesInv, Shape
  <2>5. FewAreAdmitted'
    <3>1. admitted' \cap recent' \subseteq admitted \cap recent
      BY <1>0, <2>1, <2>3 DEF RepliesInv, Shape
    <3> QED BY <3>1, FewerAreFew
  <2>6. Fits(w, j, tries, went) /\ Earned(j, hits', rule) BY DEF Fits, Earned, ToLog
  <2>7. hits' \in [Rules -> Nat] /\ \A q \in Rules : hits[q] > 0 => hits'[q] > 0
    BY <1>0 DEF RepliesInv, Shape
  <2> HIDE DEF j
  <2> QED BY <1>0, <2>1, <2>3, <2>4, <2>5, <2>6, <2>7, StepKeeps
<1>2. CASE ~(live /\ (m \in Nameless \/ RowsOf(m) = {}))
  <2>1. Goes(w, Idle) /\ UNCHANGED <<tables, history>>
    BY <1>2 DEF InsertInbound, tables, mail
  <2> QED BY <1>0, <2>1, IdleIs, ToEmpty
<1> QED BY <1>1, <1>2

\* The gate lets a message through that was counted with the others.
LEMMA GateKeeps ==
  ASSUME RepliesInv, NEW w \in Workers, Gate(w)
  PROVE  RepliesInv'
<1>0. /\ UNCHANGED <<live, rule, out, logs, tries, went, told, pushed, forgot, hits, inbound, recent>>
      /\ ~ToLog(job[w]) /\ w \in Procs
  BY WorkersAct DEF Gate, tables, mail, sent, At, ToLog
<1>1. CASE WithinRate /\ Goes(w, [pc |-> "match", m |-> job[w].m])
           /\ admitted' = admitted \cup ({job[w].k} \cap DOMAIN inbound)
  <2> DEFINE j == [pc |-> "match", m |-> job[w].m]
  <2>1. admitted' \cap recent' \subseteq recent BY <1>0
  <2>2. FewAreAdmitted'
    <3>1. IsFiniteSet(recent) BY RecentIsFinite
    <3>2. Cardinality(admitted' \cap recent') <= Cardinality(recent) /\ IsFiniteSet(admitted' \cap recent')
      BY <2>1, <3>1, FS_Subset
    <3>3. Cardinality(admitted' \cap recent') \in Nat /\ Cardinality(recent) \in Nat
      BY <3>1, <3>2, FS_CardinalityType
    <3> QED BY <1>1, <3>2, <3>3, RepliesAssumption DEF WithinRate, FewAreAdmitted
  <2>3. inbound' \in Seq(Msgs) /\ recent' \subseteq DOMAIN inbound' /\ admitted' \subseteq DOMAIN inbound'
        /\ hits' \in [Rules -> Nat]
    BY <1>0, <1>1 DEF RepliesInv, Shape
  <2> QED BY <1>0, <1>1, <2>2, <2>3, EmptyHanded, StepKeeps
<1>2. CASE Goes(w, Idle) /\ UNCHANGED admitted
  <2>1. UNCHANGED <<tables, history>> BY <1>0, <1>2 DEF tables, mail, history, sent
  <2> QED BY <1>0, <1>2, <2>1, IdleIs, ToEmpty
<1> QED BY <1>1, <1>2 DEF Gate

\* The hour of a message passes.
LEMMA AgeKeeps ==
  ASSUME RepliesInv, NEW k \in DOMAIN inbound, Age(k)
  PROVE  RepliesInv'
<1>1. admitted' \cap recent' \subseteq admitted \cap recent BY DEF Age, history
<1>2. FewAreAdmitted' BY <1>1, FewerAreFew
<1> QED BY <1>2 DEF RepliesInv, Shape, Jobs1, Counts, Rows, RepliesAreLogged, OutboundIsKept, Keyed, Age,
                    Holds, At, history, sent

\* A rule is counted before it replies.
LEMMA WriteHitsKeeps ==
  ASSUME RepliesInv, NEW w \in Workers, WriteHits(w)
  PROVE  RepliesInv'
<1> DEFINE r == job[w].r  n == job[w].n
<1>0. /\ UNCHANGED <<live, rule, out, logs, tries, went, told, pushed, forgot, inbound, recent, admitted>>
      /\ ~ToLog(job[w]) /\ w \in Procs /\ w # Cli
  BY WorkersAct DEF WriteHits, mail, history, sent, At, ToLog
<1>1. r \in Rules /\ n \in Nat /\ n > 0 BY <1>0 DEF WriteHits, At, RepliesInv, Jobs1, Fits
<1>2. CASE rule[r] = "gone"
  <2>1. Goes(w, Idle) /\ UNCHANGED <<tables, history>>
    BY <1>0, <1>2 DEF WriteHits, tables, mail, history, sent
  <2> QED BY <1>0, <2>1, IdleIs, ToEmpty
<1>3. CASE rule[r] # "gone"
  <2> DEFINE j == [pc |-> "send", r |-> r]
  <2>1. hits' = [hits EXCEPT ![r] = n] /\ Goes(w, j) BY <1>3 DEF WriteHits, Counted
  <2>2. hits' \in [Rules -> Nat] /\ hits'[r] > 0 /\ \A q \in Rules : hits[q] > 0 => hits'[q] > 0
    BY <1>1, <2>1 DEF RepliesInv, Shape
  <2>3. Fits(w, j, tries, went) /\ Earned(j, hits', rule) BY <1>0, <1>1, <2>2 DEF Fits, Earned, ToLog
  <2>4. /\ inbound' \in Seq(Msgs) /\ recent' \subseteq DOMAIN inbound'
        /\ admitted' \subseteq DOMAIN inbound' /\ FewAreAdmitted'
    BY <1>0 DEF RepliesInv, Shape, FewAreAdmitted
  <2> QED BY <1>0, <2>1, <2>2, <2>3, <2>4, StepKeeps
<1> QED BY <1>2, <1>3

\* A text is tried.  It is one that nobody has logged before.
LEMMA SendKeeps ==
  ASSUME RepliesInv, NEW p \in Procs, Send(p)
  PROVE  RepliesInv'
<1> DEFINE i == Len(tries) + 1  r == job[p].r
<1>0. UNCHANGED <<live, rule, hits, inbound, recent, out, logs, told, pushed, admitted, forgot>>
  BY DEF Send, tables, mail
<1>1. /\ job[p].pc = "send" /\ ~ToLog(job[p]) /\ (IF p = Cli THEN r = NoRule ELSE r \in Rules)
      /\ (r \in Rules => hits[r] > 0 \/ rule[r] = "gone")
  BY DEF Send, At, ToLog, RepliesInv, Jobs1, Fits, Earned
<1>2. /\ tries' = Append(tries, r) /\ tries' \in Seq(Rules \cup {NoRule}) /\ Len(tries') <= MaxTries
      /\ DOMAIN tries' = DOMAIN tries \cup {i} /\ i \notin DOMAIN tries /\ tries'[i] = r /\ i \in Tries
      /\ \A n \in DOMAIN tries : tries'[n] = tries[n]
  BY <1>1, RepliesAssumption DEF Send, RepliesInv, Shape, Tries
<1>3. PICK j : /\ Goes(p, j) /\ went' \in {went, went \cup {i}}
               /\ Fits(p, j, tries', went') /\ Earned(j, hits', rule')
               /\ (p \in Workers => ToLog(j) /\ j.i = i)
  <2>1. CASE Goes(p, [pc |-> "wait", i |-> i]) /\ went' \in {went, went \cup {i}}
    <3> DEFINE j == [pc |-> "wait", i |-> i]
    <3>1. /\ Fits(p, j, tries', went') /\ Earned(j, hits', rule') /\ ToLog(j) /\ j.i = i
      BY <1>1, <1>2 DEF Fits, Earned, ToLog
    <3> QED BY <2>1, <3>1
  <2>2. CASE Goes(p, After(p, i, "failed")) /\ UNCHANGED went
    <3> DEFINE j == After(p, i, "failed")
    <3>1. /\ Fits(p, j, tries', went') /\ Earned(j, hits', rule')
          /\ p \in Workers => ToLog(j) /\ j.i = i
      BY <1>1, <1>2, AfterFits
    <3> HIDE DEF j
    <3>2. Goes(p, j) BY <2>2 DEF j
    <3> QED BY <2>2, <3>1, <3>2
  <2> QED BY <2>1, <2>2 DEF Send
<1>4. Grows BY <1>0, <1>2, <1>3 DEF Grows
<1>5. Jobs1' /\ DOMAIN job' = Procs /\ job'[p] = j /\ \A q \in Procs : q # p => job'[q] = job[q]
  BY <1>3, <1>4, JobsKept
<1>6. Shape' BY <1>0, <1>2, <1>5 DEF RepliesInv, Shape
<1>7. Counts' BY <1>0, <1>1, <1>2 DEF RepliesInv, Counts
<1>8. Rows' /\ OutboundIsKept' /\ FewAreAdmitted'
  <2>1. OutboundIsKept' /\ FewAreAdmitted' BY <1>0 DEF RepliesInv, OutboundIsKept, Keyed, FewAreAdmitted
  <2>2. Rows' BY <1>0, <1>2, <1>3 DEF RepliesInv, Rows
  <2> QED BY <2>1, <2>2
<1>9. RepliesAreLogged'
  <2> SUFFICES ASSUME live', NEW n \in DOMAIN tries', tries'[n] # NoRule, logs'[n] = "none",
                      rule'[tries'[n]] # "gone", n \notin forgot'
               PROVE  \E w \in Workers : Holds(w, n)'
    BY DEF RepliesAreLogged
  <2>1. CASE n = i
    <3>1. p \in Workers BY <1>1, <1>2, <2>1 DEF Procs
    <3>2. ToLog(job'[p]) /\ job'[p].i = n BY <1>3, <1>5, <2>1, <3>1
    <3> QED BY <3>1, <3>2 DEF Holds, ToLog, At
  <2>2. CASE n # i
    <3>1. PICK w \in Workers : Holds(w, n)
      BY <1>0, <1>2, <2>2 DEF RepliesInv, RepliesAreLogged
    <3>2. w # p BY <1>1, <3>1, HoldsIs
    <3>3. job'[w] = job[w] BY <1>5, <3>2, WorkersAct
    <3> QED BY <3>1, <3>3 DEF Holds, At
  <2> QED BY <2>1, <2>2
<1> QED BY <1>5, <1>6, <1>7, <1>8, <1>9 DEF RepliesInv

\* The outcome is logged, unless its rule or the account is gone.
LEMMA LogKeeps ==
  ASSUME RepliesInv, NEW w \in Workers, Log(w)
  PROVE  RepliesInv'
<1> DEFINE i == job[w].i  res == job[w].res
<1>0. UNCHANGED <<live, rule, hits, inbound, recent, out, tries, went, told, pushed, admitted, forgot>>
  BY DEF Log, mail, history, sent
<1>1. /\ w \in Procs /\ job[w].pc = "log" /\ i \in DOMAIN tries /\ tries[i] \in Rules
      /\ res \in {"ok", "failed"} /\ (res = "ok" => i \in went)
  BY WorkersAct DEF Log, At, RepliesInv, Jobs1, Fits, ToLog
<1>2. i \in Tries BY <1>1, RepliesAssumption DEF RepliesInv, Shape, Tries
<1>3. logs' = IF live /\ rule[tries[i]] # "gone" THEN [logs EXCEPT ![i] = res] ELSE logs
  BY DEF Log, Logged
<1>4. Goes(w, Idle) BY DEF Log
<1>5. Jobs1' /\ DOMAIN job' = Procs /\ job'[w] = Idle /\ \A q \in Procs : q # w => job'[q] = job[q]
  <2>1. Grows BY <1>0 DEF Grows
  <2> QED BY <1>1, <1>4, <2>1, IdleIs, EmptyHanded, JobsKept
<1>6. Shape' BY <1>0, <1>1, <1>3, <1>5 DEF RepliesInv, Shape
<1>7. Counts' /\ OutboundIsKept' /\ FewAreAdmitted'
  BY <1>0 DEF RepliesInv, Counts, OutboundIsKept, Keyed, FewAreAdmitted
<1>8. Rows'
  <2>1. live /\ rule[tries[i]] # "gone" => hits[tries[i]] > 0 BY <1>1 DEF RepliesInv, Counts
  <2>2. logs \in [Tries -> {"none", "ok", "failed"}] BY DEF RepliesInv, Shape
  <2> SUFFICES ASSUME NEW n \in Tries, logs'[n] # "none"
               PROVE  /\ n \in DOMAIN tries /\ tries[n] \in Rules
                      /\ logs'[n] = "ok" => n \in went
                      /\ hits[tries[n]] > 0
    BY <1>0 DEF Rows
  <2>3. CASE logs'[n] = logs[n] BY <2>3 DEF RepliesInv, Rows
  <2>4. CASE logs'[n] # logs[n]
    <3>1. n = i /\ live /\ rule[tries[i]] # "gone" /\ logs'[n] = res BY <1>2, <1>3, <2>2, <2>4
    <3> QED BY <1>1, <2>1, <3>1
  <2> QED BY <2>3, <2>4
<1>9. RepliesAreLogged'
  <2> SUFFICES ASSUME live, NEW n \in DOMAIN tries, tries[n] # NoRule, logs'[n] = "none",
                      rule[tries[n]] # "gone", n \notin forgot
               PROVE  \E v \in Workers : Holds(v, n)'
    BY <1>0 DEF RepliesAreLogged
  <2>1. n # i BY <1>1, <1>2, <1>3 DEF RepliesInv, Shape
  <2>2. logs[n] = "none"
    <3>1. n \in Tries BY RepliesAssumption DEF RepliesInv, Shape, Tries
    <3> QED BY <1>3, <2>1, <3>1 DEF RepliesInv, Shape
  <2>3. PICK v \in Workers : Holds(v, n) BY <2>2 DEF RepliesInv, RepliesAreLogged
  <2>4. v # w BY <2>1, <2>3, HoldsIs
  <2>5. job'[v] = job[v] BY <1>5, <2>4, WorkersAct
  <2> QED BY <2>3, <2>5 DEF Holds, At
<1> QED BY <1>5, <1>6, <1>7, <1>8, <1>9 DEF RepliesInv

-----------------------------------------------------------------------------
\* What of a step concerns neither the rows nor the rules.
LEMMA KeepKeeps ==
  ASSUME RepliesInv, NEW p \in Procs, NEW j, Goes(p, j), job[p].pc \in {"keep", "add"},
         UNCHANGED <<live, rule, hits, mail, logs, tries, went, admitted, forgot>>,
         Fits(p, j, tries, went), Earned(j, hits, rule),
         p \in Workers /\ ToLog(job[p]) => ToLog(j) /\ j.i = job[p].i,
         out' \in [Tries -> Seq(OutRows)], OutboundIsKept'
  PROVE  RepliesInv'
<1>0. UNCHANGED <<inbound, recent>> BY DEF mail
<1>1. Grows BY DEF Grows
<1>2. Jobs1' /\ DOMAIN job' = Procs /\ job'[p] = j /\ \A q \in Procs : q # p => job'[q] = job[q]
  <2>1. Fits(p, j, tries', went') /\ Earned(j, hits', rule') OBVIOUS
  <2> QED BY <1>1, <2>1, JobsKept
<1>3. Shape' /\ Counts' /\ Rows' /\ FewAreAdmitted'
  BY <1>0, <1>2 DEF RepliesInv, Shape, Counts, Rows, FewAreAdmitted
<1>4. ASSUME NEW w \in Workers, NEW i, Holds(w, i) PROVE Holds(w, i)'
  <2>1. ToLog(job[w]) /\ job[w].i = i BY <1>4, HoldsIs
  <2>2. ToLog(job'[w]) /\ job'[w].i = i BY <2>1, <1>2 DEF Procs
  <2> QED BY <2>2 DEF Holds, ToLog, At
<1>5. RepliesAreLogged' BY <1>4 DEF RepliesInv, RepliesAreLogged
<1> QED BY <1>2, <1>3, <1>5 DEF RepliesInv

\* A text that is to be kept, and the job that is to keep it.
LEMMA KeepIs ==
  ASSUME RepliesInv, NEW p \in Procs, job[p].pc \in {"keep", "add"}
  PROVE  LET i == job[p].i  of == job[p].of IN
         /\ i \in DOMAIN tries /\ i \in Tries /\ i \in went /\ of \in Sources
         /\ of = "ack" /\ p # Cli => tries[i] \in Rules
         /\ ToLog(job[p]) <=> of = "ack"
<1>1. Fits(p, job[p], tries, went) BY DEF RepliesInv, Jobs1
<1>2. job[p].i \in DOMAIN tries BY <1>1 DEF Fits
<1>3. job[p].i \in Tries BY <1>2, RepliesAssumption DEF RepliesInv, Shape, Tries
<1> QED BY <1>1, <1>2, <1>3 DEF Fits, ToLog

LEMMA NotRecordedKeeps ==
  ASSUME RepliesInv, NEW p \in Procs, job[p].pc \in {"keep", "add"}, NotRecorded(p),
         UNCHANGED <<live, rule, hits, mail, logs, tries, went, admitted, forgot>>
  PROVE  RepliesInv'
<1> DEFINE i == job[p].i  of == job[p].of
<1>1. /\ i \in DOMAIN tries /\ of \in Sources /\ (of = "ack" /\ p # Cli => tries[i] \in Rules)
      /\ ToLog(job[p]) <=> of = "ack"
  BY KeepIs
<1>2. out' \in [Tries -> Seq(OutRows)] /\ OutboundIsKept'
  BY DEF NotRecorded, RepliesInv, Shape, OutboundIsKept, Keyed
<1>3. CASE of # "ack"
  <2>1. Goes(p, Idle) BY <1>3 DEF NotRecorded
  <2>2. ~ToLog(job[p]) /\ Fits(p, Idle, tries, went) /\ Earned(Idle, hits, rule)
    BY <1>1, <1>3, IdleIs, EmptyHanded
  <2> QED BY <1>2, <2>1, <2>2, KeepKeeps
<1>4. CASE of = "ack"
  <2> DEFINE j == After(p, i, "failed")
  <2>1. Goes(p, j) BY <1>4 DEF NotRecorded
  <2>2. Fits(p, j, tries, went) /\ Earned(j, hits, rule) /\ (p \in Workers => ToLog(j) /\ j.i = i)
    BY <1>1, <1>4, AfterFits
  <2> HIDE DEF j
  <2> QED BY <1>2, <2>1, <2>2, KeepKeeps
<1> QED BY <1>3, <1>4

\* The rows of the i-th text are now rs: still at most one by its id, and what
\* was to be there is.
LEMMA RowsAreKept ==
  ASSUME RepliesInv, live, UNCHANGED live, NEW i \in Tries, NEW of \in Sources, NEW rs \in Seq(OutRows),
         out' = [out EXCEPT ![i] = rs],
         told' \subseteq told \cup (IF of = "ack" THEN {i} ELSE {}),
         pushed' \subseteq pushed \cup (IF of = "push" THEN {i} ELSE {}),
         of # "bare push" \/ Keyed(i) # {} => \E k \in DOMAIN rs : rs[k] # "bare",
         \A k, l \in DOMAIN rs : rs[k] # "bare" /\ rs[l] # "bare" => k = l,
         of = "push" \/ i \in pushed => \A k \in DOMAIN rs : rs[k] \in {"full", "bare"}
  PROVE  out' \in [Tries -> Seq(OutRows)] /\ OutboundIsKept'
<1>1. out \in [Tries -> Seq(OutRows)] BY DEF RepliesInv, Shape
<1>2. out' \in [Tries -> Seq(OutRows)] /\ out'[i] = rs /\ \A n \in Tries : n # i => out'[n] = out[n]
  BY <1>1
<1>3. ASSUME NEW n \in Tries
      PROVE  /\ n \in told' \cup pushed' => Keyed(n)' # {}
             /\ \A k, l \in Keyed(n)' : k = l
             /\ n \in pushed' => \A k \in Keyed(n)' : out'[n][k] = "full"
  <2>0. /\ n \in told \cup pushed => Keyed(n) # {}
        /\ \A k, l \in Keyed(n) : k = l
        /\ n \in pushed => \A k \in Keyed(n) : out[n][k] = "full"
    BY DEF RepliesInv, OutboundIsKept
  <2>1. CASE n # i
    <3>1. Keyed(n)' = Keyed(n) /\ out'[n] = out[n] BY <1>2, <2>1 DEF Keyed
    <3>2. (n \in told' \cup pushed' => n \in told \cup pushed) /\ (n \in pushed' => n \in pushed)
      BY <2>1
    <3> QED BY <2>0, <3>1, <3>2
  <2>2. CASE n = i
    <3>1. Keyed(n)' = {k \in DOMAIN rs : rs[k] # "bare"} BY <1>2, <2>2 DEF Keyed
    <3>2. n \in told' \cup pushed' => of # "bare push" \/ Keyed(i) # {}
      BY <2>0, <2>2
    <3>3. n \in pushed' => of = "push" \/ i \in pushed BY <2>2
    <3> QED BY <1>2, <2>2, <3>1, <3>2, <3>3
  <2> QED BY <2>1, <2>2
<1> QED BY <1>2, <1>3 DEF OutboundIsKept

\* The row that an id finds is merged with what has come.
LEMMA MergeKeeps ==
  ASSUME RepliesInv, live, UNCHANGED live, NEW i \in Tries, NEW of \in Sources, Known(i, of), Merge(i, of),
         told' \subseteq told \cup (IF of = "ack" THEN {i} ELSE {}),
         pushed' \subseteq pushed \cup (IF of = "push" THEN {i} ELSE {})
  PROVE  out' \in [Tries -> Seq(OutRows)] /\ OutboundIsKept'
<1> DEFINE rs == [k \in DOMAIN out[i] |-> IF k \in Keyed(i) THEN Merged(out[i][k], of) ELSE out[i][k]]
<1>1. out \in [Tries -> Seq(OutRows)] /\ out[i] \in Seq(OutRows) BY DEF RepliesInv, Shape
<1>2. out' = [out EXCEPT ![i] = rs] BY <1>1 DEF Merge
<1>3. ASSUME NEW k \in DOMAIN out[i]
      PROVE  /\ rs[k] \in OutRows /\ (rs[k] # "bare" <=> k \in Keyed(i))
             /\ (of = "push" \/ out[i][k] = "full") /\ k \in Keyed(i) => rs[k] = "full"
  <2>1. out[i][k] \in OutRows BY <1>1
  <2> QED BY <2>1 DEF Merged, Keyed, OutRows
<1>4. DOMAIN rs = 1 .. Len(out[i]) /\ Len(out[i]) \in Nat BY <1>1
<1>5. rs \in Seq(OutRows)
  <2>1. PICK m \in Nat : DOMAIN out[i] = 1 .. m BY <1>1
  <2>2. rs \in [1 .. m -> OutRows] BY <1>3, <2>1
  <2> QED BY <2>1, <2>2, SeqDef
<1>6. /\ Keyed(i) # {} /\ Keyed(i) \subseteq DOMAIN out[i]
      /\ \A k, l \in Keyed(i) : k = l
      /\ i \in pushed => \A k \in Keyed(i) : out[i][k] = "full"
  BY DEF RepliesInv, OutboundIsKept, Known, Keyed
<1>7. DOMAIN rs = DOMAIN out[i] OBVIOUS
<1> HIDE DEF rs
<1>8. \E k \in DOMAIN rs : rs[k] # "bare" BY <1>3, <1>6, <1>7
<1>9. \A k, l \in DOMAIN rs : rs[k] # "bare" /\ rs[l] # "bare" => k = l BY <1>3, <1>6, <1>7
<1>10. of = "push" \/ i \in pushed => \A k \in DOMAIN rs : rs[k] \in {"full", "bare"}
  BY <1>3, <1>6, <1>7
<1> QED BY <1>2, <1>5, <1>8, <1>9, <1>10, RowsAreKept

\* What no id finds becomes a row of its own.
LEMMA InsertKeeps ==
  ASSUME RepliesInv, live, UNCHANGED live, NEW i \in Tries, NEW of \in Sources, ~Known(i, of),
         out' = [out EXCEPT ![i] = Append(@, Fresh(of))],
         told' \subseteq told \cup (IF of = "ack" THEN {i} ELSE {}),
         pushed' \subseteq pushed \cup (IF of = "push" THEN {i} ELSE {})
  PROVE  out' \in [Tries -> Seq(OutRows)] /\ OutboundIsKept'
<1> DEFINE rs == Append(out[i], Fresh(of))
           n  == Len(out[i]) + 1
<1>1. out \in [Tries -> Seq(OutRows)] /\ out[i] \in Seq(OutRows) BY DEF RepliesInv, Shape
<1>2. /\ Fresh(of) \in OutRows /\ (Fresh(of) = "bare" <=> of = "bare push")
      /\ of = "push" => Fresh(of) = "full"
  BY DEF Fresh, OutRows, Sources
<1>3. /\ out' = [out EXCEPT ![i] = rs] /\ rs \in Seq(OutRows) /\ DOMAIN rs = DOMAIN out[i] \cup {n}
      /\ rs[n] = Fresh(of) /\ n \notin DOMAIN out[i] /\ \A k \in DOMAIN out[i] : rs[k] = out[i][k]
  <2>1. out[i] \in Seq(OutRows) /\ Fresh(of) \in OutRows BY <1>1, <1>2
  <2>2. PICK q, f : q = out[i] /\ f = Fresh(of) OBVIOUS
  <2>3. /\ Append(q, f) \in Seq(OutRows) /\ DOMAIN Append(q, f) = DOMAIN q \cup {Len(q) + 1}
        /\ Append(q, f)[Len(q) + 1] = f /\ Len(q) + 1 \notin DOMAIN q
        /\ \A k \in DOMAIN q : Append(q, f)[k] = q[k]
    BY <2>1, <2>2
  <2> QED BY <2>2, <2>3
<1>4. /\ i \in pushed => Keyed(i) # {}
      /\ \A k, l \in Keyed(i) : k = l
      /\ i \in pushed => \A k \in Keyed(i) : out[i][k] = "full"
  BY DEF RepliesInv, OutboundIsKept
<1>5. of = "bare push" \/ Keyed(i) = {} BY DEF Known
<1>6. \A k \in DOMAIN out[i] : k \in Keyed(i) <=> out[i][k] # "bare" BY DEF Keyed
<1> HIDE DEF rs, n
<1>7. of # "bare push" \/ Keyed(i) # {} => \E k \in DOMAIN rs : rs[k] # "bare"
  BY <1>2, <1>3, <1>6 DEF Keyed
<1>8. \A k, l \in DOMAIN rs : rs[k] # "bare" /\ rs[l] # "bare" => k = l BY <1>2, <1>3, <1>4, <1>5, <1>6
<1>9. of = "push" \/ i \in pushed => \A k \in DOMAIN rs : rs[k] \in {"full", "bare"}
  BY <1>2, <1>3, <1>4, <1>5, <1>6
<1> QED BY <1>3, <1>7, <1>8, <1>9, RowsAreKept

\* What is recorded is there from now on.
LEMMA RecordedKeeps ==
  ASSUME RepliesInv, NEW p \in Procs, job[p].pc \in {"keep", "add"}, Recorded(p), live,
         \/ Known(job[p].i, job[p].of) /\ Merge(job[p].i, job[p].of)
         \/ /\ ~Known(job[p].i, job[p].of)
            /\ out' = [out EXCEPT ![job[p].i] = Append(@, Fresh(job[p].of))],
         UNCHANGED <<live, rule, hits, mail, logs, tries, went, admitted, forgot>>
  PROVE  RepliesInv'
<1> DEFINE i == job[p].i  of == job[p].of
<1>1. /\ i \in DOMAIN tries /\ of \in Sources /\ (of = "ack" /\ p # Cli => tries[i] \in Rules)
      /\ (ToLog(job[p]) <=> of = "ack") /\ i \in Tries /\ i \in went
  BY KeepIs
<1>2. /\ told' \subseteq told \cup (IF of = "ack" THEN {i} ELSE {})
      /\ pushed' \subseteq pushed \cup (IF of = "push" THEN {i} ELSE {})
  BY DEF Recorded
<1>3. out' \in [Tries -> Seq(OutRows)] /\ OutboundIsKept' BY <1>1, <1>2, MergeKeeps, InsertKeeps
<1>4. CASE of # "ack"
  <2>1. Goes(p, Idle) BY <1>4 DEF Recorded
  <2>2. ~ToLog(job[p]) /\ Fits(p, Idle, tries, went) /\ Earned(Idle, hits, rule)
    BY <1>1, <1>4, IdleIs, EmptyHanded
  <2> QED BY <1>3, <2>1, <2>2, KeepKeeps
<1>5. CASE of = "ack"
  <2> DEFINE j == After(p, i, "ok")
  <2>1. Goes(p, j) BY <1>5 DEF Recorded
  <2>2. Fits(p, j, tries, went) /\ Earned(j, hits, rule) /\ (p \in Workers => ToLog(j) /\ j.i = i)
    BY <1>1, <1>5, AfterFits
  <2> HIDE DEF j
  <2> QED BY <1>3, <2>1, <2>2, KeepKeeps
<1> QED BY <1>4, <1>5

LEMMA OutboundSteps ==
  ASSUME RepliesInv, NEW p \in Procs, FindOutbound(p) \/ AddOutbound(p)
  PROVE  RepliesInv'
<1> DEFINE i == job[p].i  of == job[p].of
<1>1. /\ UNCHANGED <<live, rule, hits, mail, logs, tries, went, admitted, forgot>>
      /\ job[p].pc \in {"keep", "add"}
  BY DEF FindOutbound, AddOutbound, At
<1>2. CASE NotRecorded(p) BY <1>1, <1>2, NotRecordedKeeps
<1>3. CASE live /\ Known(i, of) /\ Merge(i, of) /\ Recorded(p) BY <1>1, <1>3, RecordedKeeps
<1>5. CASE live /\ ~Known(i, of) /\ out' = [out EXCEPT ![i] = Append(@, Fresh(of))] /\ Recorded(p)
  BY <1>1, <1>5, RecordedKeeps
<1>4. CASE Goes(p, [pc |-> "add", i |-> i, of |-> of]) /\ UNCHANGED <<out, told, pushed>>
  <2> DEFINE j == [pc |-> "add", i |-> i, of |-> of]
  <2>1. /\ i \in DOMAIN tries /\ i \in went /\ of \in Sources
        /\ (of = "ack" /\ p # Cli => tries[i] \in Rules) /\ (ToLog(job[p]) <=> of = "ack")
    BY <1>1, KeepIs
  <2>2. Fits(p, j, tries, went) /\ Earned(j, hits, rule) /\ (of = "ack" => ToLog(j)) /\ j.i = i
    BY <2>1 DEF Fits, Earned, ToLog
  <2>3. out' \in [Tries -> Seq(OutRows)] /\ OutboundIsKept'
    BY <1>1, <1>4 DEF RepliesInv, Shape, OutboundIsKept, Keyed
  <2> HIDE DEF j
  <2>4. Goes(p, j) BY <1>4 DEF j
  <2> QED BY <1>1, <2>1, <2>2, <2>3, <2>4, KeepKeeps
<1> QED BY <1>2, <1>3, <1>4, <1>5 DEF FindOutbound, AddOutbound

\* What a process held when it ended is forgotten.
LEMMA EndsKeeps ==
  ASSUME RepliesInv, NEW w \in Workers, Ends(w)
  PROVE  RepliesInv'
<1> DEFINE dead == IF w = CliWorker THEN {w, Cli} ELSE {w}
<1>0. UNCHANGED <<live, rule, hits, inbound, recent, out, logs, tries, went, told, pushed, admitted>>
  BY DEF Ends, tables, mail, sent
<1>1. job' = [p \in Procs |-> IF p \in dead THEN Idle ELSE job[p]]
      /\ forgot' = forgot \cup {i \in DOMAIN tries : \E p \in dead : Holds(p, i)}
  BY DEF Ends
<1>2. Jobs1'
  <2> SUFFICES ASSUME NEW p \in Procs
               PROVE  Fits(p, job'[p], tries, went) /\ Earned(job'[p], hits, rule)
    BY <1>0 DEF Jobs1
  <2>1. CASE job'[p] = Idle BY <2>1, IdleIs, EmptyHanded
  <2>2. CASE job'[p] = job[p] BY <2>2 DEF RepliesInv, Jobs1
  <2> QED BY <1>1, <2>1, <2>2
<1>3. Shape' /\ Counts' /\ Rows' /\ OutboundIsKept' /\ FewAreAdmitted'
  BY <1>0, <1>1 DEF RepliesInv, Shape, Counts, Rows, OutboundIsKept, Keyed, FewAreAdmitted
<1>4. RepliesAreLogged'
  <2> SUFFICES ASSUME live, NEW n \in DOMAIN tries, tries[n] # NoRule, logs[n] = "none",
                      rule[tries[n]] # "gone", n \notin forgot'
               PROVE  \E v \in Workers : Holds(v, n)'
    BY <1>0 DEF RepliesAreLogged
  <2>1. PICK v \in Workers : Holds(v, n) BY <1>1 DEF RepliesInv, RepliesAreLogged
  <2>2. v \notin dead BY <1>1, <2>1
  <2>3. job'[v] = job[v] BY <1>1, <2>2, WorkersAct
  <2> QED BY <2>1, <2>3 DEF Holds, At
<1> QED BY <1>2, <1>3, <1>4 DEF RepliesInv

\* The operator's commands take nothing back that counts.
LEMMA RuleCommandKeeps ==
  ASSUME RepliesInv, NEW r \in Rules, RuleCommand(r)
  PROVE  RepliesInv'
<1>1. PICK to \in {"on", "off", "gone"} :
        rule' = [rule EXCEPT ![r] = to] /\ rule[r] # "gone"
        /\ UNCHANGED <<live, hits, mail, out, logs, job, conn, history>>
  BY DEF RuleCommand, SetRule
<1>2. /\ UNCHANGED <<live, hits, inbound, recent, out, logs, job>>
      /\ UNCHANGED <<tries, went, told, pushed, admitted, forgot>>
  BY <1>1 DEF mail, history, sent
<1>3. /\ rule' \in [Rules -> {"absent", "on", "off", "gone"}]
      /\ \A q \in Rules : rule[q] = "gone" => rule'[q] = "gone"
  BY <1>1 DEF RepliesInv, Shape
<1>4. Jobs1' BY <1>2, <1>3 DEF RepliesInv, Jobs1, Fits, Earned, ToLog
<1>5. Shape' /\ Counts' /\ Rows' /\ OutboundIsKept' /\ FewAreAdmitted'
  BY <1>2, <1>3 DEF RepliesInv, Shape, Counts, Rows, OutboundIsKept, Keyed, FewAreAdmitted
<1>6. RepliesAreLogged'
  <2> SUFFICES ASSUME live, NEW n \in DOMAIN tries, tries[n] # NoRule, logs[n] = "none",
                      rule'[tries[n]] # "gone", n \notin forgot
               PROVE  \E v \in Workers : Holds(v, n)
    BY <1>2 DEF RepliesAreLogged, Holds, At
  <2>1. tries[n] \in Rules BY DEF RepliesInv, Shape
  <2> QED BY <1>3, <2>1 DEF RepliesInv, RepliesAreLogged
<1> QED BY <1>4, <1>5, <1>6 DEF RepliesInv

LEMMA DeleteAccountKeeps ==
  ASSUME RepliesInv, DeleteAccount
  PROVE  RepliesInv'
<1>1. /\ live' = FALSE /\ inbound' = <<>> /\ recent' = {} /\ admitted' = {}
      /\ out' = [i \in Tries |-> <<>>] /\ logs' = [i \in Tries |-> "none"]
      /\ UNCHANGED <<hits, job, tries, went>>
      /\ rule' = [r \in Rules |-> IF r \in Own /\ rule[r] # "absent" THEN "gone" ELSE rule[r]]
  BY DEF DeleteAccount, sent
<1>2. \A q \in Rules : rule[q] = "gone" => rule'[q] = "gone" BY <1>1 DEF RepliesInv, Shape
<1>3. Jobs1' BY <1>1, <1>2 DEF RepliesInv, Jobs1, Fits, Earned, ToLog
<1>4. Shape'
  <2>1. inbound' \in Seq(Msgs) /\ recent' \subseteq DOMAIN inbound' /\ admitted' \subseteq DOMAIN inbound'
    BY <1>1
  <2>2. rule' \in [Rules -> {"absent", "on", "off", "gone"}] BY <1>1 DEF RepliesInv, Shape
  <2>3. out' \in [Tries -> Seq(OutRows)] /\ logs' \in [Tries -> {"none", "ok", "failed"}]
    BY <1>1
  <2>4. hits' = hits /\ job' = job /\ tries' = tries /\ live' \in BOOLEAN BY <1>1
  <2> QED BY <2>1, <2>2, <2>3, <2>4 DEF RepliesInv, Shape
<1>5. Counts' BY <1>1, <1>2 DEF RepliesInv, Counts
<1>6. Rows' /\ RepliesAreLogged' /\ OutboundIsKept' BY <1>1 DEF Rows, RepliesAreLogged, OutboundIsKept
<1>7. FewAreAdmitted'
  <2>1. admitted' \cap recent' = {} BY <1>1
  <2> QED BY <2>1, FS_EmptySet, RepliesAssumption DEF FewAreAdmitted
<1> QED BY <1>3, <1>4, <1>5, <1>6, <1>7 DEF RepliesInv

LEMMA StartsRight == Init => RepliesInv
<1> SUFFICES ASSUME Init PROVE RepliesInv OBVIOUS
<1>1. Jobs1
  <2> SUFFICES ASSUME NEW p \in Procs PROVE Fits(p, job[p], tries, went) /\ Earned(job[p], hits, rule)
    BY DEF Jobs1
  <2> QED BY IdleIs, EmptyHanded DEF Init
<1>2. Shape BY RepliesAssumption DEF Init, Shape
<1>3. Counts /\ Rows /\ RepliesAreLogged /\ OutboundIsKept
  BY DEF Init, Counts, Rows, RepliesAreLogged, OutboundIsKept, Keyed
<1>4. FewAreAdmitted
  <2>1. admitted \cap recent = {} BY DEF Init
  <2> QED BY <2>1, FS_EmptySet, RepliesAssumption DEF FewAreAdmitted
<1> QED BY <1>1, <1>2, <1>3, <1>4 DEF RepliesInv

\* The invariant: what each process knows of its text and its rule, and the
\* four properties themselves.
THEOREM RepliesInvariant == Spec => []RepliesInv
<1>1. ASSUME RepliesInv, [Next]_vars PROVE RepliesInv'
  <2>1. ASSUME NEW w \in Workers, NEW m \in Msgs, Receive(w, m) PROVE RepliesInv' BY <1>1, <2>1, ReceiveKeeps
  <2>2. ASSUME NEW w \in Workers, NEW i \in DOMAIN tries, NEW of \in {"push", "bare push"},
               ReceivePush(w, i, of)
        PROVE  RepliesInv'
    BY <1>1, <2>2, PushKeeps
  <2>3. ASSUME NEW w \in Workers, Handle(w) PROVE RepliesInv'
    BY <1>1, <2>3, FindInboundKeeps, InsertInboundKeeps, GateKeeps, RuleSteps, WriteHitsKeeps, LogKeeps DEF Handle
  <2>4. ASSUME NEW w \in Workers, Connect(w) PROVE RepliesInv' BY <1>1, <2>4, ConnectKeeps
  <2>5. ASSUME NEW w \in Workers, Stop(w) PROVE RepliesInv' BY <1>1, <2>5, SameKeeps DEF Stop
  <2>6. ASSUME NEW w \in Workers, Die(w) PROVE RepliesInv' BY <1>1, <2>6, EndsKeeps DEF Die
  <2>7. CASE Close BY <1>1, <2>7, EndsKeeps, RepliesAssumption DEF Close
  <2>8. ASSUME NEW p \in Procs, Send(p) \/ Answer(p) \/ FindOutbound(p) \/ AddOutbound(p) PROVE RepliesInv'
    BY <1>1, <2>8, SendKeeps, AnswerKeeps, OutboundSteps
  <2>9. ASSUME NEW r \in Rules, RuleCommand(r) PROVE RepliesInv' BY <1>1, <2>9, RuleCommandKeeps
  <2>10. ASSUME NEW k \in DOMAIN inbound, Age(k) PROVE RepliesInv' BY <1>1, <2>10, AgeKeeps
  <2>11. CASE DeleteAccount BY <1>1, <2>11, DeleteAccountKeeps
  <2>12. CASE UNCHANGED vars BY <1>1, <2>12, SameKeeps DEF vars
  <2> QED BY <1>1, <2>1, <2>2, <2>3, <2>4, <2>5, <2>6, <2>7, <2>8, <2>9, <2>10, <2>11, <2>12 DEF Next
<1> QED BY <1>1, StartsRight, PTL DEF Spec

\* However many workers handle messages at once, the hourly rate holds.
THEOREM RateHolds == Spec => []FewAreAdmitted
<1>1. RepliesInv => FewAreAdmitted BY DEF RepliesInv
<1> QED BY <1>1, RepliesInvariant, PTL

\* No outcome of a reply, lost hit or dying neighbour leaves a reply unlogged.
THEOREM LogIsComplete == Spec => []RepliesAreLogged
<1>1. RepliesInv => RepliesAreLogged BY DEF RepliesInv
<1> QED BY <1>1, RepliesInvariant, PTL

\* The log claims no success that is none, for a rule without hits.
THEOREM LogIsTrue == Spec => []LogsAreTrue
<1>1. RepliesInv => LogsAreTrue
  <2> SUFFICES ASSUME RepliesInv, NEW i \in DOMAIN tries, logs[i] # "none"
               PROVE  (logs[i] = "ok" => i \in went) /\ hits[tries[i]] > 0
    BY DEF LogsAreTrue
  <2>1. i \in Tries BY RepliesAssumption DEF RepliesInv, Shape, Tries
  <2> QED BY <2>1 DEF RepliesInv, Rows
<1> QED BY <1>1, RepliesInvariant, PTL

\* Acknowledgements and pushes of a text, in any order, leave one full row by
\* its id, whatever rows the pushes without an id leave beside it.
THEOREM ConversationIsKept == Spec => []OutboundIsKept
<1>1. RepliesInv => OutboundIsKept BY DEF RepliesInv
<1> QED BY <1>1, RepliesInvariant, PTL
=============================================================================
