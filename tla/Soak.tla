--------------------------------- MODULE Soak ---------------------------------
(***************************************************************************)
(* The soak run: application/health/soak.py over the snapshot of           *)
(* observability.py.  An operator starts and stops it; the scheduled       *)
(* watchdog samples every running one each minute; the run's own start     *)
(* takes the first sample in the operator's process.  Sampling reads the   *)
(* row, looks at the daemon and the account, and then loads and writes the *)
(* row, each a step: what was written to the row in between is lost.  The  *)
(* verdict is given by the first sample that is taken after the deadline.  *)
(*                                                                         *)
(* Time is in minutes, and the world changes with it.  What the replies    *)
(* and the logs hold against the run is not seen here: either may fail it. *)
(***************************************************************************)
EXTENDS Naturals, Sequences, FiniteSets

CONSTANTS
  Operators,
  Worlds,       \* what the daemon and the account may be seen to be
  Target,       \* target_duration_s
  MinSamples,   \* the samples a pass needs: 90 % of those expected
  MaxGap,       \* MAX_GAP_FACTOR * interval_s
  MaxTime,      \* bound: the clock
  MaxCommands,  \* bound: operators' commands
  MaxStarts,    \* bound: daemons started after the first
  MaxFaults     \* bound: deaths, errors and a deletion of the account

Statuses == {"offline", "disabled", "needs_validation", "error", "connected", "online",
             "starting", "reconnecting"}

ASSUME SoakAssumption ==
  /\ Worlds \subseteq [daemon : {"online", "stale", "down"}, status : Statuses,
                       fresh : BOOLEAN, enabled : BOOLEAN, running : BOOLEAN,
                       error : BOOLEAN, risk : BOOLEAN, others : BOOLEAN]
  /\ Target \in Nat \ {0} /\ MinSamples \in Nat \ {0} /\ MaxGap \in Nat \ {0}
  /\ MaxTime \in Nat \ {0} /\ MaxCommands \in Nat /\ MaxStarts \in Nat /\ MaxFaults \in Nat
  /\ "watchdog" \notin Operators

VARIABLES
  past,      \* the world of every minute so far, and the daemon of it
  exists,    \* the account has not been deleted
  rows,      \* task_logs of this task, oldest first; judged is history: the samples of
             \* the last verdict
  job,       \* what each process is in the middle of
  round,     \* the minute of the watchdog's latest pass
  asked,
  faults

vars == <<past, exists, rows, job, round, asked, faults>>

Processes == Operators \cup {"watchdog"}

Now   == Len(past)
World == past[Now].world
Inst  == past[Now].inst
None  == 0

Idle     == [pc |-> "idle"]
Goes(p, j) == job' = [job EXCEPT ![p] = j]
At(p, pc)  == job[p].pc = pc
Run(p)     == rows[job[p].id]

IsRunning(i) == rows[i].status = "running"
Active       == {i \in DOMAIN rows : IsRunning(i)}

Fault == faults < MaxFaults /\ faults' = faults + 1

Larger(a, b) == IF a < b THEN b ELSE a

-----------------------------------------------------------------------------
(* The snapshot: observability.py.                                         *)

HealthyOnline(status) == status \in {"connected", "online"}

Actual(w) == IF HealthyOnline(w.status) /\ ~w.fresh THEN "stale" ELSE w.status

Aligned(w) ==
  /\ w.running => w.enabled
  /\ IF w.running THEN HealthyOnline(Actual(w))
     ELSE Actual(w) \notin {"connected", "online", "starting", "reconnecting", "stale"}

\* A daemon that is missed, a drifting account, a risk under way, of any account.
Alerts(w) ==
  \/ w.daemon # "online" /\ w.enabled /\ w.running
  \/ ~Aligned(w) \/ w.risk \/ w.others

Startable(w) == w.daemon = "online" /\ Aligned(w) /\ HealthyOnline(Actual(w))

Healthy(w) == Startable(w) /\ ~w.error /\ ~Alerts(w)

\* The daemons that have started since.
StartsSince(start) ==
  Cardinality({t \in start + 1..Now : past[t].inst # past[t - 1].inst})

-----------------------------------------------------------------------------
(* The row: what start_soak creates, _aggregate and _final_issues.         *)

NoSamples ==
  [count |-> 0, bad |-> 0, last |-> None, gap |-> 0, since |-> None, outages |-> 0,
   longest |-> 0, changes |-> 0, changed |-> None, starts |-> 0, monitor |-> 0,
   chain |-> <<>>]   \* history: the samples that the numbers were made of

\* Slip: an outage starts anew with every bad sample.
AggregateRestarting(n, first, s, starts) ==
  [n EXCEPT
     !.count = @ + 1, !.bad = IF s.ok THEN @ ELSE @ + 1,
     !.gap   = IF n.last = None THEN @ ELSE Larger(@, s.at - n.last), !.last = s.at,
     !.longest = IF s.ok /\ n.since # None THEN Larger(@, s.at - n.since) ELSE @,
     !.outages = IF ~s.ok /\ n.since = None THEN @ + 1 ELSE @,
     !.since   = IF s.ok THEN None ELSE s.at,
     !.changes = IF s.inst \notin {first, n.changed} THEN @ + 1 ELSE @,
     !.changed = IF s.inst # first THEN s.inst ELSE @,
     !.starts  = starts, !.chain = Append(@, s)]

\* One more sample: the sums, the longest gap and outage, and the daemons seen.
Aggregate(n, first, s, starts) ==
  [n EXCEPT
     !.count   = @ + 1,
     !.bad     = IF s.ok THEN @ ELSE @ + 1,
     !.gap     = IF n.last = None THEN @ ELSE Larger(@, s.at - n.last),
     !.last    = s.at,
     !.longest = IF s.ok /\ n.since # None THEN Larger(@, s.at - n.since) ELSE @,
     !.outages = IF ~s.ok /\ n.since = None THEN @ + 1 ELSE @,
     !.since   = IF s.ok THEN None ELSE IF @ = None THEN s.at ELSE @,
     !.changes = IF s.inst \notin {first, n.changed} THEN @ + 1 ELSE @,
     !.changed = IF s.inst # first THEN s.inst ELSE @,
     !.starts  = starts,
     !.chain   = Append(@, s)]

\* An outage that is still open at the end.
Closed(n, at) == IF n.since = None THEN n ELSE [n EXCEPT !.longest = Larger(@, at - n.since)]

\* Slip: the longest gap is not looked at.
PassesUnwatched(n) == n.count >= MinSamples /\ n.bad = 0 /\ n.monitor = 0 /\ n.changes = 0 /\ n.starts = 0

\* Slip: changes of the daemon are not looked at.
PassesAnyDaemon(n) == n.count >= MinSamples /\ n.gap <= MaxGap /\ n.bad = 0 /\ n.monitor = 0

\* _final_issues finds nothing in the samples ...
Passes(n) ==
  /\ n.count >= MinSamples /\ n.gap <= MaxGap
  /\ n.bad = 0 /\ n.monitor = 0
  /\ n.changes = 0 /\ n.starts = 0

\* ... and nothing else: no message with two replies, no secret in the logs.
Outcomes(n) == {"failed"} \cup (IF Passes(n) THEN {"success"} ELSE {})

-----------------------------------------------------------------------------
(* `soak start` and `soak stop`.                                           *)

Asks == asked < MaxCommands /\ asked' = asked + 1

\* The checks, each a read of its own.  Bound: no run is started that the
\* clock could not see the end of.
Start(p) ==
  /\ At(p, "idle") /\ Asks
  /\ Active = {} /\ exists /\ Startable(World) /\ Now + Target <= MaxTime
  /\ Goes(p, [pc |-> "insert", start |-> Now, inst |-> Inst])
  /\ UNCHANGED <<past, exists, rows, round, faults>>

\* The row refers to the account, which may be gone.
Insert(p) ==
  /\ At(p, "insert")
  /\ IF exists
     THEN /\ rows' = Append(rows, [status |-> "running", start |-> job[p].start,
                                   inst |-> job[p].inst, finished |-> None, n |-> NoSamples,
                                   judged |-> <<>>])
          /\ Goes(p, [pc |-> "read", id |-> Len(rows) + 1, todo |-> {}])
     ELSE Goes(p, Idle) /\ UNCHANGED rows
  /\ UNCHANGED <<past, exists, round, asked, faults>>

\* The latest of the running ones.
FindStop(p) ==
  /\ At(p, "idle") /\ Asks
  /\ \E i \in Active : /\ \A k \in Active : k <= i
                       /\ Goes(p, [pc |-> "stop", id |-> i])
  /\ UNCHANGED <<past, exists, rows, round, faults>>

LoadStop(p) ==
  /\ At(p, "stop") /\ Goes(p, [pc |-> "skip", id |-> job[p].id, n |-> Run(p).n])
  /\ UNCHANGED <<past, exists, rows, round, asked, faults>>

\* Whatever the row's status has become.
Stop(p) ==
  /\ At(p, "skip") /\ Goes(p, Idle)
  /\ rows' = [rows EXCEPT ![job[p].id].status = "skipped", ![job[p].id].n = job[p].n,
                          ![job[p].id].finished = Now]
  /\ UNCHANGED <<past, exists, round, asked, faults>>

-----------------------------------------------------------------------------
(* sample_soak, for the watchdog and for the operator who started the run. *)

\* What a process does after a run: the watchdog turns to the next one.
Pass(todo) == IF todo = {} THEN Idle ELSE [pc |-> "next", todo |-> todo]
Rest(p)    == Pass(job[p].todo)

Turn(p) ==
  /\ At(p, "next")
  /\ \E i \in job[p].todo :
       Goes(p, [pc |-> "read", id |-> i, todo |-> job[p].todo \ {i}])
  /\ UNCHANGED <<past, exists, rows, round, asked, faults>>

\* get_soak.
Read(p) ==
  /\ At(p, "read")
  /\ Goes(p, IF Run(p).status = "running"
             THEN [pc |-> "look", id |-> job[p].id, todo |-> job[p].todo,
                   n |-> Run(p).n]
             ELSE Rest(p))
  /\ UNCHANGED <<past, exists, rows, round, asked, faults>>

\* The time, build_runtime_snapshot and the metrics, for both of which the
\* account has to exist, the line of evidence, and the sums.
Look(p) ==
  /\ At(p, "look") /\ exists
  /\ LET j == job[p]
         s == [at |-> Now, ok |-> Healthy(World), inst |-> Inst]
     IN Goes(p, [pc |-> "load", id |-> j.id, todo |-> j.todo, at |-> Now,
                 n |-> Aggregate(j.n, Run(p).inst, s, StartsSince(Run(p).start))])
  /\ UNCHANGED <<past, exists, rows, round, asked, faults>>

\* Only a row that is still running is written.
Load(p) ==
  /\ At(p, "load")
  /\ Goes(p, IF Run(p).status = "running" THEN [job[p] EXCEPT !.pc = "commit"] ELSE Rest(p))
  /\ UNCHANGED <<past, exists, rows, round, asked, faults>>

\* The columns that have changed are written: the sums, and the verdict with a
\* sample that was taken after the deadline.
Commit(p) ==
  /\ At(p, "commit") /\ Goes(p, Rest(p))
  /\ LET j == job[p]
         n == Closed(j.n, j.at)
     IN \E verdict \in Outcomes(n) :
        rows' = IF j.at < Run(p).start + Target
                THEN [rows EXCEPT ![j.id].n = j.n]
                ELSE [rows EXCEPT ![j.id].n = n, ![j.id].finished = j.at,
                                  ![j.id].judged = n.chain, ![j.id].status = verdict]
  /\ UNCHANGED <<past, exists, round, asked, faults>>

Sampling == {"read", "look", "load", "commit"}

\* An error in a sample: the account is gone, or a call has failed.  The
\* watchdog notes it; `soak start` ends with it.
Fail(p) ==
  /\ job[p].pc \in Sampling
  /\ \/ ~exists /\ At(p, "look") /\ UNCHANGED faults
     \/ Fault
  /\ Goes(p, IF p = "watchdog" THEN [pc |-> "mark", id |-> job[p].id, todo |-> job[p].todo]
             ELSE Idle)
  /\ UNCHANGED <<past, exists, rows, round, asked>>

\* _mark_monitor_error.  Bound: errors are counted no further than the minutes.
LoadMark(p) ==
  /\ At(p, "mark")
  /\ Goes(p, IF Run(p).status = "running"
             THEN [pc |-> "note", id |-> job[p].id, todo |-> job[p].todo, n |-> Run(p).n]
             ELSE Rest(p))
  /\ UNCHANGED <<past, exists, rows, round, asked, faults>>

Mark(p) ==
  /\ At(p, "note") /\ Goes(p, Rest(p))
  /\ rows' = [rows EXCEPT ![job[p].id].n =
                [job[p].n EXCEPT !.monitor = IF @ < MaxTime THEN @ + 1 ELSE @]]
  /\ UNCHANGED <<past, exists, round, asked, faults>>

Sample(p) ==
  Turn(p) \/ Read(p) \/ Look(p) \/ Load(p) \/ Commit(p) \/ Fail(p)
    \/ LoadMark(p) \/ Mark(p)

-----------------------------------------------------------------------------
(* The scheduled watchdog, a process at a time, and the world.             *)

\* Slip: only a healthy daemon is sampled, any other is started.
WatchRecovering ==
  /\ At("watchdog", "idle") /\ (round < Now \/ Now = MaxTime \/ Active = {})
  /\ round' = IF Active = {} THEN round ELSE Now
  /\ IF World.daemon = "online" THEN Goes("watchdog", Pass(Active)) ELSE UNCHANGED job
  /\ UNCHANGED <<past, exists, rows, asked, faults>>

\* _run_once, once a minute: a restart of the daemon that fails ends the pass
\* before the sampling; otherwise every running run is sampled.  A pass that
\* finds none is not counted.  Bound: the last minute stands for all that follow.
Watch ==
  /\ At("watchdog", "idle") /\ (round < Now \/ Now = MaxTime \/ Active = {})
  /\ round' = IF Active = {} THEN round ELSE Now
  /\ \/ World.daemon # "online" /\ Fault /\ UNCHANGED job
     \/ Goes("watchdog", Pass(Active)) /\ UNCHANGED faults
  /\ UNCHANGED <<past, exists, rows, asked>>

Die(p) ==
  /\ ~At(p, "idle") /\ Fault /\ Goes(p, Idle)
  /\ UNCHANGED <<past, exists, rows, round, asked>>

\* A minute passes: the world may be another, and another daemon may have started.
\* Bound: the clock stands still while there is no run and nothing under way.
Tick ==
  /\ Now < MaxTime /\ (Active # {} \/ \E p \in Processes : ~At(p, "idle"))
  /\ \E w \in Worlds, i \in {Inst, Inst + 1} :
       i <= MaxStarts + 1 /\ past' = Append(past, [world |-> w, inst |-> i])
  /\ UNCHANGED <<exists, rows, job, round, asked, faults>>

DeleteAccount ==
  /\ exists /\ exists' = FALSE /\ Fault
  /\ UNCHANGED <<past, rows, job, round, asked>>

Init ==
  /\ \E w \in Worlds : past = <<[world |-> w, inst |-> 1]>>
  /\ exists = TRUE /\ rows = <<>>
  /\ job = [p \in Processes |-> Idle]
  /\ round = 0 /\ asked = 0 /\ faults = 0

Operate(p) == Start(p) \/ Insert(p) \/ FindStop(p) \/ LoadStop(p) \/ Stop(p)

Next ==
  \/ \E p \in Operators : Operate(p)
  \/ \E p \in Processes : Sample(p) \/ Die(p)
  \/ Watch \/ Tick \/ DeleteAccount

Spec == Init /\ [][Next]_vars

\* The task scheduler starts the watchdog again and again, its process runs,
\* and time passes.  Operators owe nothing.
FairSpec ==
  /\ Spec /\ WF_vars(Watch /\ job' # job) /\ WF_vars(Sample("watchdog")) /\ WF_vars(Tick)

-----------------------------------------------------------------------------
(* Properties.                                                             *)

Starts(c) == {k \in DOMAIN c : ~c[k].ok /\ (k = 1 \/ c[k - 1].ok)}
\* How long an outage that began with a sample was seen to last: to the first
\* good sample, or so far.
Length(c, k) ==
  LET after == {x \in k..Len(c) : c[x].ok}
      end   == IF after = {} THEN Len(c) ELSE CHOOSE x \in after : \A y \in after : x <= y
  IN c[end].at - c[k].at

\* The verdict was the last that was written.
Judged(i) == rows[i].status \in {"success", "failed"} /\ rows[i].n.last = rows[i].finished

\* However the samplers, the stops and the errors overlap: the numbers of a
\* row are those of one sequence of samples, each taken after the one before
\* was written.
NumbersAreOfItsSamples ==
  \A i \in DOMAIN rows :
    LET n == rows[i].n
        c == n.chain
    IN /\ n.count = Len(c) /\ n.bad = Cardinality({k \in DOMAIN c : ~c[k].ok})
       /\ n.outages = Cardinality(Starts(c))
       /\ \A k \in Starts(c) :
            (Judged(i) \/ \E x \in k..Len(c) : c[x].ok)
              => Length(c, k) <= n.longest
       /\ n.changes = Cardinality({c[k].inst : k \in DOMAIN c} \ {rows[i].inst})
       /\ \A k \in 2..Len(c) : c[k - 1].at <= c[k].at /\ c[k].at - c[k - 1].at <= n.gap

Passed == {i \in DOMAIN rows : rows[i].status = "success"}

\* A run that is recorded as passed has had no outage as long as the tolerated
\* gap after the first sample it was judged by, although samples are missed,
\* late, or lost to another writer.
SawLongOutages ==
  \A i \in Passed :
    \A t \in rows[i].judged[1].at..rows[i].finished - MaxGap + 1 :
      \E k \in t..t + MaxGap - 1 : Healthy(past[k].world)

\* One that has passed was served by one daemon from its start to its deadline.
OneDaemon ==
  \A i \in Passed : \A t \in rows[i].start..rows[i].start + Target :
    past[t].inst = past[rows[i].start].inst

PassIsEarned == SawLongOutages /\ OneDaemon

\* A run comes to its verdict or is stopped, as long as its account exists.
SoakConcludes ==
  \A i \in 1..MaxCommands :
    (i \in DOMAIN rows /\ IsRunning(i)) ~> (~exists \/ (i \in DOMAIN rows /\ ~IsRunning(i)))
=============================================================================
