---------------------------- MODULE Supervision ----------------------------
(***************************************************************************)
(* Who runs the daemon.  Two launchers, the scheduled task (through        *)
(* runtime/service_runner.py) and `daemon run`, compete for the singleton  *)
(* lock; the one that gets it serves under a row of daemon_instances; the  *)
(* watchdog restarts the task from what the latest row says; an operator   *)
(* stops, starts and restarts through the same rows and the pause file.    *)
(* Worker commands wait in their table for whoever serves.                 *)
(*                                                                         *)
(* A step is one database call, one call of the task scheduler, or one     *)
(* look at a file or a process.                                            *)
(***************************************************************************)
EXTENDS Naturals, Sequences

CONSTANTS
  MaxCommands,  \* bound: worker commands submitted
  MaxRequests,  \* bound: operator requests
  MaxFaults     \* bound: crashes, failed calls and overdue heartbeats, together

ASSUME SupervisionAssumption ==
  MaxCommands \in Nat /\ MaxRequests \in Nat /\ MaxFaults \in Nat

Launchers == {"task", "manual"}

VARIABLES
  paused,   \* the pause file exists
  d,        \* the process of each launcher
  rows,     \* daemon_instances, oldest first
  cmds,     \* worker_commands, oldest first: pending, running, or succeeded or failed
  ran,      \* history: the commands carried out, in order
  dog,      \* the watchdog: its place, and the row it looks at
  op,       \* `service start` or `service stop`: its place and its findings
  report,   \* the last `service stop` has said that the task is stopped
  asked,    \* operator requests so far
  faults

vars == <<paused, d, rows, cmds, ran, dog, op, report, asked, faults>>

Active  == {"starting", "running", "stopping"}
Booting == {"orphans", "create", "stale", "start"}
Serving == {"serve", "exec", "await"}
Ending  == {"halt", "stopping", "release"}
Holding == Booting \cup Serving \cup Ending
Places  == {"off", "gate", "acquire"} \cup Holding

Off    == [at |-> "off", row |-> 0, batch |-> {}, cmd |-> 0, restart |-> FALSE]
Boot   == [Off EXCEPT !.at = "acquire"]
Asleep == [at |-> "off", row |-> 0]
Idle   == [at |-> "idle", hit |-> FALSE, gone |-> FALSE, sound |-> FALSE]

At(p, place) == d[p].at = place
Go(p, place) == d' = [d EXCEPT ![p].at = place]

Fault == faults < MaxFaults /\ faults' = faults + 1

-----------------------------------------------------------------------------
(* domain/runtime/daemon.py and runtime_health.py: the rows.               *)

Latest == Len(rows)

IsActive(i) == i > 0 /\ rows[i].status \in Active

\* observe_daemon: an active row whose process lives, and whose heartbeat is due.
ProcessAlive(i) == IsActive(i) /\ rows[i].alive
Stale(i)        == ProcessAlive(i) /\ rows[i].stale

Write(i, status) == rows' = [rows EXCEPT ![i].status = status]

\* The active rows' control flags, as request_shutdown and request_restart set them.
Flag(restart) ==
  rows' = [i \in DOMAIN rows |->
             IF IsActive(i)
             THEN [rows[i] EXCEPT !.shutdown = TRUE, !.restart = restart \/ @]
             ELSE rows[i]]

\* The process of launcher p ends, and with it the operating system's lock.
Exit(p) ==
  /\ d' = [d EXCEPT ![p] = Off]
  /\ rows' = [i \in DOMAIN rows |->
                IF rows[i].owner = p THEN [rows[i] EXCEPT !.alive = FALSE] ELSE rows[i]]

-----------------------------------------------------------------------------
(* runtime/daemon.py: one process from launch to exit.                     *)

\* Slip: the runner does not look at the pause file.
GateLess ==
  /\ At("task", "gate") /\ d' = [d EXCEPT !["task"] = Boot]
  /\ UNCHANGED <<rows, paused, cmds, ran, dog, op, report, asked, faults>>

\* service_runner.main.
Gate ==
  /\ At("task", "gate")
  /\ IF paused THEN Exit("task")
     ELSE d' = [d EXCEPT !["task"] = Boot] /\ UNCHANGED rows
  /\ UNCHANGED <<paused, cmds, ran, dog, op, report, asked, faults>>

Locked(p) == \E q \in Launchers \ {p} : d[q].at \in Holding

Orphaned ==
  [i \in DOMAIN rows |-> IF IsActive(i) THEN [rows[i] EXCEPT !.status = "ended"] ELSE rows[i]]

\* Slip: the orphans are marked before the lock is held.
AcquireLate(p) ==
  /\ At(p, "acquire") /\ Go(p, IF Locked(p) THEN "acquire" ELSE "orphans")
  /\ rows' = Orphaned
  /\ UNCHANGED <<paused, cmds, ran, dog, op, report, asked, faults>>

\* DaemonLock.acquire: it does not wait, a launcher that is late exits.
Acquire(p) ==
  /\ At(p, "acquire")
  /\ IF Locked(p) THEN Exit(p) ELSE Go(p, "orphans") /\ UNCHANGED rows
  /\ UNCHANGED <<paused, cmds, ran, dog, op, report, asked, faults>>

\* mark_orphaned_active.
MarkOrphaned(p) ==
  /\ At(p, "orphans") /\ Go(p, "create") /\ rows' = Orphaned
  /\ UNCHANGED <<paused, cmds, ran, dog, op, report, asked, faults>>

\* create_instance.
CreateInstance(p) ==
  /\ At(p, "create")
  /\ rows' = Append(rows, [status |-> "starting", owner |-> p, alive |-> TRUE,
                           stale |-> FALSE, shutdown |-> FALSE, restart |-> FALSE])
  /\ d' = [d EXCEPT ![p].at = "stale", ![p].row = Len(rows) + 1]
  /\ UNCHANGED <<paused, cmds, ran, dog, op, report, asked, faults>>

\* Slip: what the last daemon was doing is done again.
FailStaleRequeue(p) ==
  /\ At(p, "stale") /\ Go(p, "start")
  /\ cmds' = [c \in DOMAIN cmds |-> IF cmds[c] = "running" THEN "pending" ELSE cmds[c]]
  /\ UNCHANGED <<paused, rows, ran, dog, op, report, asked, faults>>

\* fail_stale_running.
FailStale(p) ==
  /\ At(p, "stale") /\ Go(p, "start")
  /\ cmds' = [c \in DOMAIN cmds |-> IF cmds[c] = "running" THEN "ended" ELSE cmds[c]]
  /\ UNCHANGED <<paused, rows, ran, dog, op, report, asked, faults>>

\* The pool is built and started, and mark_running.
MarkRunning(p) ==
  /\ At(p, "start") /\ Go(p, "serve") /\ Write(d[p].row, "running")
  /\ UNCHANGED <<paused, cmds, ran, dog, op, report, asked, faults>>

\* touch_heartbeat and, unless a shutdown is asked for, pending(): the turn's
\* batch of commands.  With none, reconciliation and the sleep end the turn.
Beat(p) ==
  /\ At(p, "serve") /\ d[p].batch = {}
  /\ rows' = [rows EXCEPT ![d[p].row].stale = FALSE]
  /\ d' = IF rows[d[p].row].shutdown
          THEN [d EXCEPT ![p].at = "halt", ![p].restart = rows[d[p].row].restart]
          ELSE [d EXCEPT ![p].batch = {c \in DOMAIN cmds : cmds[c] = "pending"}]
  /\ UNCHANGED <<paused, cmds, ran, dog, op, report, asked, faults>>

\* claim the oldest of the batch; one that is no longer pending is passed over.
Claim(p) ==
  /\ At(p, "serve")
  /\ \E c \in d[p].batch :
       /\ \A e \in d[p].batch : c <= e
       /\ d' = [d EXCEPT ![p].batch = @ \ {c},
                         ![p].cmd = IF cmds[c] = "pending" THEN c ELSE 0,
                         ![p].at = IF cmds[c] = "pending" THEN "exec" ELSE "serve"]
       /\ cmds' = IF cmds[c] = "pending" THEN [cmds EXCEPT ![c] = "running"] ELSE cmds
  /\ UNCHANGED <<paused, rows, ran, dog, op, report, asked, faults>>

\* _execute_worker_command: refused, or handed to the pool and awaited.
Execute(p) ==
  /\ At(p, "exec") /\ Go(p, "await")
  /\ ran' \in {ran, Append(ran, d[p].cmd)}
  /\ UNCHANGED <<paused, rows, cmds, dog, op, report, asked, faults>>

\* complete, of a command that is still running: it succeeded or failed.
Complete(p) ==
  /\ At(p, "await") /\ d' = [d EXCEPT ![p].at = "serve", ![p].cmd = 0]
  /\ cmds' = IF cmds[d[p].cmd] = "running" THEN [cmds EXCEPT ![d[p].cmd] = "ended"] ELSE cmds
  /\ UNCHANGED <<paused, rows, ran, dog, op, report, asked, faults>>

\* _shutdown: each of its two writes may fail, and is then left out.
Ended(p, status) ==
  \/ d[p].row = 0 /\ UNCHANGED <<rows, faults>>
  \/ d[p].row # 0 /\ Write(d[p].row, status) /\ UNCHANGED faults
  \/ d[p].row # 0 /\ Fault /\ UNCHANGED rows

MarkStopping(p) ==
  /\ At(p, "halt") /\ Go(p, "stopping") /\ Ended(p, "stopping")
  /\ UNCHANGED <<paused, cmds, ran, dog, op, report, asked>>

\* stop_all, and mark_stopped.
MarkStopped(p) ==
  /\ At(p, "stopping") /\ Go(p, "release") /\ Ended(p, "ended")
  /\ UNCHANGED <<paused, cmds, ran, dog, op, report, asked>>

\* The lock is released; run_runtime_daemon then builds the next instance in
\* the same process, if a restart was asked for.
Release(p) ==
  /\ At(p, "release")
  /\ IF d[p].restart THEN d' = [d EXCEPT ![p] = Boot] /\ UNCHANGED rows ELSE Exit(p)
  /\ UNCHANGED <<paused, cmds, ran, dog, op, report, asked, faults>>

Run(p) ==
  \/ p = "task" /\ Gate
  \/ Acquire(p) \/ MarkOrphaned(p) \/ CreateInstance(p) \/ FailStale(p) \/ MarkRunning(p)
  \/ Beat(p) \/ Claim(p) \/ Execute(p) \/ Complete(p)
  \/ MarkStopping(p) \/ MarkStopped(p) \/ Release(p)

\* An exception leaves _start or _serve; the process ends through _shutdown.
Fatal(p) ==
  /\ d[p].at \in Booting \cup Serving /\ Fault
  /\ d' = [d EXCEPT ![p] = [Off EXCEPT !.at = "halt", !.row = d[p].row]]
  /\ UNCHANGED <<paused, rows, cmds, ran, dog, op, report, asked>>

Crash(p) ==
  /\ ~At(p, "off") /\ Fault /\ Exit(p)
  /\ UNCHANGED <<paused, cmds, ran, dog, op, report, asked>>

\* STALE_AFTER_S passes without a heartbeat: a long await of the daemon's.
Lapse(p) ==
  /\ d[p].row # 0 /\ ~rows[d[p].row].stale /\ Fault
  /\ rows' = [rows EXCEPT ![d[p].row].stale = TRUE]
  /\ UNCHANGED <<paused, d, cmds, ran, dog, op, report, asked>>

-----------------------------------------------------------------------------
(* The task scheduler and runtime/watchdog.py.                             *)

\* start_task, a logon or a retry of the scheduler: a task that runs is not
\* started again.
StartTask == d' = IF At("task", "off") THEN [d EXCEPT !["task"] = [Off EXCEPT !.at = "gate"]] ELSE d

EndTask == IF At("task", "off") THEN UNCHANGED <<d, rows>> ELSE Exit("task")

Trigger ==
  /\ At("task", "off") /\ StartTask
  /\ UNCHANGED <<paused, rows, cmds, ran, dog, op, report, asked, faults>>

Dog(place, i) == dog' = [at |-> place, row |-> i]

DogTrigger ==
  /\ dog.at = "off" /\ Dog("gate", 0)
  /\ UNCHANGED <<paused, d, rows, cmds, ran, op, report, asked, faults>>

DogGate ==
  /\ dog.at = "gate" /\ Dog(IF paused THEN "off" ELSE "look", 0)
  /\ UNCHANGED <<paused, d, rows, cmds, ran, op, report, asked, faults>>

\* Slip: the row is believed, whether its process lives or not.
DogLookTrusting ==
  /\ dog.at = "look"
  /\ IF IsActive(Latest) THEN Dog("off", 0) ELSE Dog("start", 0)
  /\ UNCHANGED <<paused, d, rows, cmds, ran, op, report, asked, faults>>

\* check_and_recover's verdict on the latest row.
DogLook ==
  /\ dog.at = "look"
  /\ IF Stale(Latest) THEN Dog("end", Latest)
     ELSE IF ProcessAlive(Latest) THEN Dog("off", 0)
     ELSE Dog("start", 0)
  /\ UNCHANGED <<paused, d, rows, cmds, ran, op, report, asked, faults>>

\* end_task, which the scheduler may refuse when the task does not run.
DogEnd ==
  /\ dog.at = "end" /\ EndTask
  /\ \/ Dog("wait", dog.row)
     \/ At("task", "off") /\ Dog("off", 0)
  /\ UNCHANGED <<paused, cmds, ran, op, report, asked, faults>>

\* The process it looked at is gone, or it gives up for this minute.
DogWait ==
  /\ dog.at = "wait"
  /\ Dog(IF rows[dog.row].alive THEN "off" ELSE "start", 0)
  /\ UNCHANGED <<paused, d, rows, cmds, ran, op, report, asked, faults>>

DogStart ==
  /\ dog.at = "start" /\ StartTask /\ Dog("off", 0)
  /\ UNCHANGED <<paused, rows, cmds, ran, op, report, asked, faults>>

Watchdog == DogTrigger \/ DogGate \/ DogLook \/ DogEnd \/ DogWait \/ DogStart

-----------------------------------------------------------------------------
(* The operator: cli/commands/service.py and daemon.py.                    *)

Ask == asked < MaxRequests /\ asked' = asked + 1

\* A request for which the operator waits for no one.
Free == op.at = "idle" /\ Ask

StopCall ==
  /\ Free /\ paused' = TRUE /\ report' = FALSE /\ op' = [Idle EXCEPT !.at = "request"]
  /\ UNCHANGED <<d, rows, cmds, ran, dog, faults>>

\* Whether the request reaches whoever could go on serving: either nobody has an
\* active row, and the task is all there is to end; or every process past the
\* pause file has one, and it does not say restart.
Reaches ==
  \/ (\A i \in DOMAIN rows : ~IsActive(i)) /\ At("manual", "off")
  \/ \A p \in Launchers :
       d[p].at \notin {"off", "gate"} => IsActive(d[p].row) /\ ~rows[d[p].row].restart

StopRequest ==
  /\ op.at = "request" /\ Flag(FALSE)
  /\ op' = [op EXCEPT !.at = "wait", !.hit = \E i \in DOMAIN rows : IsActive(i),
                      !.sound = Reaches]
  /\ UNCHANGED <<paused, d, cmds, ran, dog, report, asked, faults>>

\* _wait_daemon: until the latest row's process is not alive, or the time is up.
StopWait ==
  /\ op.at = "wait"
  /\ \E gone \in {~ProcessAlive(Latest), FALSE} :
       op' = [op EXCEPT !.at = "reap", !.gone = gone]
  /\ UNCHANGED <<paused, d, rows, cmds, ran, dog, report, asked, faults>>

StopReap ==
  /\ op.at = "reap" /\ dog' = Asleep /\ op' = [op EXCEPT !.at = "end"]
  /\ UNCHANGED <<paused, d, rows, cmds, ran, report, asked, faults>>

\* Slip: the task is ended only after the wait timed out.
StopEndLate ==
  /\ op.at = "end" /\ op' = [Idle EXCEPT !.sound = op.gone /\ op.sound]
  /\ IF ~op.gone THEN EndTask ELSE UNCHANGED <<d, rows>>
  /\ report' = op.gone
  /\ UNCHANGED <<paused, cmds, ran, dog, asked, faults>>

StopEnd ==
  /\ op.at = "end" /\ op' = [Idle EXCEPT !.sound = op.gone /\ op.sound]
  /\ IF ~op.gone \/ ~op.hit THEN EndTask ELSE UNCHANGED <<d, rows>>
  /\ report' = op.gone
  /\ UNCHANGED <<paused, cmds, ran, dog, asked, faults>>

StartCall ==
  /\ Free /\ paused' = FALSE /\ report' = FALSE /\ op' = [Idle EXCEPT !.at = "start"]
  /\ UNCHANGED <<d, rows, cmds, ran, dog, faults>>

StartRun ==
  /\ op.at = "start" /\ StartTask /\ op' = Idle
  /\ UNCHANGED <<paused, rows, cmds, ran, dog, report, asked, faults>>

Service == StopRequest \/ StopWait \/ StopReap \/ StopEnd \/ StartRun

\* `daemon stop` and `daemon restart`.
DaemonRequest ==
  /\ Free /\ \E restart \in BOOLEAN : Flag(restart)
  /\ UNCHANGED <<paused, d, cmds, ran, dog, op, report, faults>>

\* `daemon run`, which does not look at the pause file.
DaemonRun ==
  /\ Free /\ At("manual", "off") /\ d' = [d EXCEPT !["manual"] = Boot] /\ report' = FALSE
  /\ UNCHANGED <<paused, rows, cmds, ran, dog, op, faults>>

\* Ctrl+C: the loop ends at its next look at the stop event.
Interrupt ==
  /\ Free /\ At("manual", "serve") /\ d["manual"].batch = {}
  /\ d' = [d EXCEPT !["manual"].at = "halt", !["manual"].restart = FALSE]
  /\ UNCHANGED <<paused, rows, cmds, ran, dog, op, report, faults>>

\* worker_commands.submit, from any process.
Submit ==
  /\ Len(cmds) < MaxCommands /\ cmds' = Append(cmds, "pending")
  /\ UNCHANGED <<paused, d, rows, ran, dog, op, report, asked, faults>>

Operator == StopCall \/ StartCall \/ DaemonRequest \/ DaemonRun \/ Interrupt \/ Submit

-----------------------------------------------------------------------------
Init ==
  /\ paused = FALSE /\ d = [p \in Launchers |-> Off] /\ rows = <<>>
  /\ cmds = <<>> /\ ran = <<>> /\ dog = Asleep /\ op = Idle /\ report = FALSE
  /\ asked = 0 /\ faults = 0

Next ==
  \/ \E p \in Launchers : Run(p) \/ Fatal(p) \/ Crash(p) \/ Lapse(p)
  \/ Trigger \/ Watchdog \/ Service \/ Operator

Spec == Init /\ [][Next]_vars

\* A live process goes on, the scheduler runs the watchdog every minute, and a
\* service command that has begun is carried through.
Fairness ==
  /\ \A p \in Launchers : WF_vars(Run(p))
  /\ WF_vars(Watchdog) /\ WF_vars(Service)

FairSpec == Spec /\ Fairness

-----------------------------------------------------------------------------
(* Properties.                                                             *)

\* What the health check, the watchdog and `service stop` judge by is the latest
\* row: from the start of a daemon to the end of its shutdown that is its own row,
\* active and alive, and no other row is active.
LatestRowIsTheDaemon ==
  \A p \in Launchers :
    d[p].row # 0 /\ d[p].at # "release" =>
      /\ d[p].row = Latest /\ ProcessAlive(Latest)
      /\ d[p].at \in Serving => rows[Latest].status = "running"
      /\ \A i \in DOMAIN rows : IsActive(i) => i = Latest

\* However often daemons are killed, replaced and restarted, no command is
\* carried out twice and none overtakes an older one.
CommandsRunOnceInOrder ==
  \A i, j \in DOMAIN ran : i < j => ran[i] < ran[j]

\* After `service stop` has reported the task stopped, nobody serves until the
\* operator starts something, if the request reached all who could go on serving.
StopSticksWhereItReaches ==
  op.sound /\ report => \A p \in Launchers : d[p].at \notin Serving

Waits(c) == c \in DOMAIN cmds /\ cmds[c] \in {"pending", "running"}

\* A submitted command is concluded, whatever becomes of the daemons it waits
\* for, unless the service is paused.
CommandsConclude == \A c \in 1..MaxCommands : Waits(c) ~> paused \/ ~Waits(c)
=============================================================================
