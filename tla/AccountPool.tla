---------------------------- MODULE AccountPool ----------------------------
(***************************************************************************)
(* runtime/account_pool.py with the daemon loop that drives it, for one    *)
(* account: which worker generation is current, the done-callbacks the     *)
(* pool hangs on its startup and run tasks, the retirement task that is    *)
(* the barrier between generations, and the commands and reconciliation of *)
(* runtime/daemon.py.  The worker's own steps are those of AccountWorker.  *)
(*                                                                         *)
(* Accounts do not meet in the pool except in the daemon's loop, which one *)
(* command at a time may hold up; here that is the account's own command.  *)
(*                                                                         *)
(* A worker whose run task has set ERROR and not ended yet can be started  *)
(* again ("restart" in Requests), and then two lives of one object share   *)
(* its flags.  `met` remembers it: once the pool has dropped such a worker *)
(* what is left of it is not followed, so most properties speak of the     *)
(* daemon process up to that moment, and NoOverlap of all of it.           *)
(***************************************************************************)
EXTENDS AccountWorker

VARIABLES
  cur,      \* the worker is in _workers
  retire,   \* _retirement_tasks: "none", a claimed "stop" or a claimed "failed" cleanup
  sObs,     \* a startup done-callback is still to run
  tObs,     \* a run-task done-callback is registered in _transport_tasks
  want,     \* accounts.desired_state
  cmd,      \* the worker command: "idle", pending (its action), or being awaited
  closing,  \* the daemon has left its loop and is inside stop_all
  met       \* history: this process started a worker over its own ending run task

pool     == <<cur, retire, sObs, tObs>>
control  == <<want, cmd, closing, met>>
poolVars == <<vars, pool, control>>

Commands == {"start", "stop", "restart"}

\* The daemon's loop is inside a command's await, or is free to take its next turn.
Waiting == {"stopping", "restarting", "rebuilding"}
Serving == cmd \notin Waiting /\ ~closing

\* _schedule_worker_retirement: the current generation is claimed once.
Claim(kind) ==
  IF cur /\ retire = "none" THEN cur' = FALSE /\ retire' = kind
                            ELSE UNCHANGED <<cur, retire>>

\* A new worker enters the pool and is started, unless its account lock is
\* busy: then it leaves the pool again.
Create ==
  \/ /\ flock = "free" /\ Fresh("load") /\ flock' = "self"
     /\ cur' = TRUE /\ sObs' = TRUE /\ tObs' = FALSE
     /\ UNCHANGED <<db, durable, faults, retire>>
  \/ flock # "free" /\ UNCHANGED <<vars, pool>>

-----------------------------------------------------------------------------
(* Done-callbacks and retirement tasks.                                    *)

\* _observe_startup: a failed startup drops the worker, another hands over to
\* the transport observer.
StartupObserved ==
  /\ sObs /\ s \notin SActive /\ sObs' = FALSE
  /\ cur' = (cur /\ (s = "cancelled" \/ (s # "failed" /\ mem # "error")))
  /\ tObs' = (tObs \/ (s = "done" /\ mem # "error" /\ r # "idle"))
  /\ UNCHANGED <<vars, retire, control>>

\* Slip: a transport that ended in the terminal state is not retired.
TransportObservedErrorsOnly ==
  /\ tObs /\ r \in REnded /\ tObs' = FALSE
  /\ IF r # "cancelled" /\ (lifeErr \/ r = "failed") THEN Claim("failed")
                                                   ELSE UNCHANGED <<cur, retire>>
  /\ UNCHANGED <<vars, sObs, control>>

\* _observe_transport_task.
TransportObserved ==
  /\ tObs /\ r \in REnded /\ tObs' = FALSE
  /\ IF r = "cancelled" THEN UNCHANGED <<cur, retire>>
     ELSE IF lifeErr \/ r = "failed" THEN Claim("failed")
     ELSE IF ~stopReq /\ mem = "error" THEN Claim("stop")
     ELSE UNCHANGED <<cur, retire>>
  /\ UNCHANGED <<vars, sObs, control>>

\* The retirement task runs stop() or the failed transport's cleanup.
RetirementRuns ==
  /\ \/ retire = "stop" /\ StopCall
     \/ retire = "failed" /\ FailClosedCall
  /\ UNCHANGED <<pool, control>>

\* The barrier falls only when the cleanup has ended.
RetirementEnds ==
  /\ retire # "none" /\ c \in CEnded /\ retire' = "none"
  /\ UNCHANGED <<vars, cur, sObs, tObs, control>>

-----------------------------------------------------------------------------
(* The daemon's loop: one command, then reconciliation, in turn.           *)

\* Slip: reconciliation starts what is wanted and stops nothing.
ReconcileStartsOnly ==
  /\ Serving /\ want = "running" /\ ~cur /\ retire = "none"
  /\ flock = "free" /\ Create /\ UNCHANGED control

\* reconcile_desired_accounts.
Reconcile ==
  /\ Serving
  /\ \/ want = "stopped" /\ cur /\ retire = "none" /\ Claim("stop")
        /\ UNCHANGED <<vars, sObs, tObs>>
     \/ want = "running" /\ ~cur /\ retire = "none" /\ flock = "free" /\ Create
  /\ UNCHANGED control

\* _start_observed: the pool hears of the startup it has asked for.
StartObserved == Start /\ sObs' = TRUE /\ UNCHANGED <<cur, retire, tObs>>

\* _execute_worker_command refuses to start what the circuit blocks.
CommandBlocked ==
  /\ Serving /\ cmd \in {"start", "restart"} /\ risk /\ cmd' = "idle"
  /\ UNCHANGED <<vars, pool, want, closing, met>>

\* ensure_started: a worker in the pool is started again if it can be, and
\* its transport is observed; an absent one is created.  Whether the run task
\* of an ERROR worker has ended is not asked.
EnsureStarted ==
  /\ Serving /\ cmd = "start" /\ ~risk /\ cmd' = "idle" /\ UNCHANGED <<want, closing>>
  /\ \/ retire # "none" /\ UNCHANGED <<vars, pool, met>>
     \/ retire = "none" /\ ~cur /\ Create /\ UNCHANGED met
     \/ retire = "none" /\ cur /\ StartObserved /\ met' = (met \/ r \in RActive)
     \/ /\ retire = "none" /\ cur
        /\ s \in SActive \/ mem \notin {"disabled", "error"} \/ flock = "other"
        /\ tObs' = (tObs \/ (s \notin SActive /\ mem \notin {"disabled", "error"}
                             /\ r # "idle"))
        /\ UNCHANGED <<vars, cur, retire, sObs, met>>

\* ensure_stopped and the first half of restart_worker: claim the current
\* worker, or wait for a retirement that is already under way.
EnsureStopped ==
  /\ Serving /\ cmd \in {"stop", "restart"} /\ (cmd = "restart" => ~risk)
  /\ cmd' = CASE cmd = "stop" -> "stopping"
              [] cmd = "restart" /\ cur /\ retire = "none" -> "restarting"
              [] OTHER -> "rebuilding"
  /\ Claim("stop") /\ UNCHANGED <<vars, sObs, tObs, want, closing, met>>

\* _await_worker_retirement: whose cleanup it was, and how it ended, is not asked.
Retired == retire = "none"

\* The wait is over.  A restart builds the next generation, unless the stop it
\* asked for raised; another's failed retirement does not concern it.
CommandEnds ==
  /\ cmd \in Waiting /\ Retired
  /\ IF cmd = "rebuilding" \/ (cmd = "restarting" /\ c # "raised")
     THEN Create ELSE UNCHANGED <<vars, pool>>
  /\ cmd' = "idle" /\ UNCHANGED <<want, closing, met>>

\* The loop ends, and stop_all claims what the pool has.
StopAll ==
  /\ Serving /\ closing' = TRUE /\ Claim("stop")
  /\ UNCHANGED <<vars, sObs, tObs, want, cmd, met>>

\* stop_all drains retirements, then the observed transports and what their
\* callbacks have claimed.
Drained == Retired /\ ~tObs

\* The process ends, and what it still held goes with it.
DaemonExits ==
  /\ closing /\ Drained /\ Crash
  /\ closing' = FALSE /\ cur' = FALSE /\ sObs' = FALSE /\ met' = FALSE
  /\ UNCHANGED <<retire, tObs, want, cmd>>

\* worker_commands.submit writes the desired state and the command together.
\* It reads the circuit in a session of its own before it writes, and any number
\* of submitters may be that slow: a start can be written with the circuit open.
Submit(action) ==
  /\ cmd = "idle" /\ cmd' = action
  /\ want' = IF action = "stop" THEN "stopped" ELSE "running"
  /\ UNCHANGED <<vars, pool, closing, met>>

\* account disable: no command, reconciliation has to notice.
DisableAccount ==
  /\ want = "running" /\ want' = "stopped" /\ UNCHANGED <<vars, pool, cmd, closing, met>>

\* The worker's tasks and other processes; opening the durable circuit also
\* withdraws the wish to run.
Within(step) ==
  /\ step
  /\ want' = IF risk' /\ ~risk THEN "stopped" ELSE want
  /\ UNCHANGED <<pool, cmd, closing, met>>

\* A startup's done-callback is the event loop's next step: no task gets further
\* before it than the await it is in.
InLoop(step) == ~(sObs /\ s \notin SActive) /\ Within(step)

\* auth refresh turns down an account that is wanted running.
WorkerStep ==
  \/ InLoop(Tasks) \/ Within(TokenExpires)
  \/ Within(OtherProcess /\ (risk /\ ~risk' => want = "stopped"))

\* The daemon dies; the next one fails the running command.
DaemonCrash ==
  /\ Crash
  /\ cur' = FALSE /\ retire' = "none" /\ sObs' = FALSE /\ tObs' = FALSE
  /\ closing' = FALSE /\ met' = FALSE
  /\ cmd' = (IF cmd \in Waiting THEN "idle" ELSE cmd)
  /\ UNCHANGED want

PoolInit ==
  /\ Init
  /\ cur = FALSE /\ retire = "none" /\ sObs = FALSE /\ tObs = FALSE
  /\ want = "running" /\ cmd = "idle" /\ closing = FALSE
  /\ met = FALSE

Callbacks == StartupObserved \/ TransportObserved \/ RetirementRuns \/ RetirementEnds

Daemon == CommandBlocked \/ EnsureStarted \/ EnsureStopped \/ CommandEnds \/ DaemonExits

PoolNext ==
  \/ WorkerStep \/ Callbacks \/ Daemon \/ Reconcile
  \/ \E action \in Commands : Submit(action)
  \/ StopAll \/ DisableAccount \/ DaemonCrash

PoolSpec == PoolInit /\ [][PoolNext]_poolVars

\* The event loop runs the worker's tasks, the callbacks and the daemon loop.
PoolFairness ==
  /\ WF_poolVars(InLoop(Startup)) /\ WF_poolVars(InLoop(Transport))
  /\ WF_poolVars(InLoop(Monitor)) /\ WF_poolVars(InLoop(Stopping))
  /\ WF_poolVars(Callbacks) /\ WF_poolVars(Daemon) /\ WF_poolVars(Reconcile)

FairPoolSpec == PoolSpec /\ PoolFairness

-----------------------------------------------------------------------------
(* Properties.                                                             *)

\* Nothing of the worker object can act on the account any more.
Quiet ==
  /\ s \notin SActive /\ r \notin RActive /\ m # "promote"
  /\ ~sock /\ flock # "self"

\* "每个账号一个独立 asyncio Worker", and the retirement task "is the generation
\* barrier": when a worker enters the pool, whatever path the previous one left
\* it by (failed startup, failed or terminal transport, stop, restart,
\* reconciliation), nothing of it is still running; and nothing of it is when a
\* daemon that was asked to shut down exits.
NoOverlap == [][(~cur /\ cur') \/ DaemonExits => Quiet]_poolVars

\* The same of a process in which no start command has met an ending run task:
\* every other way out of the pool, and every failed write, keeps generations
\* apart.
OnlyAMeetingOverlaps == [][(~cur /\ cur') \/ DaemonExits => Quiet \/ met]_poolVars

\* No worker whose tasks have all ended stays in the pool unobserved, unless
\* it waits for an operator's validation.
NoOrphanedWorker ==
  cur /\ ~sObs /\ ~tObs /\ s \notin SActive /\ r \notin RActive /\ v = "none" =>
    mem = "needs_validation"

\* As long as no write and no task of the system has failed, and no start has
\* met an ending run task.
NoOrphanWithoutFault == faults = 0 /\ ~met => NoOrphanedWorker

\* While the durable validation circuit is open no connection is opened, unless
\* by a client already told to stop: the account that triggered the circuit
\* stops retrying until an operator has cleared it.  (Of a process in which no
\* start has met an ending run task: then the lock is lost, and another process
\* may clear and open the circuit.)
CircuitStopsTransport == [][~sock /\ sock' => ~risk \/ clStop \/ met]_poolVars

\* A withdrawn wish to run reaches the account: its worker is gone and quiet,
\* whatever state it was in, unless it is wanted again.
StopIsHonoured == want = "stopped" ~> (want = "running" \/ (~cur /\ Quiet))
=============================================================================
