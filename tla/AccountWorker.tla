--------------------------- MODULE AccountWorker ---------------------------
(***************************************************************************)
(* runtime/account_worker.py with the part of protocol/ws/client.py it     *)
(* owns: one account's worker object and the tasks that share its state -- *)
(* the startup task (s), the transport's run task (r), the readiness       *)
(* monitor (m), the stop or cleanup its pool runs (c) and an operator's    *)
(* validation recovery (v).                                                *)
(*                                                                         *)
(* _set_worker_state serialises validate, persist, assign under one        *)
(* asyncio lock, so a change is one step here; choosing the target is an   *)
(* earlier step, because the choice is made before the lock is awaited.  A *)
(* cancellation inside the persist may leave the row ahead of the memory.  *)
(***************************************************************************)
EXTENDS Naturals, WorkerState, Recovery

CONSTANTS
  MaxFaults,   \* bound: database calls that may fail in a behaviour
  Requests     \* requests that may overlap the worker's own tasks: "recover", an
               \* operator's recover_validation, and "restart", a start of a failed
               \* worker whose transport has not ended yet

ASSUME ConstantsAssumption == MaxFaults \in Nat /\ Requests \subseteq {"recover", "restart"}

VARIABLES
  mem,      \* _worker_state
  db,       \* worker_status.status
  risk,     \* worker_status.risk_recovery_required
  token,    \* ws_credentials holds a usable prepared token
  flock,    \* the account's OS file lock: "free", "self" (this worker), "other" (a process)
  clLock,   \* WsClient._account_lock_held
  stopReq,  \* _stop_requested
  clStop,   \* WsClient._stop is set
  lifeErr,  \* lifecycle_error is not None
  sock,     \* the connection's socket is open
  ready,    \* WsClient.subscription_ready is not None
  clUp,     \* WsClient.state is CONNECTED
  proof,    \* history: the newest connection has shown its subscription marker
  s, r, m, c, v,  \* where each task is
  rw,       \* the state the run task has chosen and not yet set, or NoTarget
  rk,       \* why the run task's connection failed: "net" or "auth"
  rend,     \* how the run task will end
  cerr,     \* stop() has an error to raise
  faults    \* failed writes so far

life  == <<mem, db>>
durable == <<risk, token>>
lockv == <<flock, clLock>>
flags == <<stopReq, clStop, lifeErr>>
conn  == <<sock, ready, clUp, proof>>
run   == <<r, rw, rk, rend>>
stop  == <<c, cerr>>
vars  == <<life, durable, lockv, flags, conn, s, run, m, stop, v, faults>>

NoTarget == "none"

SActive == {"load", "start", "startNV", "restore", "checking", "ensure", "retry",
            "refreshing", "rechecking", "connecting", "toNV", "toError", "go", "fail"}
REnded  == {"done", "failed", "cancelled"}
RActive == {"top", "cc", "open", "reg", "ct", "serve", "tf", "prep", "cred",
             "credwait", "resume", "toNV", "toError", "check", "disc", "fin"}
CActive == {"stopping", "cancelM", "wait", "emit", "release", "disable"}
CEnded  == {"done", "raised"}

\* States in which transport observations no longer drive the lifecycle.
Settled == {"stopping", "disabled", "needs_validation", "error"}
Linked  == {"connecting", "registering", "syncing", "online"}

-----------------------------------------------------------------------------
(* The next state each handler asks for, or NoTarget when it is finished.  *)

ConnectingHop(st) ==   \* _advance_to_connecting
  CASE st \in {"online", "syncing", "registering"}     -> "reconnecting"
    [] st \in {"reconnecting", "checking_session"}     -> "connecting"
    [] st = "refreshing_credential"                    -> "checking_session"
    [] OTHER                                           -> NoTarget

ConnectedHop(st) ==    \* _advance_transport_connected up to SYNCING
  CASE st \in {"reconnecting", "checking_session"} -> "connecting"
    [] st = "connecting"                           -> "registering"
    [] st = "registering"                          -> "syncing"
    [] OTHER                                       -> NoTarget

RefreshHop(st) ==      \* _prepare_credential_recovery(REFRESHING_CREDENTIAL)
  CASE st \in Linked                               -> "reconnecting"
    [] st \in {"reconnecting", "checking_session"} -> "refreshing_credential"
    [] OTHER                                       -> NoTarget

ResumeHop(st) ==       \* _apply_recovery_decision(CHECKING_SESSION)
  CASE st \in Linked                                    -> "reconnecting"
    [] st \in {"refreshing_credential", "reconnecting"} -> "checking_session"
    [] OTHER                                            -> NoTarget

-----------------------------------------------------------------------------
(* _set_worker_state: validated, written to the row, then to the memory.   *)

Set(target)    == CanTransition(mem, target) /\ mem' = target /\ db' = target
SetFails       == faults < MaxFaults /\ faults' = faults + 1 /\ UNCHANGED life
Rejected(target) == ~CanTransition(mem, target)

\* A cancelled write reached the row or did not; the memory was not assigned.
CancelledWrite(target) ==
  /\ \/ db' = db
     \/ target # NoTarget /\ CanTransition(mem, target) /\ db' = target
  /\ mem' = mem

\* _cancel_readiness_monitor, which may be in the middle of its promotion.
CancelMonitor ==
  m' = "none" /\ CancelledWrite(IF m = "promote" THEN "online" ELSE NoTarget)

ReleaseLock == flock' = IF flock = "self" THEN "free" ELSE flock

\* WsClient.fail_closed_after_lifecycle_error, which the run task calls when a
\* lifecycle callback raised and nobody had asked it to stop.
ClientFailClosed ==
  /\ clStop' = TRUE /\ sock' = FALSE /\ ready' = FALSE
  /\ flock' = IF clLock /\ flock = "self" THEN "free" ELSE flock
  /\ clLock' = FALSE

\* Slip: the lock is given back and the client is not told to stop.
FailClosedClientRuns ==
  /\ lifeErr' = TRUE /\ stopReq' = TRUE /\ UNCHANGED clStop
  /\ sock' = FALSE /\ ready' = FALSE
  /\ ReleaseLock /\ clLock' = FALSE

\* _fail_closed_transport_after_lifecycle_error, called by a promotion.
FailClosed ==
  /\ lifeErr' = TRUE /\ stopReq' = TRUE /\ clStop' = TRUE
  /\ sock' = FALSE /\ ready' = FALSE
  /\ ReleaseLock /\ clLock' = FALSE

-----------------------------------------------------------------------------
(* Startup: start() and _run_startup.                                      *)

\* start() refuses needs_validation, a running startup and every live state;
\* it takes the account lock before the task exists.  The pool starts no
\* worker it has begun to retire.
Start ==
  /\ c = "none" /\ s \notin SActive /\ mem \in {"disabled", "error"}
  /\ r \notin RActive \/ "restart" \in Requests
  /\ flock # "other"
  /\ flock' = "self" /\ stopReq' = FALSE /\ s' = "load"
  /\ UNCHANGED <<life, durable, clLock, clStop, lifeErr, conn, run, m, stop, v, faults>>

\* A read that fails is logged and counts as no persisted state.
SLoad ==
  /\ s = "load"
  /\ \/ /\ s' = IF FromPersistence(db, risk) = "needs_validation" THEN "startNV" ELSE "start"
        /\ UNCHANGED faults
     \/ faults < MaxFaults /\ faults' = faults + 1 /\ s' = "start"
  /\ UNCHANGED <<life, durable, lockv, flags, conn, run, m, stop, v>>

STarget == [start |-> "starting", startNV |-> "starting", restore |-> "needs_validation",
            checking |-> "checking_session", retry |-> "checking_session",
            refreshing |-> "refreshing_credential", rechecking |-> "checking_session",
            connecting |-> "connecting", toNV |-> "needs_validation", toError |-> "error"]

SNext == [start |-> "checking", startNV |-> "restore", restore |-> "done",
          checking |-> "ensure", retry |-> "ensure", refreshing |-> "rechecking",
          rechecking |-> "connecting", connecting |-> "go", toNV |-> "done",
          toError |-> "done"]

\* The task's finally: the lock goes back unless the transport was started.
SFinish(how) == s' = how /\ ReleaseLock

SSet ==
  /\ s \in DOMAIN STarget
  /\ \/ /\ Set(STarget[s]) /\ UNCHANGED faults
        /\ IF SNext[s] = "done" THEN SFinish("done")
                                ELSE s' = SNext[s] /\ UNCHANGED flock
     \/ /\ \/ SetFails
           \/ Rejected(STarget[s]) /\ UNCHANGED <<life, faults>>
        /\ IF s \in {"start", "startNV"} THEN SFinish("failed")
                                         ELSE s' = "fail" /\ UNCHANGED flock
  /\ UNCHANGED <<durable, clLock, flags, conn, run, m, stop, v>>

\* A credential backend that meets the platform's demand for a human opens the
\* durable circuit; the gate in front of the backend turns down what is open.
OpenCircuit == risk' = TRUE /\ db' = IF risk THEN db ELSE "risk_cooling"

\* Slip: the prepared token is good enough, the circuit is not looked at.
SEnsureTrusting ==
  /\ s = "ensure"
  /\ \/ stopReq /\ SFinish("done") /\ UNCHANGED <<life, durable>>
     \/ ~stopReq /\ token /\ s' = "connecting" /\ UNCHANGED <<life, durable, flock>>
     \/ ~stopReq /\ ~token /\ s' = "toNV" /\ OpenCircuit /\ UNCHANGED <<mem, token, flock>>
  /\ UNCHANGED <<clLock, flags, conn, run, m, stop, v, faults>>

\* The durable part of a credential result: a token prepared, the circuit opened.
Credentialed(result) ==
  CASE result = "success"          -> ~risk /\ token' = TRUE /\ UNCHANGED <<db, risk>>
    [] result = "needs_validation" -> OpenCircuit /\ UNCHANGED token
    [] OTHER                       -> UNCHANGED <<db, durable>>

\* Where startup goes on for the state a decision asks for; a credential that
\* was refreshed on the way shows it in the lifecycle.
SAfter == [connecting |-> {"connecting", "refreshing"}, checking_session |-> {"retry"},
           needs_validation |-> {"toNV"}, error |-> {"toError"}]

\* _recover_credentials(ENSURE): a stop ends it, validation and terminal
\* results end startup, retryable ones repeat it.
SEnsure ==
  /\ s = "ensure"
  /\ \/ stopReq /\ SFinish("done") /\ UNCHANGED <<db, durable>>
     \/ /\ ~stopReq /\ UNCHANGED flock
        /\ \E result \in Results :
             Credentialed(result) /\ s' \in SAfter[StateAfter(result, "ensure")]
  /\ UNCHANGED <<mem, clLock, flags, conn, run, m, stop, v, faults>>

\* Slip: the client trusts the lock its worker took when startup began.
ClientStartTrusting ==
  IF r \in RActive
  THEN UNCHANGED <<lockv, clStop, run>>
  ELSE /\ clLock' = TRUE /\ clStop' = FALSE /\ UNCHANGED flock
       /\ r' = "top" /\ rw' = NoTarget /\ rk' = "net" /\ rend' = "done"

\* WsClient.start(): nothing while the previous run task is alive, else the
\* lock is taken (again if it was lost) and a new run task begins.
ClientStart ==
  IF r \in RActive
  THEN UNCHANGED <<lockv, clStop, run>>
  ELSE /\ flock' = "self" /\ clLock' = TRUE /\ clStop' = FALSE
       /\ r' = "top" /\ rw' = NoTarget /\ rk' = "net" /\ rend' = "done"

SGo ==
  /\ s = "go"
  /\ \/ stopReq /\ SFinish("done") /\ UNCHANGED <<clLock, clStop, run>>
     \/ ~stopReq /\ (r \in RActive \/ flock # "other") /\ ClientStart /\ s' = "done"
     \/ /\ ~stopReq /\ r \notin RActive /\ flock = "other"
        /\ s' = "fail" /\ UNCHANGED <<lockv, clStop, run>>
  /\ UNCHANGED <<life, durable, stopReq, lifeErr, conn, m, stop, v, faults>>

\* An exception after STARTING: project ERROR if that is still possible, and
\* raise in every case.
SFail ==
  /\ s = "fail"
  /\ \/ /\ mem \notin {"stopping", "disabled", "needs_validation"}
        /\ Set("error") /\ UNCHANGED faults
     \/ mem \notin {"stopping", "disabled", "needs_validation"} /\ SetFails
     \/ /\ mem \in {"stopping", "disabled", "needs_validation"} \/ Rejected("error")
        /\ UNCHANGED <<life, faults>>
  /\ SFinish("failed")
  /\ UNCHANGED <<durable, clLock, flags, conn, run, m, stop, v>>

Startup == SLoad \/ SSet \/ SEnsure \/ SGo \/ SFail

-----------------------------------------------------------------------------
(* The run task: _run_forever, _connect_and_serve and the worker's         *)
(* callbacks, _on_client_state and _on_auth_failure.                       *)

\* A new attempt forgets the old connection's marker before it is announced.
RTop ==
  /\ r = "top"
  /\ IF clStop THEN r' = "disc" /\ UNCHANGED conn
     ELSE r' = "cc" /\ ready' = FALSE /\ clUp' = FALSE /\ UNCHANGED <<sock, proof>>
  /\ UNCHANGED <<life, durable, lockv, flags, s, rw, rk, rend, m, stop, v, faults>>

\* Prepared credentials, cookie and socket.  Reading the prepared token makes
\* no request: a missing or expired one is an authentication failure.
ROpen ==
  /\ r = "open"
  /\ \/ token /\ r' = "reg" /\ sock' = TRUE /\ proof' = FALSE /\ UNCHANGED rk
     \/ /\ r' = "tf" /\ rk' \in {"net"} \cup (IF token THEN {} ELSE {"auth"})
        /\ UNCHANGED <<sock, proof>>
  /\ UNCHANGED <<life, durable, lockv, flags, ready, clUp, s, rw, rend, m, stop, v, faults>>

\* Registration and sync; a stop seen here closes the connection quietly.
\* CONNECTED first cancels the previous connection's readiness monitor.
RRegister ==
  /\ r = "reg"
  /\ \/ /\ ~clStop /\ sock /\ r' = "ct" /\ clUp' = TRUE /\ UNCHANGED <<sock, rk>>
        /\ CancelMonitor
     \/ /\ sock' = FALSE /\ r' = "tf" /\ rk' = "net" /\ clUp' = FALSE
        /\ UNCHANGED <<m, life>>
     \/ clStop /\ sock' = FALSE /\ r' = "check" /\ UNCHANGED <<clUp, rk, m, life>>
  /\ UNCHANGED <<durable, lockv, flags, ready, proof, s, rw, rend, stop, v, faults>>

\* The subscription exchange of the open connection completes.
MarkReady ==
  /\ r \in {"ct", "serve"} /\ sock /\ ~ready
  /\ ready' = TRUE /\ proof' = TRUE
  /\ UNCHANGED <<life, durable, lockv, flags, sock, clUp, s, run, m, stop, v, faults>>

\* The connection ends: with an error it is reported, cleanly it is not, and
\* then the lifecycle hears nothing before the next attempt.
RServeEnds ==
  /\ r = "serve"
  /\ sock' = FALSE /\ ready' = FALSE
  /\ \/ r' = "check" /\ UNCHANGED <<clUp, rk>>
     \/ r' = "tf" /\ rk' = "net" /\ clUp' = FALSE
  /\ UNCHANGED <<life, durable, lockv, flags, proof, s, rw, rend, m, stop, v, faults>>

\* After a failed or ended attempt: leave on a stop, else back off and retry.
RCheck ==
  /\ r = "check"
  /\ r' = IF clStop THEN "disc" ELSE "top"
  /\ clUp' = (clUp /\ ~clStop)
  /\ UNCHANGED <<life, durable, lockv, flags, sock, ready, proof, s, rw, rk, rend, m, stop, v, faults>>

\* Where a client-state callback goes when it has nothing left to set.
RAfter ==
  CASE r = "cc"   -> "open"
    [] r = "ct"   -> "serve"
    [] r = "tf"   -> IF rk = "auth" THEN "prep" ELSE "check"
    [] r = "disc" -> "fin"

\* The callbacks of CONNECTING and CONNECTED and the auth handler's loops ask
\* for one hop at a time; a failed or ended transport asks for RECONNECTING
\* unless the worker is stopping or settled.
RChoose ==
  /\ rw = NoTarget
  /\ \/ /\ r = "cc" /\ rw' = ConnectingHop(mem)
        /\ r' = IF rw' = NoTarget THEN RAfter ELSE r
        /\ UNCHANGED <<m, clUp>>
     \/ /\ r = "ct"
        /\ rw' = IF mem = "syncing" THEN IF ready THEN "online" ELSE NoTarget
                                   ELSE ConnectedHop(mem)
        /\ r' = IF rw' = NoTarget THEN RAfter ELSE r
        /\ m' = IF mem = "syncing" /\ ~ready THEN "poll" ELSE m
        /\ UNCHANGED clUp
     \/ /\ r \in {"tf", "disc"} /\ clUp' = FALSE
        /\ IF stopReq \/ mem \in Settled
           THEN r' = RAfter /\ UNCHANGED rw
           ELSE rw' = "reconnecting" /\ UNCHANGED r
        /\ UNCHANGED m
     \/ /\ r \in {"prep", "credwait"}
        /\ rw' = IF r = "credwait" /\ mem = "refreshing_credential" THEN mem
                                                                    ELSE RefreshHop(mem)
        /\ r' = IF rw' = NoTarget THEN "cred" ELSE r
        /\ UNCHANGED <<m, clUp>>
     \/ /\ r = "resume" /\ rw' = ResumeHop(mem)
        /\ r' = IF rw' = NoTarget THEN "check" ELSE r
        /\ UNCHANGED <<m, clUp>>
  /\ UNCHANGED <<life, durable, lockv, flags, sock, ready, proof, s, rk, rend, stop, v, faults>>

\* The state was set: a transport failure that moved it then cancels the
\* readiness monitor, a terminal result of the auth handler ends the run task.
RSet ==
  /\ rw # NoTarget /\ Set(rw) /\ rw' = NoTarget
  /\ r' = CASE r = "ct" /\ rw = "online"                     -> "serve"
            [] r \in {"tf", "disc"}                          -> RAfter
            [] r \in {"toNV", "toError"}                     -> "disc"
            [] r = "credwait" /\ rw = "refreshing_credential" -> "cred"
            [] OTHER                                         -> r
  /\ m' = IF r \in {"tf", "disc"} /\ mem # rw THEN "none" ELSE m
  /\ UNCHANGED <<durable, lockv, flags, conn, s, rk, rend, stop, v, faults>>

\* A callback raises.  From the connection attempt it becomes one more failed
\* attempt, from the loop it ends the task, and from the auth handler it is
\* logged and the loop goes on.
RRaise ==
  /\ rw' = NoTarget
  /\ \/ /\ r = "ct" /\ rw = "online" /\ FailClosed
        /\ r' = "tf" /\ rk' = "net" /\ clUp' = FALSE /\ UNCHANGED <<rend, proof>>
     \/ /\ r \in {"cc", "ct", "tf", "disc"} /\ rw # "online"
        /\ IF clStop THEN sock' = FALSE /\ ready' = FALSE /\ UNCHANGED <<lockv, clStop>>
                     ELSE ClientFailClosed
        /\ IF r \in {"cc", "ct"} THEN r' = "tf" /\ rk' = "net" /\ UNCHANGED rend
           ELSE /\ r' = IF r = "tf" THEN "disc" ELSE "failed"
                /\ rend' = "failed" /\ UNCHANGED rk
        /\ clUp' = FALSE /\ UNCHANGED <<stopReq, lifeErr, proof>>
     \/ /\ r \in RActive \ {"cc", "ct", "tf", "disc"}
        /\ r' = "check" /\ UNCHANGED <<rk, rend, lockv, flags, conn>>

\* A rejected transition of a client-state callback only rewrites the row.
RSetFails ==
  /\ rw # NoTarget
  /\ \/ CanTransition(mem, rw) /\ SetFails /\ RRaise
     \/ Rejected(rw) /\ r \in {"cc", "ct", "tf", "disc"} /\ SetFails /\ RRaise
     \/ /\ Rejected(rw) /\ r \in {"cc", "ct", "tf", "disc"}
        /\ db' = mem /\ r' = RAfter /\ rw' = NoTarget
        /\ UNCHANGED <<mem, faults, lockv, flags, conn, rk, rend>>
     \/ Rejected(rw) /\ r \notin {"cc", "ct", "tf", "disc"} /\ RRaise
        /\ UNCHANGED <<life, faults>>
  /\ UNCHANGED <<durable, s, m, stop, v>>

\* Where the auth handler goes on for the state a decision asks for.
RAfterRefresh == [checking_session |-> "resume", refreshing_credential |-> "credwait",
                  needs_validation |-> "toNV", error |-> "toError"]

\* _recover_credentials(REFRESH), one attempt.
RRefresh ==
  /\ r = "cred"
  /\ \/ stopReq /\ r' = "disc" /\ UNCHANGED <<db, durable, rw>>
     \/ /\ ~stopReq
        /\ \E result \in Results :
             LET target == StateAfter(result, "refresh")
             IN  /\ Credentialed(result) /\ r' = RAfterRefresh[target]
                 /\ rw' = IF target \in {"needs_validation", "error"} THEN target ELSE rw
  /\ UNCHANGED <<mem, lockv, flags, conn, s, rk, rend, m, stop, v, faults>>

\* The task's finally: the transport gives the lock back.
RFinish ==
  /\ r = "fin"
  /\ flock' = IF clLock /\ flock = "self" THEN "free" ELSE flock
  /\ clLock' = FALSE /\ r' = rend
  /\ UNCHANGED <<life, durable, flags, conn, s, rw, rk, rend, m, stop, v, faults>>

Transport == RTop \/ ROpen \/ RRegister \/ RCheck \/ RChoose \/ RSet \/ RSetFails
             \/ RRefresh \/ RFinish

-----------------------------------------------------------------------------
(* _watch_subscription_ready.                                              *)

\* Slip: a connected transport is taken for a ready subscription.
MPollNoMarker ==
  /\ m = "poll"
  /\ m' = IF ~stopReq /\ mem = "syncing" /\ clUp THEN "promote" ELSE "none"
  /\ UNCHANGED <<life, durable, lockv, flags, conn, s, run, stop, v, faults>>

\* Slip: the marker is looked for once.
MPollOnce ==
  /\ m = "poll"
  /\ m' = IF ~stopReq /\ mem = "syncing" /\ clUp /\ ready THEN "promote" ELSE "none"
  /\ UNCHANGED <<life, durable, lockv, flags, conn, s, run, stop, v, faults>>

MPoll ==
  /\ m = "poll"
  /\ IF ~stopReq /\ mem = "syncing" /\ clUp
     THEN ready /\ m' = "promote"
     ELSE m' = "none"
  /\ UNCHANGED <<life, durable, lockv, flags, conn, s, run, stop, v, faults>>

\* The promotion is set, is refused because the lifecycle moved on, or cannot
\* be written and then closes the transport.
MPromote ==
  /\ m = "promote" /\ m' = "none"
  /\ \/ Set("online") /\ UNCHANGED <<faults, lockv, flags, conn>>
     \/ Rejected("online") /\ UNCHANGED <<life, faults, lockv, flags, conn>>
     \/ CanTransition(mem, "online") /\ SetFails /\ FailClosed /\ UNCHANGED <<clUp, proof>>
  /\ UNCHANGED <<durable, s, run, stop, v>>

Monitor == MPoll \/ MPromote

-----------------------------------------------------------------------------
(* stop(), as the pool's retirement task runs it, once per worker object.  *)

\* Slip: stop() forgets the startup task.
StopCallLeavesStartup ==
  /\ c = "none" /\ c' = "stopping" /\ cerr' = FALSE /\ stopReq' = TRUE
  /\ UNCHANGED <<life, s, flock, lifeErr, durable, clLock, clStop, conn, run, m, v, faults>>

\* The startup task is cancelled and awaited first; its finally gives the
\* lock back, and a startup that had already failed is remembered.
StopCall ==
  /\ c = "none"
  /\ c' = "stopping" /\ cerr' = FALSE /\ stopReq' = TRUE
  /\ lifeErr' = (lifeErr \/ s = "failed")
  /\ IF s \in SActive
     THEN /\ SFinish("cancelled")
          /\ CancelledWrite(CASE s \in DOMAIN STarget -> STarget[s]
                              [] s = "fail" -> "error"
                              [] OTHER -> NoTarget)
     ELSE UNCHANGED <<s, flock, life>>
  /\ UNCHANGED <<durable, clLock, clStop, conn, run, m, v, faults>>

CStopping ==
  /\ c = "stopping" /\ c' = "cancelM"
  /\ \/ mem \in {"disabled", "stopping"} /\ UNCHANGED <<life, cerr, faults>>
     \/ mem \notin {"disabled", "stopping"} /\ Set("stopping") /\ UNCHANGED <<cerr, faults>>
     \/ mem \notin {"disabled", "stopping"} /\ SetFails /\ cerr' = TRUE
  /\ UNCHANGED <<durable, lockv, flags, conn, s, run, m, v>>

\* Cancel the monitor, then WsClient.stop(): set its flag, close its socket.
CCancelMonitor ==
  /\ c = "cancelM" /\ c' = "wait" /\ CancelMonitor
  /\ clStop' = TRUE
  /\ sock' = (sock /\ r \notin RActive)
  /\ UNCHANGED <<durable, lockv, stopReq, lifeErr, ready, clUp, proof, s, run, cerr, v, faults>>

\* The run task did not end within the deadline: it is cancelled, which runs
\* its finally blocks; one already in its last announcement drops the rest.
CCancelRun ==
  /\ c = "wait" /\ r \in RActive \ {"fin"}
  /\ r' = (IF r = "disc" THEN "cancelled" ELSE "disc")
  /\ rw' = NoTarget /\ rend' = "cancelled"
  /\ CancelledWrite(rw)
  /\ sock' = FALSE /\ ready' = FALSE
  /\ UNCHANGED <<durable, lockv, flags, clUp, proof, s, rk, m, stop, v, faults>>

\* Slip: only a run task that ended normally is noticed.
CRunEndedDone ==
  /\ c = "wait" /\ r \in {"idle", "done"} /\ c' = "emit" /\ clUp' = FALSE
  /\ UNCHANGED <<life, cerr, durable, lockv, flags, sock, ready, proof, s, run, m, v, faults>>

\* The run task is over.  Its exception skips the rest of WsClient.stop();
\* otherwise "stop() called" is announced, which a stopping worker ignores.
CRunEnded ==
  /\ c = "wait" /\ r \notin RActive
  /\ IF r = "failed" THEN c' = "release" /\ cerr' = TRUE /\ UNCHANGED clUp
                     ELSE c' = "emit" /\ clUp' = FALSE /\ UNCHANGED cerr
  /\ UNCHANGED <<life, durable, lockv, flags, sock, ready, proof, s, run, m, v, faults>>

CEmit ==
  /\ c = "emit" /\ c' = "release"
  /\ \/ (stopReq \/ mem \in Settled) /\ UNCHANGED <<life, cerr, faults>>
     \/ ~stopReq /\ mem \notin Settled
        /\ \/ Set("reconnecting") /\ UNCHANGED <<cerr, faults>>
           \/ SetFails /\ cerr' = TRUE
  /\ UNCHANGED <<durable, lockv, flags, conn, s, run, m, v>>

\* stop()'s finally gives the lock back, whatever went wrong before.
CRelease ==
  /\ c = "release" /\ ReleaseLock
  /\ c' = IF cerr THEN "raised" ELSE IF mem = "stopping" THEN "disable" ELSE "done"
  /\ UNCHANGED <<life, durable, clLock, flags, conn, s, run, m, cerr, v, faults>>

CDisable ==
  /\ c = "disable"
  /\ \/ Set("disabled") /\ c' = "done" /\ UNCHANGED faults
     \/ SetFails /\ c' = "raised"
     \/ Rejected("disabled") /\ c' = "raised" /\ UNCHANGED <<life, faults>>
  /\ UNCHANGED <<durable, lockv, flags, conn, s, run, m, cerr, v>>

\* _fail_closed_transport_after_lifecycle_error, as the pool's cleanup of a
\* worker whose transport raised.
FailClosedCall ==
  /\ c = "none" /\ c' = "done"
  /\ CancelMonitor
  /\ FailClosed
  /\ UNCHANGED <<durable, clUp, proof, s, run, cerr, v, faults>>

Stopping == CStopping \/ CCancelMonitor \/ CCancelRun \/ CRunEnded \/ CEmit \/ CRelease
            \/ CDisable

-----------------------------------------------------------------------------
(* recover_validation: an operator's explicit way out of needs_validation. *)

VBegin ==
  /\ "recover" \in Requests /\ v = "none" /\ mem = "needs_validation"
  /\ v' = "refresh"
  /\ UNCHANGED <<life, durable, lockv, flags, conn, s, run, m, stop, faults>>

\* The forced refresh: success clears the circuit; validation still required,
\* retryable and terminal results leave or fail the worker.
VRefresh ==
  /\ v = "refresh"
  /\ \/ /\ risk' = FALSE /\ token' = TRUE /\ db' = IF risk THEN "offline" ELSE db
        /\ UNCHANGED <<mem, faults>>
        /\ IF flock = "other" THEN v' = "none" /\ UNCHANGED flock
                              ELSE v' = "check" /\ flock' = "self"
     \/ \E result \in Results \ {"success"} :
        LET t == StateAfter(result, "validation_refresh")
        IN  /\ v' = "none" /\ UNCHANGED <<flock, token>>
            /\ risk' = (risk \/ result = "needs_validation")
            /\ \/ Set(t) /\ UNCHANGED faults
               \/ SetFails
               \/ Rejected(t) /\ UNCHANGED <<life, faults>>
  /\ UNCHANGED <<clLock, flags, conn, s, run, m, stop>>

\* Setting a state failed or was refused: the lock taken above goes back.
VGiveUp(target) ==
  /\ \/ CanTransition(mem, target) /\ SetFails
     \/ Rejected(target) /\ UNCHANGED <<life, faults>>
  /\ ReleaseLock /\ v' = "none"
  /\ UNCHANGED <<clLock, clStop, stopReq, run>>

VCheck ==
  /\ v = "check"
  /\ \/ /\ Set("checking_session") /\ v' = "connect"
        /\ UNCHANGED <<lockv, clStop, stopReq, run, faults>>
     \/ VGiveUp("checking_session")
  /\ UNCHANGED <<durable, lifeErr, conn, s, m, stop>>

\* CONNECTING and WsClient.start() follow each other without an await.
VConnect ==
  /\ v = "connect"
  /\ \/ /\ Set("connecting") /\ stopReq' = FALSE /\ v' = "none" /\ UNCHANGED faults
        /\ IF r \in RActive \/ flock # "other"
           THEN ClientStart
           ELSE UNCHANGED <<lockv, clStop, run>>
     \/ VGiveUp("connecting")
  /\ UNCHANGED <<durable, lifeErr, conn, s, m, stop>>

Recover == VBegin \/ VRefresh \/ VCheck \/ VConnect

-----------------------------------------------------------------------------
(* Around the worker.                                                      *)

\* The fields of a new worker object whose startup is at st.
Fresh(st) ==
  /\ mem' = "disabled"
  /\ clLock' = FALSE /\ stopReq' = FALSE /\ clStop' = FALSE /\ lifeErr' = FALSE
  /\ sock' = FALSE /\ ready' = FALSE /\ clUp' = FALSE /\ proof' = FALSE
  /\ s' = st /\ r' = "idle" /\ rw' = NoTarget /\ rk' = "net" /\ rend' = "done"
  /\ m' = "none" /\ c' = "none" /\ cerr' = FALSE /\ v' = "none"

\* The pool builds the next worker for this account once the old one's
\* retirement has ended.  A lock the old object had kept would be somebody
\* else's to the new one.
NewWorker ==
  /\ c \in CEnded /\ v = "none" /\ Fresh("none")
  /\ flock' = IF flock = "self" THEN "other" ELSE flock
  /\ UNCHANGED <<db, durable, faults>>

\* The daemon process dies: its tasks and its file locks go with it.
Crash ==
  /\ Fresh("none") /\ ReleaseLock
  /\ UNCHANGED <<db, durable, faults>>

\* Another process: it takes the account's lock, and while it has it `auth
\* refresh` prepares a token and clears the durable circuit, or opens it.
OtherProcess ==
  /\ \/ flock = "free" /\ flock' = "other" /\ UNCHANGED <<durable, db>>
     \/ flock = "other" /\ flock' = "free" /\ UNCHANGED <<durable, db>>
     \/ /\ flock = "other" /\ risk' = FALSE /\ token' = TRUE /\ UNCHANGED flock
        /\ db' = IF risk THEN "offline" ELSE db
     \/ flock = "other" /\ ~risk /\ OpenCircuit /\ UNCHANGED <<token, flock>>
  /\ UNCHANGED <<mem, clLock, flags, conn, s, run, m, stop, v, faults>>

\* The prepared token reaches its expiry.
TokenExpires ==
  /\ token /\ token' = FALSE
  /\ UNCHANGED <<life, risk, lockv, flags, conn, s, run, m, stop, v, faults>>

Init ==
  /\ mem = "disabled" /\ db = "disabled" /\ risk = FALSE /\ token = FALSE
  /\ flock = "free" /\ clLock = FALSE
  /\ stopReq = FALSE /\ clStop = FALSE /\ lifeErr = FALSE
  /\ sock = FALSE /\ ready = FALSE /\ clUp = FALSE /\ proof = FALSE
  /\ s = "none" /\ r = "idle" /\ rw = NoTarget /\ rk = "net" /\ rend = "done"
  /\ m = "none" /\ c = "none" /\ cerr = FALSE /\ v = "none"
  /\ faults = 0

Tasks == Startup \/ Transport \/ RServeEnds \/ MarkReady \/ Monitor \/ Stopping \/ Recover

\* What an owner may ask of one worker object: start and recover until it is
\* retired, retire it once, then replace it.
Owner ==
  \/ Start
  \/ StopCall
  \/ r \in REnded /\ (r = "failed" \/ lifeErr) /\ FailClosedCall
  \/ NewWorker

Next == Tasks \/ Owner \/ Crash \/ OtherProcess \/ TokenExpires

Spec == Init /\ [][Next]_vars

\* The event loop runs every ready task, and opening, registering and HTTP
\* calls end by their time limits.  A served connection may last for ever; the
\* platform, the operator, the owner and other processes owe nothing.
Fairness ==
  /\ WF_vars(Startup) /\ WF_vars(Transport) /\ WF_vars(Monitor) /\ WF_vars(Stopping)

FairSpec == Spec /\ Fairness

-----------------------------------------------------------------------------
(* Properties.                                                             *)

SwitchesOK ==
  /\ risk \in BOOLEAN /\ token \in BOOLEAN /\ clLock \in BOOLEAN
  /\ stopReq \in BOOLEAN /\ clStop \in BOOLEAN /\ lifeErr \in BOOLEAN
  /\ sock \in BOOLEAN /\ ready \in BOOLEAN /\ clUp \in BOOLEAN /\ proof \in BOOLEAN
  /\ cerr \in BOOLEAN

PlacesOK ==
  /\ mem \in States /\ db \in States \cup LegacyStatus
  /\ flock \in {"free", "self", "other"}
  /\ s \in {"none", "cancelled", "done", "failed"} \cup SActive
  /\ r \in {"idle"} \cup REnded \cup RActive
  /\ rw \in States \cup {NoTarget} /\ rk \in {"net", "auth"} /\ rend \in REnded
  /\ m \in {"none", "poll", "promote"}
  /\ c \in {"none"} \cup CActive \cup CEnded
  /\ v \in {"none", "refresh", "check", "connect"}
  /\ faults \in 0..MaxFaults

\* The type invariant; the legacy status strings stay in the row.
TypeOK == SwitchesOK /\ PlacesOK

\* An open connection is covered by the account's cross-process lock: whatever
\* releases the lock (startup's finally, the run task's, a stop, a failed
\* promotion, a recovery that gives up) leaves no connection that goes on to
\* serve; the client that opened it has been told to stop.
UncoveredSocketIsClosing == sock => flock = "self" \/ clStop

\* The stronger claim of _WorkerConnectionLock's docstring, while no database
\* call has failed: one reservation covers startup and the whole life of the
\* client's connection.
LiveSocketHoldsLock == faults = 0 /\ sock => flock = "self"

\* When a stop or a cleanup has returned or raised, no task of that worker
\* can act any more (a readiness monitor may be left to notice the stop), its
\* socket is closed and it holds no lock: the pool may build the next
\* generation.
StopLeavesNothing ==
  c \in CEnded /\ v = "none" =>
    /\ s \notin SActive /\ r \notin RActive
    /\ m = "none" \/ (m = "poll" /\ stopReq)
    /\ ~sock /\ flock # "self"

L == INSTANCE WorkerLifecycle WITH state <- mem, proven <- proof, operator <- v # "none"

\* The worker implements the lifecycle: legal transitions in every
\* interleaving, online only on its own connection's evidence, and no way out
\* of needs_validation that an operator did not ask for.
LifecycleSpec == L!Spec

\* A stop always comes to an end, whatever the tasks it waits for are doing.
StopCompletes == c \in CActive ~> c \notin CActive

\* A subscription marker is never missed: a syncing worker whose connection is
\* ready is promoted, or stops being a ready syncing worker.
ReadyIsPromoted == (mem = "syncing" /\ ready) ~> (mem # "syncing" \/ ~ready)
=============================================================================
