# TLA+ models and proofs for xianyu-agent

xianyu-agent runs several Goofish shop accounts from one daemon: one WebSocket
session per account, a pool that keeps the wanted workers running, a durable
control plane (desired state, commands, the user-validation circuit) in SQLite,
and the business services behind the events. This directory holds TLA+ modules
that model the parts of that system whose correctness depends on the order of
things, the TLC runs that check them on small instances, and theorems that TLAPS
proves for every value of the constants. Paths below are relative to
`src/src/xianyu_agent/`.

## 1. Inventory

| part | state it keeps | operations | what is hard | what makes it correct |
|---|---|---|---|---|
| worker state (`domain/runtime/worker_state.py`) | the transition table | validate, read a persisted row | the status column also holds other writers' legacy strings | only table transitions; the risk flag outranks the status |
| account worker (`runtime/account_worker.py`) | in-memory state, `worker_status` row, stop flags, lifecycle error, tasks | start, startup, transport callbacks, readiness monitor, fail-closed, stop, recover_validation | five tasks on one event loop, failed writes, cancellation inside a write | ONLINE only on the connection's own evidence; a stop leaves nothing behind; the account lock covers the connection |
| WebSocket client (`protocol/ws/client.py`) | run task, socket, stop flag, readiness marker, deferred and queued callbacks | start, stop, connect, serve, reconnect, dispatch | callbacks raise into the loop; bounded stop; queue limits | one run task; the lock goes back exactly when the task ends; events in order |
| account lock (`runtime/account_lock.py`) | one OS file lock per account | acquire, release | shared by startup, client and other processes | at most one session per account |
| pool (`runtime/account_pool.py`) | current workers, startup and transport observers, retirement tasks | reconcile, ensure_started, ensure_stopped, restart_worker, done-callbacks | several paths retire one worker; callbacks run late | generations never overlap; no dead worker stays current |
| daemon (`runtime/daemon.py`, `domain/runtime/daemon.py`) | instance row, singleton lock | serve loop, commands, reconcile, shutdown | a command's await holds up heartbeat and reconciliation; crash | desired state is honoured; one daemon |
| control plane (`domain/runtime/command.py`, `application/accounts.py`) | `accounts.desired_state`, `worker_commands` | submit, claim, complete, fail stale, disable | check and write in different sessions; crash with a command running | a command runs at most once, desired state converges |
| validation circuit (`domain/account/risk.py`) | `risk_recovery_required`, legacy status | open, clear, block starts | opens under a reconnect in progress | no connection is opened over an open circuit |
| credentials (`application/session/`, `infrastructure/session/`, `protocol/ws_auth.py`, `protocol/mtop/signer.py`) | cookie, token and device id of an account, session policy | login, ensure, refresh, recover, delete | commands in other processes, an exchange cut off between its writes | what is stored belongs together; a recovery is earned |
| scheduler (`runtime/scheduler/`, `infrastructure/database/scheduler_queue.py`) | `scheduler_work` with leases | enqueue, claim, complete, release, recover | expired leases, crash in a handler | one holder per lease; no work lost |
| outbox, inbox (`application/outbox_dispatcher.py`, `infrastructure/idempotency.py`) | pending events, processed keys | dispatch, record, claim | crash between publish and mark | at least once out, at most once in |
| delivery (`services/delivery_service.py`, `domain/inventory/cards.py`, `domain/order/orders.py`) | orders, cards, consumptions | deliver, retry, consume, restock | duplicate events, lost acknowledgements, crash between steps | a code goes to one buyer; delivered only when sent |
| sending (`application/message/send_service.py`, `protocol/ws/message_send.py`, `request_router.py`) | attempts, pending requests | send, match, time out, record | late, lost, duplicated answers | no blind retry of an uncertain send |
| replies (`services/reply_engine.py`, `services/guardrails.py`) | rules, logs, counters | match, check, send | duplicate messages, counter limits | one reply per message, limits respected |
| QR login (`application/session/qr_login.py`) | the scan in progress | start, poll, finish | saves beside an exchange | credentials saved once and completely |
| recovery decisions (`runtime/recovery.py`) | none | decide | every result of every route has to lead on | the state a worker converges toward |
| watchdog, service (`runtime/watchdog.py`, `runtime/service_runner.py`) | heartbeats, the pause file | observe, restart, pause | a slow daemon looks dead | restart only a stale daemon |
| soak (`application/health/soak.py`) | a run's row with its numbers | start, stop, sample, judge | samples of two processes, missed and late | no pass over an outage that was seen |
| catalog (`protocol/mtop/endpoints/`, `domain/item/`, `domain/order/`) | mirrors of items and orders | fetch pages, apply | the list changes while it is fetched, two syncs | nothing on the shelf goes off sale |
| decoding, mtop signing, schema, CLI, API, TUI | none of their own, or table rows | conversions and remote calls | data formats | outside this project, except where they write shared rows |

The worker is created and owned by the pool; the pool by the daemon. The worker
owns its client, which calls back into the worker on every connection state and
event. CLI commands and the HTTP API never talk to the daemon directly: they
write `desired_state`, `worker_commands` and the circuit, and the daemon's loop
reads them. Other processes (`auth refresh`) meet the worker at the account's
file lock and at the shared rows.

## 2. Plan

| step | modules | abstract specification | runs | theorems | state |
|---|---|---|---|---|---|
| 1 | `WorkerState`, `Recovery`, `AccountWorker`, `AccountPool` | `WorkerLifecycle` | worker_faults, pool, pool_orphan, pool_overlap | types, lifecycle refinement, lock cover, stops, generations, circuit | done |
| 2 | `SchedulerQueue`: leases, runners, recovery | `WorkLease` | scheduler | types, lease exclusivity, refinement | done |
| 3 | `Delivery`: cards, orders, retries, crashes | none | delivery, delivery_race | buyers and races, rows, stock, content | done |
| 4 | `SendMessage`: request router, attempts, outcome classes | the environment of a connection | within ws_session | outcomes and evidence | done |
| 5 | `WsSession`: gate, backlog, queue, dispatcher, stop | `SendMessage` | ws_session | nothing lost, order, refinement | done |
| 6 | `Supervision`: launchers, instance rows, commands, watchdog, service | none | supervision | the latest row, command order, stops | done |
| 7 | `Credentials`: logins, QR logins, exchanges, recoveries, deletion | none | records | types, coherence, recovery | done |
| 8 | `Outbox`: dispatchers, bus, inbox | none | outbox | at least once, at most once | done |
| 9 | `Replies`: gate, rules, replies, conversation rows | none | records | the rate, the logs, the conversation | done |
| 10 | `Soak`: samples, stops, verdicts | none | soak | numbers, passes | done |
| 11 | `Catalog`: paging, applying, two syncs | none | records | completeness, mirrors | done |
| 12 | frame parsing as operators; doctor; capture | none | none | none | open |

The theorems are in section 5. Every safety and action property that a run checks is
proved; the liveness properties stay with TLC.

## 3. The modules

### WorkerState and WorkerLifecycle

`WorkerState` is constant-level: `AllowedFrom` is the transition table,
`CanTransition` its validation, `FromPersistence` the reading of a row.
`WorkerLifecycle` is what readers of a worker's state are promised: three
variables (the state, whether the current connection has proven its
subscription, whether an operator is recovering it) and four kinds of step.

### Recovery

Constant-level: what `runtime/recovery.py` makes of a credential operation's result
and the route it took. `CauseOf`, `RetryStateFor`, `SuccessStateFor` and `Decide` are
its tables; the worker's startup and run task ask `StateAfter` where to go. Causes that
no caller of this commit raises (credential_required, session_expired, auth_failure,
stop_requested) and the length of a backoff are left out.

### AccountWorker

One account's worker object with the part of the client it drives. Five tasks
share the event loop; each has a variable that says where it is:

| variable | task | code | places |
|---|---|---|---|
| `s` | startup | `start`, `_run_startup` | one place per state it is about to set, plus `load`, `ensure`, `go`, `fail` |
| `r` | run task | `WsClient._run_forever`, `_connect_and_serve` and the callbacks they await | `top cc open reg ct serve tf prep cred credwait resume toNV toError check disc fin` |
| `m` | readiness monitor | `_watch_subscription_ready` | `poll promote` |
| `c` | stop or cleanup | `stop`, `WsClient.stop`, `_fail_closed_transport_after_lifecycle_error` | `stopping cancelM wait emit release disable`, then `done` or `raised` |
| `v` | validation recovery | `recover_validation` | `refresh check connect` |

The rest of the state is `mem` and `db` (the state in memory and the row), the
circuit `risk` and the prepared `token`, the file lock `flock` with the client's
idea of it `clLock`, the flags `stopReq`, `clStop`, `lifeErr`, and the
connection: `sock`, `ready`, `clUp`, with one history variable `proof` (the
newest connection has shown its marker).

A step is what one task does between two awaits that let others run.
`_set_worker_state` validates, persists and assigns under one asyncio lock, so a
change of state is one step (`Set`, `SetFails`, `Rejected`); *choosing* the
target is a step of its own, because the code chooses before it awaits the lock.
A cancellation that hits the persist may leave the row ahead of the memory
(`CancelledWrite`). The lock is FIFO in asyncio; the model lets waiters take it in
any order, which only adds behaviours.

Place by place: `RTop`..`RFinish` follow one iteration of `_run_forever`
(announce CONNECTING, open, register, announce CONNECTED, serve, announce the
failure, ask the auth handler, look at the stop flag, back off); `RChoose`,
`RSet` and `RSetFails` are the hops of the callbacks; `RRaise` is what each
exception does to the loop. `SLoad`..`SFail` follow `_run_startup`, `CStopping`..
`CDisable` follow `stop`.

Abstractions: timing is dropped (a backoff is a step that may happen), frames
injected by tests and diagnostics columns of the row are left out, a missing
WebSocket URL (which loops without touching the lifecycle beyond RECONNECTING)
is not modelled, and a credential backend is reduced to its outcomes. The
transport reads a prepared token only and performs no network request of its
own, so its authentication can fail only because no usable token is prepared;
the branch of `_on_auth_failure` for a user-validation error is reachable only
with an injected provider and is left out. The circuit is opened by the
credential backend (`OpenCircuit` in `SEnsure`, `RRefresh`).

`MCAccountWorker` adds `calm`: in a calm behaviour no database call fails and the two
requests (`recover`, `restart`) may overlap the worker's own tasks; in any other, calls
may fail and requests wait their turn.

### AccountPool

Extends AccountWorker with the pool's bookkeeping for one account (`cur`,
`retire`, and the two done-callbacks `sObs`, `tObs`), the desired state `want`
and one worker command `cmd`. `Claim` is `_schedule_worker_retirement`; while
`retire` is set, the worker's `c` task runs and no successor is built.
`Reconcile` reads the desired accounts and acts in one step: a read that is
stale by the time it is used is corrected by the next pass. The `enabled` flag is
folded into `want`, since disabling an account also sets its desired state to
stopped. Accounts interact only by keeping the daemon's loop waiting; the model
has that wait for the account's own commands (`Waiting`).

`StopAll` is the end of the daemon's loop: `stop_all` claims the current worker, then
waits for the retirements and the observed transports (`Drained`), and the process
exits (`DaemonExits`); `closing` keeps the loop from doing anything else.

A start command finds the current worker and starts it again (`StartObserved`), whatever
it is at. In ERROR, before the run task has ended, that puts two lives of one worker object
into the pool's one place. `met` is a history variable that remembers such a meeting until
the process ends. What is left of a worker that the pool drops afterwards is not followed
further (`Create` overwrites it), so the properties are of three kinds: `StopIsHonoured`
speaks of every behaviour, `NoOverlap` is refuted by the meeting (section 4), and the others
speak of a process up to its first one.

A transport's done-callback may run any time after its task ended. asyncio runs it on
the next turn of its loop; the model has more behaviours, not fewer. A startup's
done-callback does come next (`InLoop`): no task of the worker gets further than the
await it is in before it, as on the event loop.

### WorkLease and SchedulerQueue

`WorkLease` is the contract of `runtime/scheduler/due_queue.py`: where a work is, who
holds it under which grant, whether the grant is unexpired, and which grant each runner
believes it works under. `Return(r, w)` is a step of the holder with its own grant; a
runner whose grant has been withdrawn or replaced can only `Drop` it. `SchedulerQueue` is the table of
`scheduler_queue.py` (`stored`, `avail`, `token`, `owner`, `until`) with any number
of processes, each running one `SchedulerLoop` and `SchedulerRunner`:

| variable | code |
|---|---|
| `pc` | where `SchedulerLoop.run` is: `recover top select claim gather last idle ended`; `last` is a claim shorter than its limit, after which the pass ends |
| `job` | per runner and work: the `LeasedWork` in `_execute`, its handler's outcome, and the time its lease has left |
| `cands`, `count`, `lag` | the selected candidates, the pass's `claimed_count`, and the ticks since the clock was read for the statement to come |
| `wake`, `stopping` | the loop's two events; `unseen` is history |

Each method of the queue is one transaction and one step, except `claim_due`,
whose candidate query (`Select`) and conditional updates (`Claim`) are two steps,
so that other processes come between. Time is relative: a `Tick` brings every
expiry one nearer, and what lies more than `MaxLag` in the past is one value. A
runner stands for its `lease_owner`; the model takes owners to be distinct. The
components are wired by tests only in this commit, so the number of processes is a
parameter. `Attended` are the loops whose process also calls `wake()` and `stop()`.

### Outbox

The transactional outbox of `application/outbox_dispatcher.py` over its repository, the
bus of `infrastructure/event_bus.py` with its handlers in registration order, and the
inbox of `infrastructure/idempotency.py`. Nothing in this commit enqueues an event or
starts a dispatcher: `EnqueueEvent`, the handlers and the owner that calls `dispatch_once`
again and again are what the ports' docstrings ask of their users, and everything in
between is the code. `dispatch[d]` is the batch that dispatcher `d` has read, its place in
the fan-out, and whether a handler has failed. A handler claims its key in the
transaction of its own effects. `Poison` are the events a consumer can never handle;
any other handler may fail as a fault.

### Delivery

What becomes of order events, in `services/delivery_service.py` over
`domain/inventory/cards.py` and `domain/order/orders.py`. The workers of an account
handle their events one at a time (`job` says where each is); beside them run
`order redeliver` (`Redo`), which needs the account lock, operators who take codes
by hand (`Hands`), and restocks, switches, deletions and `order sync`.

| actions | code |
|---|---|
| `OrderCreated`, `OrderPaid`, `OrderDelivered` | the order branch of `_on_event` with `upsert_from_event` |
| `Deliver`, `PickCard`, `Send`, `Record` | `DeliveryService.deliver`, `_pick_card`, the sender, `_record_outcome` |
| `ReadCard`, `ChooseCode`, `TakeCode` | the two SELECTs and the transaction of `consume_card` |
| `Retry` and the steps after it | `order redeliver`: the lookup, the account lock, `DeliveryService.retry` with the code on record or a fresh one, the outcome |
| `RestockReads`, `RestockWrites`, `SetEnabled`, `DeleteCard`, `Consume`, `Sync` | the `card` and `order` commands |
| `Connect`, `Disconnect`, `Die` | a worker takes and gives back the account lock; its process dies |

A SELECT outside a transaction is a step, since SQLite locks nothing for a reader;
a transaction is one step. `restock` is two steps because it writes back what it
computed from the row it read. A worker that has been disconnected keeps its job
and goes on with it: that is what `WsClient.stop` leaves behind after its deadline.
`cons` holds the consumptions by their id, the next of which is above all that are
there (`NextId`). `sent`, `forgot`, `paid`, `raced` and `crossed` are history: `raced` are the
codes taken when the card had a consumption of them already, `crossed` the cards whose
restock wrote a count that sales had made stale. The two upserts of a paid event (by the
worker, then by `deliver`) are kept apart. Left out are the reply that accompanies a
code, order statistics, and the creation of cards while the system runs.

### SendMessage

One outbound text, from the request to its outcome class: `send_text` of
`application/message/send_service.py` with the correlated request of
`protocol/ws/message_send.py`, the waiter in `request_router.py` (`future`), and the
audit rows of `infrastructure/message` (`audit`). `Receiver`, `RecordAttempt`, `Write`,
`Answered`, `GivesUp`, `Persist` and `Conclude` are its awaits in order;
`PreflightFailure` is an attempt that ends before anything is written. The connection and the
platform are its environment: `Open`, `Ready`, `Closes`, `Teardown`, `Match`,
`Respond`. A write to a socket that is closing may or may not have gone out; a
timeout may come just as the response does. `reached` and `verdict` say what the
platform received and made of it.

### WsSession

The session side of `protocol/ws/client.py`: the receive loop (`rx`), the business
gate, the backlog of frames that arrived before the gate opened (`deferred`,
`slots`), the bounded callback queue with its one dispatcher (`queue`, `disp`), the
subscription exchange (`sync`, `marker`), the run task (`conn`), and `stop()` with
its deadline and the drain it may leave (`st`, `late`, `retained`).

The dispatcher's handler may send a message, and the answer has to come back
through the receive loop, which may itself be waiting for room in the queue. The
module therefore instantiates `SendMessage` with its own gate, socket and network
and performs its actions inside its own: `DSends` performs `Send`, `RxResponse`
performs `Match`, every teardown performs `Teardown`, and so on. `SendSpec` is the
refinement: whatever the client does with its connections, the sends are those of
`SendMessage`.

A frame stands for the events parsed from it. The subscription exchange (getState
and ackDiff) is one round trip, and a connection gets one sync-extra frame; further
ones, the slots that bound them, history requests, heartbeats, frames injected by
tests and the restart of a stopped client are not modelled. The platform does not
repeat a frame that was acknowledged, and frames in memory are lost with the
process: nothing in the code promises otherwise.

### Supervision

Who runs the daemon. Two launchers, the scheduled task (through
`runtime/service_runner.py`) and `daemon run`, compete for the singleton lock. `d[p]`
is where the process of launcher `p` is: `gate acquire orphans create stale start`
of its beginning, `serve exec await` of `_serve`, `halt stopping release` of
`_shutdown`. `rows` is `daemon_instances`, `cmds` is `worker_commands`, `dog` the
watchdog's run of this minute, `op` the service command in progress, `paused` the
pause file.

A step is one database call, one call of the task scheduler, or one look at a file
or process. A turn of `_serve` reads a batch of pending commands and then claims
and carries out each; the batch limit of 100 is not reached. `Execute` says only
that a command was carried out or refused: what it does to a worker is AccountPool.
Row statuses after the end (stopped, error) are one, as are those of concluded
commands. Operator requests come one after the other. `service stop --wait 0`,
installation, the soak sampler, the reuse of a process id and a row that vanishes
under its daemon are left out.

`Reaches` is where the `service stop` request finds everybody who could go on
serving: either nobody has an active row and the task is all there is to end, or
every process past the pause file has an active row that does not say restart.

### Replies

What happens to a buyer's message: `_on_event` of the worker, `check_message` of
`services/guardrails.py`, `ReplyEngine` in mode "rule", the rules' table, and the rows of
the conversation. Two workers of one account may be at it at once (one was stopped past
its deadline), `message send` runs a worker and a command beside them, the platform
pushes back what was sent (`ReceivePush`), and an inbound message may be delivered twice
or without an id. So may a push: it is matched with nothing and adds a row of its own. `out`
has the rows of each text: `sparse` or `full` by its id, without and with the push's metadata,
or `bare` without one. `MaxCopies` bounds them. `job[p]` is where a worker or the command is, `tries` are the texts
handed to a connection; of the send itself there are only the write and the outcome,
the rest is SendMessage. Rules are known by their priority and id, and `Matches` says
what they accept.

### Soak

`application/health/soak.py` over the snapshot of `observability.py`. An operator starts
and stops runs (`Operate`), the scheduled watchdog samples every running one each minute
(`Watch`, `Sample`), and a start takes the first sample in its own process. A sample
reads the row, looks at the daemon and the account, loads the row again, and writes it;
each is a step. Time is in minutes and `past` keeps what the world was in each of them:
one of the `Worlds` of the daemon and the account. The tolerated gap is 2.5 sampling
intervals of at least a minute, so `MaxGap` is not 0. `judged` keeps the samples a verdict
was given on: a sampler that loaded the row earlier may write afterwards and overwrite the
row's numbers, so what a pass had to be earned by are those samples, and not what the row
says later. What the replies and the logs hold against a run (`_final_issues` looks at both)
is not seen: `Outcomes` lets either fail a run that its samples would let pass. The evidence
file is left out.

### Catalog

`item sync` and `order sync`: `fetch_all` page by page with the bootstrap of an mtop
token, then `apply_*_snapshot`, which reads the rows, and writes in one transaction the
columns that differ from what was read. The platform's list changes meanwhile: what is
new comes in front, an item may leave. Of a row, the model keeps whether an item is on
sale and an order's status. An answer without a list of cards counts as an empty page
(`items.py:232`), which ends the fetch; the model takes the platform to answer so for an
empty page only.

### Credentials

One account's cookie, token and device id, the validation circuit, and everybody who
changes them: the daemon's worker, `auth login`, `auth refresh`, `auth qr-login`,
the API's login and deletion, and the commands that connect for themselves. All but
the deletion hold the account's file lock. A cookie is known by the login it derives
from and a token by the cookie that bought it, so that "belongs together" can be said.

`call[p]` says where caller `p` is: logging in (`Challenge` with its `Bootstrap`,
`FetchLoginParams` and `FetchQrCode`, then `Poll` until the scan is confirmed, and
`CompleteConfirmed` or a pasted cookie, `create save`), in the supervisor (`look inspect mark clear review`), in
`WsTokenProvider.get_credentials` (`read load device keep ask again cookie token`),
or connected (`serving`). Each database session and each request is a step, and
`Abort` cuts a caller off between any two. `LoseLock` is the loss of the reservation
under a startup (section 4, last part); it sets `bare`, and the properties speak of
behaviours without it.

Left out: commands that refuse because the account's worker is wanted, failing
database sessions, and the supervisor's asyncio lock. No two calls contend for that
lock in this commit: each worker has a supervisor of its own, its startup and run task
never exchange at once, and `recover_validation` has no caller. `get_credentials`
ignores a `save_cookie` that returns False; the account is then gone, which the next
step notices. One remark: the docstring at `protocol/ws_auth.py:69` ties the device id
to the user id of the current login, while the code keeps the id over logins of another
identity; no property depends on it.

## 4. Runs

| run | constants | states | shows |
|---|---|---|---|
| worker_faults | `MaxFaults = 2`, both requests, calm or not | 79 thousand | `UncoveredSocketIsClosing`; `LiveSocketHoldsLock`; `StopLeavesNothing`; the refinement `LifecycleSpec`; `StopCompletes`; `ReadyIsPromoted` |
| pool | `MaxFaults = 1`, `Requests = {"restart"}` | 1.1 million | `OnlyAMeetingOverlaps`; `CircuitStopsTransport`; `NoOrphanWithoutFault`; `StopIsHonoured` |
| scheduler | two runners, one work, `LeaseDuration = 2`, `MaxLag = 1`, `MaxFaults = 2` | 236 thousand | `WakeIsSeen`, the refinement `LeaseSpec`, `WorkIsAttempted` |
| delivery | two orders, one card with two codes and one to add, two workers, one operator, a redelivery, `MaxFaults = 2`, `MaxChanges = 1` | 7.7 million | `OnlyRacedCodesReachTwo`, `RowsTellOfSales`, `ContentWasSent`, `StockIsExact` |
| ws_session | `Frames = 3`, `QueueSize = 1`, `Replied = {1}`, `Syncs = 1`, `MaxFaults = 1` | 731 thousand | `AckedIsKeptOnce`, `OrderHoldsUnlessCrowded`, `SendsAreTrue`, the refinement `SendSpec`, `AckedIsHandled` |
| supervision | `MaxCommands = 2`, `MaxRequests = 2`, `MaxFaults = 1` | 785 thousand | `LatestRowIsTheDaemon`, `CommandsRunOnceInOrder`, `StopSticksWhereItReaches`, `CommandsConclude` |
| outbox | two dispatchers, three events, two poisoned pairs, `BatchLimit = 2`, `MaxAttempts = 2`, `MaxMishaps = 1` | 227 thousand | `MarkedWasHandled`, `EffectsHappenOnce`, `PoisonStarvesNobody` |
| soak | one operator, `Target = 2`, `MinSamples = 2`, `MaxGap = 2`, `MaxTime = 4`, `MaxCommands = 2`, `MaxStarts = 1`, `MaxFaults = 1` | 1.2 million | `NumbersAreOfItsSamples`, `PassIsEarned`, `SoakConcludes` |
| records: mirrors | two syncs, four items or three orders of which one is malformed, `PageSize = 2`, `MaxPages = 2`, `MaxRuns = 3`, `MaxEdits = 2`, `MaxFailures = 1` | 4.6 million, with the next two | `SnapshotIsComplete`, `LoneSyncMirrors` |
| records: conversations | two workers and a command, two messages (one without id), two rules, `MaxPerHour = 2`, `MaxTries = 1`, `MaxRows = 2`, `MaxCopies = 2`, `MaxChanges = 1` | | `FewAreAdmitted`, `RepliesAreLogged`, `LogsAreTrue`, `OutboundIsKept` |
| records: credentials | the daemon and two commands, three logins (one without identity), two devices | | `StoredTogether`, `RecoveryIsEarned` |
| pool_orphan | `MaxFaults = 1`, `Requests = {}` | violation | `NoOrphanedWorker`: a dead worker stays current |
| pool_overlap | `MaxFaults = 0`, `Requests = {"restart"}` | violation | `NoOverlap`: a second generation beside an ending run task |
| delivery_race | two workers, `MaxFaults = 0`, `MaxChanges = 0` | violation | `CodeReachesOneBuyer`: one code to two buyers |

The run `records` (`MCRecords`) is of three modules that share no state, `Catalog`,
`Replies` and `Credentials`: the variable `part` says which of them a behaviour is about
(items, orders, conversations or credentials), and the rest stands still. Which
sync, or which command, is which makes no difference, so the first idle one begins (`FirstOf`).

The type invariants (`TypeOK`, `QueueTypeOK`, `CredentialTypeOK`) are proved and no
longer part of a run.

**Bounds.** `MaxFaults` is the number of database calls that may fail in a whole
behaviour. Every error path needs one; two let an error path meet another error
(a stop whose STOPPING write failed and then whose DISABLED write fails, a
promotion that fails while startup's ERROR projection fails). Crashes,
replacements, reconnects, token expiries and commands are unbounded: the state
space is finite without a bound on them. The pool run allows one, over any number
of worker generations. In it a start command may meet an ending run task only while no call
has failed yet, and none fails in the rest of that life of the daemon (`MCNext` of
`MCAccountPool`), which bounds what two overlapping lives and a failure could do together.

In the scheduler run a lease of two ticks and a lag of one let a claim be
written with a shortened lease, and a handler outlive its lease while the other
runner claims, recovers or finishes the work. A smaller `LeaseDuration` would make
late leases expired at once; two faults let a process die and the other one's
transaction fail. The safety properties were also checked with two works (two
million states), and are proved for any number. `WorkIsAttempted` is checked with
one work: the model does not tell apart how long ago two works fell due once that
is more than `MaxLag`, so it loses the order by age that keeps an old work from
being passed over, and says nothing about several works competing.

In the worker run, faults and overlapping requests do not meet: each alone finds what the
other hides, and together they leave the window described below.

In the delivery run two orders, handled by a worker left behind and by its successor,
compete for the codes of a card with two; a third can be added while one is sold, and two
faults let an event be repeated and a send fail, or a send fail and the process die. One
change is a restock, a switch, a deletion, a code by hand or a sync, each beside
everything else. Orders and workers are interchangeable (`SYMMETRY`). The ws_session run has a queue of one, so that the backlog, the queue
and both waiting places fill up with three frames; the handler that sends is the
first frame's, so that its answer has to pass a receive loop with nowhere to put the
next. With four frames the safety properties were checked as well. In the supervision
run one fault is a crash, a failed write or an overdue heartbeat; two requests are
what a restart and a stop need. Its safety properties were also explored to 11
million states, without an error, with two faults, three requests and one command.
In the outbox run each of two consumers has an event it can never handle, and a batch is
smaller than the number of events, so that a poisoned event could crowd out the others;
`MaxAttempts` only keeps `attempt_count` finite: events that have reached it are read
by age. In the soak run an outage can be shorter than, as long as, or
longer than the tolerated gap within four minutes, a second run can follow the first,
and a daemon can be replaced once.

In the records run a list takes up to two pages, four items are more than two pages can show
to be all of them (the platform says of orders only which page is the last), and the third
command meets what two overlapping ones have left. Without a whole cookie the list is a full
page at first (`FullPage`): the cookie decides how a page is asked for, and not what a sync
makes of it. Two messages can meet at a limit of two
(`check_message` counts the message at hand, so one is answered), and one try is what every
property speaks of; two rows of a text are one by its id and one without. Pushes without an id
come only where no buyer's message has been kept (`Unkeyed`): they touch the text's rows
only, which a message does not read. A message that finds its rule once the one try is used
up is not followed (`Follows`): its reply would be the second try. Two commands beside the daemon let one come between two
steps of another, and of three logins one (`Anonymous`) leaves a cookie the provider cannot
use; calls, expiries, cooldowns, deletions and deaths are unbounded.

`CHECK_DEADLOCK FALSE` stands where the system may stop: a client that was stopped,
deliveries, replies and syncs once the bounds are used up, an account that is deleted
for good after its last login.

`Requests` names two requests that may overlap the worker's own tasks.
`recover`: `recover_validation` has no caller in this commit outside tests and is
part of the worker's interface, so the worker run has it and the pool runs do
not. `restart`: a second `start()` of a worker in ERROR whose run task is still
announcing its end, as `ensure_started` does when a start command comes. The worker run,
the pool run and pool_overlap have it.

**Fairness.** `FairSpec` assumes weak fairness of each of a worker's tasks taken
as a whole (startup, run task, monitor, stop): the event loop runs every ready
task, opening and registering have time limits (`asyncio.wait_for` in the client)
and HTTP calls have httpx timeouts. No fairness is assumed of a served
connection ending, of the platform sending the subscription marker, of operators,
other processes, or crashes. `FairPoolSpec` adds the callbacks and the daemon's
loop. The scheduler's `FairSpec` assumes
that each loop and each handler goes on and that the clock moves; a failed
transaction ends its loop, so the promise is void once every loop has ended, and
nobody is assumed to restart or wake one. Stops end because `WsClient.stop` cancels
a run task that does not end by itself.

`WsSession` assumes fairness of its run task, its dispatcher, a `stop()` that was
called and its drain: they share one event loop, handlers end because their waits
have timeouts, and `stop()` has a deadline. Nothing is assumed of the platform, of
arriving frames, or of anybody calling `stop()`. `Supervision` assumes that a live
process goes on, that the scheduler runs the watchdog (it is a task repeated every
minute), and that a service command that has begun is carried through; nobody is
assumed to start the task or the daemon, so `CommandsConclude` rests on the watchdog
alone. `Outbox` assumes that whoever owns a dispatcher calls `dispatch_once` again and
again. `Soak` assumes the scheduled watchdog, its process, and time; no operator.
`Delivery`, `Replies`, `Catalog` and `Credentials` are checked for safety only: nothing
in the code repeats a delivery, a reply, a sync or a login by itself.

**What the violations say.** They are in `PROJECT.json` under findings, with the lines they
contradict.

- `NoOrphanedWorker` fails with one failed write inside a client callback: the client
  fail-closes itself, the loop ends without an exception, and no observer retires the
  worker. `NoOrphanWithoutFault` is what holds.
- `NoOverlap` fails with no fault at all. A run task has set ERROR and has its last
  diagnostics to write when a start command comes: `ensure_started` starts the current
  worker again, that startup fails, `_observe_startup` drops the worker from the pool
  without a retirement, and reconciliation builds its successor beside the old task. What
  holds is `OnlyAMeetingOverlaps`: generations are apart in every process whose start
  commands have met no such task, whatever fails. The same meeting can leave an orphan (the
  second `client.start()` finds a task and does nothing), and gives back a lock that the new
  startup counts on; so `NoOrphanWithoutFault` and `CircuitStopsTransport` speak of
  processes without one. The window is one diagnostics write long.
- `CodeReachesOneBuyer` fails with two workers: one stopped past its deadline goes on with
  its event beside its successor, both read the consumptions before either writes, both
  choose the same line, and the decrement is guarded by the stock and not by the code,
  although the docstring of `consume_card` (`domain/inventory/cards.py:139`) says
  "Atomically take one unused code". The first one's send fails, and `order redeliver` sends
  the code again. What holds is `OnlyRacedCodesReachTwo`: nothing but such a race gives a
  code to two buyers, and `StockIsExact`, that the same race is the one way to strand a line.

Two more disagreements were met while modelling. The models keep them, and the
properties that hold are stated so that they leave them out:

- A worker restarted while its first run task is still announcing its end shares one
  reservation of the account lock with it; the run task gives it back, and the second
  startup exchanges credentials without the lock. With one failed ONLINE write the lock
  can also be missing under an open connection, which is why `LiveSocketHoldsLock` speaks
  of behaviours without a fault. The weaker `UncoveredSocketIsClosing` holds always; both
  are proved.
- After `daemon restart` followed by `service stop`, the stopped service serves on: the
  request leaves `restart_requested` set, and the same process builds the next instance
  behind the pause file. `StopSticksWhereItReaches` is what holds.

One more case is outside the properties: a `recover_validation` overlapping a stop
whose STOPPING write failed finds the worker still in needs_validation and starts
a transport on the retired object. `StopLeavesNothing` therefore speaks of workers
without a recovery in progress.

## 5. Proofs

`AccountProofs` extends `AccountPool` and with it `AccountWorker`; its theorems hold for
every `MaxFaults` in Nat. First the worker by itself, for every set of requests:

- `TypeInvariant`: `Spec => []TypeOK`.
- `LifecycleInvariant`: `Spec => []LifecycleInv`, the inductive strengthening.
  The refinement is not inductive as it stands: that ONLINE is proven needs to
  know that a run task or monitor that asks for ONLINE holds the newest
  connection's marker (`EvidenceInv`), which needs the agreement of the run
  task's target with its place (`TargetInv`); that nobody leaves
  needs_validation but the operator needs to know which tasks can be at work in
  it (`OwnershipInv`).
- `ImplementsLifecycle`: `Spec => LifecycleSpec`. Each action is shown to move
  along the table, to start over, or to stutter (`CourseStep`).
- `ClosingInvariant`: what the properties of stops and of the lock rest on. Each of them
  needs the others: that a stop which has ended left no lock behind needs to know that no
  run task is left to take it back, which needs to know what the stop has waited for
  (`RetreatInv`) and that no startup begins beside a transport (`SerialInv`); that a
  connection is covered needs to know which ends a failed promotion and a failed write
  are on their way to (`WhereaboutsInv`, `CoverInv`), and that without a failure there are
  none (`CalmInv`).
- `NoUncoveredConnection`: if `"recover"` is not among the requests,
  `Spec => []UncoveredSocketIsClosing`.
- `OpenSocketsAreLocked`: `Spec => []LiveSocketHoldsLock`, for every set of requests.
- `StopsLeaveNothing`: `Spec => [](Requests = {} \/ faults = 0 => StopLeavesNothing)`:
  requests wait their turn or no database call has failed. The hypothesis is exact: where
  a fault meets `"recover"`, or `"restart"`, TLC finds a stop that leaves something, as the
  end of section 4 describes.

Then the worker in its pool, for any number of generations, with start commands over failed
workers (only `"recover"`, which nothing in the pool calls, is assumed away):

- `PoolInvariant`: the worker's invariants, with what the pool relies on while nobody has
  retired the worker (`ServingInv`), and two of the pool's own. `GenerationInv` says
  which worker the pool has: the current one is not being retired, and one that left
  without a retirement has ended. `ObservedInv` says who will hear of its end. All of this
  holds until a start command meets an ending run task (`met`), and again in the next
  process. A step of
  the pool is one of the worker's, or its bookkeeping (`PoolStepIsWorkers`); what the
  worker's own tasks cannot do to the pool is `Undisturbed`.
- `GenerationsDoNotOverlap`, `CircuitHoldsTransport`, `NoOrphans`: `PoolSpec` implies
  `OnlyAMeetingOverlaps`, `CircuitStopsTransport` and `[]NoOrphanWithoutFault`.

Two modules hold the proofs of two components that share no variable: the queue and the
outbox, and the delivery and the mirrors. That is why `Outbox` and `Catalog` have names of
their own for what every module has (`OutboxSpec`, `CatalogSpec`).

`QueueProofs` extends `SchedulerQueue`; its theorems hold for any set of
runners, any finite set of works and any limits.

- `QueueInvariant`: `Spec => []QInv`. `ExclusiveLease` is not inductive: it
  speaks of two jobs and not of the row that ties them together. `Believed` says
  that a runner whose lease has time left is the row's owner, under the row's
  token, until the row's expiry. A claim needs an expired or missing lease, so
  it meets no such runner (`BelievedClaim`); a completion or release needs the
  runner's own token and owner, so it meets no other (`OwnerIsAlone`).
- `QueueTypes`, `LeasesAreExclusive`: `Spec => []QueueTypeOK` and
  `Spec => []ExclusiveLease`.
- `ImplementsWorkLease`: `Spec => LeaseSpec`, one lemma per kind of step. A completion or
  release that changes the row is a `Return` by the holder with the row's own token; one that
  comes too late is a `Drop`.
- `WakesAreSeen`: `Spec => []WakeIsSeen`, by `WakePending`: an unanswered wake-up
  is pending, or the loop is on its way to look at the queue.

The second part of `QueueProofs` is about the outbox, for any events, consumers, handlers and dispatchers.

- `OutboxInvariant`: a claim is committed with the effects it stands for (`Exactly`), only
  one transaction at a time can be about to commit it (`Alone`), and a dispatcher that has
  met no error has left a claim behind at every handler it has passed (`Covered`).
- `MarkedMeansHandled`, `EffectsAreOnce`: the run's two safety properties.

`WsSessionProofs` extends `WsSession`; its theorems hold for any number of frames, of
subscription exchanges and of faults, and any size of the queue.

- `SendInvariant`, `OutcomesAreTrue`, `EvidenceIsComplete`: what is known of an attempt at
  each place of `send_text`: nothing before `send` has reached the platform, a waiter that
  was set was answered, an answer on its way was given. So `S!SendSpec`, the whole
  environment of the sends, implies `[]S!OutcomeIsTrue` and `[]S!EvidenceIsKept`.
- `SessionInvariant`: `AckedIsKeptOnce` and `OrderHoldsUnlessCrowded` speak of the places a
  frame can be kept in; which one it will come to is decided by the gate, the tasks that
  wait for room and the stop. What makes them inductive is that the network is in order
  (`NetRises`), that a waiting task holds what comes next (`ComeInOrder`), and that
  nothing waits in the backlog that a frame could overtake while the gate is open
  (`NothingToOvertake`).
- `AckedFramesAreKeptOnce`, `FramesKeepTheirOrder`: the run's two properties.
- `SessionImplementsSends`: `Spec => SendSpec`, each action of the session being one of
  the environment's or a stutter, and from it `SessionSendsAreTrue`.

`DeliveryProofs` extends `Delivery`, for any orders, cards, workers, operators and faults.

- `DeliveryInvariant`, `ContentIsHonest`: the outcome a process is about to record is what
  it did, and an order's content was sent for it.
- `StoreInvariant`, `StockCountsLines`: with the rows and what each process holds of them,
  what a restock is about to write is accounted for as well, and a line that a process has
  seen stays a line of its card (`JobsSeeLines`), as do those that were sold (`SoldAreLines`).
- `RowsRecordSales`: an order's consumptions are covered by its payments, counting those
  that are being handled (`PaymentsCover`), and what is to be sent is on record before it
  is (`SendsOnRecord`).
- `CodeGoesToOneBuyer`: `Spec => []OnlyRacedCodesReachTwo`, for any number of workers. An
  order has a claim to a code once it has taken it, from a row, a job or a send; two claims to
  a code that nobody raced for are one (`ClaimsAgree`), and a claim is on record
  (`ClaimsAreRows`).

The second part of `DeliveryProofs` is about the mirrors of `Catalog`, for any items,
orders, page size, syncs, edits and failures.

- `CatalogInvariant`: what comes into a list comes in front and pushes the rest towards
  the pages that are still to be fetched. So until something leaves the list, what was on
  it at the first request and lies before the next page has been fetched (`Covers`); a
  page shorter than was asked for is the last one (`PageIs`). While the list stays as it
  is, what was fetched is what it says (`Exact`); while no other sync writes, what was
  read of the rows is what they are (`Fits`).
- `SnapshotsAreComplete`, `LoneSyncsMirror`: `CatalogSpec` implies
  `[]SnapshotIsComplete` and `LoneSyncMirrors`.

`SupervisionProofs` extends `Supervision`, for any number of commands, requests and
faults.

- `SupervisionInvariant`: `OneHolder` (one process is past the lock) and `Owns` (an
  active row belongs to the holder, or to a process that is gone). The order of commands
  has an invariant of its own, `CommandInv`: whatever a turn has read is newer than what
  was carried out (`BatchIsClosed`, `NextToRun`), and what was carried out by a daemon
  that is gone is settled before its successor serves (`RanIsSettled`).
- `HealthIsOfTheDaemon`, `CommandsInOrder`: `Spec => []LatestRowIsTheDaemon` and
  `Spec => []CommandsRunOnceInOrder`. A row between `create` and `release` is the
  latest because a row is only created by the lock's holder; a command is not carried
  out twice because a successor fails what the last daemon left running.
- `StopSticks`: `Spec => []StopSticksWhereItReaches`. While the stop is under way every
  process past the pause file is bound to fall (its row says stop and not restart), or has
  no way back to serving but through the file (`StopInv`).

`CredentialsProofs` extends `Credentials`, for any commands, logins and devices.

- `CredentialInvariant`: while no call has lost its lock, whoever is in a call holds
  it (`Locked`), so what it has read is what is stored (`KnowsAll`). A deletion needs
  no lock; it leaves nothing the call could contradict, and what the call asks of the
  platform afterwards is not the new account's.
- `CredentialTypes`, `StoredStaysTogether`, `RecoveriesAreEarned`: the run's three
  properties.

`RepliesProofs` extends `Replies`, for any messages, rules, workers and limits.

- `RepliesInvariant`: what a worker knows of the message or text it is at, at each place
  of the handling.
- `RateHolds`, `LogIsComplete`, `LogIsTrue`, `ConversationIsKept`: the run's four
  properties. Rows are never lost and only those with an id are merged (`RowsAreKept`,
  `MergeKeeps`, `InsertKeeps`). The rate is not inductive as it stands: two workers count while the other's
  message is in, so a message that is about to pass is known to have been counted among
  those received when it was read.

`SoakProofs` extends `Soak`, for any worlds, target, tolerated gap, operators and faults.

- `SoakInvariant`: several processes load the row, and each writes back a whole of its own.
  So the invariant speaks of what each is about to write as much as of the row: its numbers
  are the sums over one chain of samples (`Sums`), each of them of the world as it was at
  its time (`AreOf`), and where a pass is about to be recorded it is earned by that chain
  (`Earned`).
- `NumbersAreSound`, `PassesAreEarned`: the run's two safety properties. The attempt to
  prove the second showed that it held of the row's own numbers only within the bounds of
  the run; it now speaks of `judged`.

The assumptions are the `ASSUME`s of the component modules, which TLC evaluates in
the runs. The proofs of the step lemmas have one step per action. Only model-checked
are: liveness (`StopCompletes`, `ReadyIsPromoted`, `StopIsHonoured`,
`WorkIsAttempted`, `AckedIsHandled`, `CommandsConclude`, `PoisonStarvesNobody`,
`SoakConcludes`), which is out of the prover's reach.

## 6. Not modelled

- **Frame decoding and normalisation, mtop request signing, and the fields of items and
  orders**: conversions of an external protocol's data. Reading `parse_frame` left one
  remark: an order's status is taken for "paid" whenever it contains that word
  (`protocol/parser.py:281`), "unpaid" included.
- **AI reply modes, the gate's quiet hours and delivery limit, templated texts.**
  `ReplyEngine` is modelled in mode "rule", the default, and with `automation_mode`
  "active", without which no worker has an engine or a gate.
- **Backoff arithmetic, order statistics, the soak run's business counts and log scan,
  the evidence file**: numbers for people, or delays whose length no property depends on.
- **Diagnostics**: `doctor`, and the capture of frames, which observe and change nothing.
- **Schema, migrations, encryption, logging, platform installation, and the
  presentation of the CLI, the API and the TUI.** They are most of the repository's
  lines that no module covers: no order of steps is decided in them.

## 7. Remarks from reading the code

No property depends on these; they are what a reader of the modules would ask about.

- Replies. `match_for_account` promises the account's rules first, while the query orders
  by priority and id only. A rule deleted between match and log leaves a sent reply
  without the record the engine's docstring promises. A buyer's message that is delivered
  twice is answered twice. `check_message` counts the message it judges, so
  `MaxPerHour - 1` are answered, and quiet hours are UTC. `record_send_result` has no
  caller, so the circuit breaker that `services/guardrails.py:9` describes never acts.
  The AI provider's docstring falls back to rules, which mode "ai" does not.
- Soak. Two starts racing both pass `active_soak`; the stop then reaches only the latest
  of the two rows. A stop's promise that the run will not be recorded as passed can be
  undone by a final sample that loaded the row before the stop's commit, and numbers
  written after a verdict overwrite those it was given on. A run whose account is deleted
  never concludes: each pass counts one more monitor error. The first gap is not
  measured, so up to a tenth of the run can go unsampled at its beginning. If
  `start_task` fails, that pass samples nothing.
- Catalog. Of two overlapping syncs the older snapshot may be applied last, and the column
  `is_on_sale` is not written where it equals what was read outside the transaction; an
  item can stay off sale until the next sync. Two first syncs at once end one of them in
  an `IntegrityError` that the command does not catch. An item removed while pages are
  fetched moves the next one over a page boundary, which then goes off sale although it
  was there all along: `SnapshotIsComplete` makes that exception. An order sync deletes
  nothing and leaves `delivery_content` alone, but takes a locally delivered order back to
  the platform's status. A list longer than `max_pages` is not applied at all.
- Credentials. A login scanned with the phone of another platform user keeps the account's
  device id, although the docstring at `protocol/ws_auth.py:69` derives it from the user
  id of the current login.
