----------------------------- MODULE WsSession ------------------------------
(***************************************************************************)
(* The session side of protocol/ws/client.py: one receive loop per         *)
(* connection, the business gate, the deferred backlog, the bounded        *)
(* callback queue with its one dispatcher, and stop() with its deadline.   *)
(* The dispatcher's handler may send one message through SendMessage,      *)
(* whose answer comes back through the same receive loop.                  *)
(*                                                                         *)
(* All tasks share one event loop: a step is what a task does between two  *)
(* awaits that yield.  A put on a queue with room does not yield.  Frames  *)
(* are numbered in the order the platform sends them; a frame stands for   *)
(* the events parsed from it.                                              *)
(***************************************************************************)
EXTENDS Naturals, Sequences, SequencesExt

CONSTANTS
  Frames,      \* bound: business frames the platform sends
  QueueSize,   \* MAX_CALLBACK_QUEUE_SIZE, of the queue and of the deferred slots
  Replied,     \* the frames whose handler sends a message
  Syncs,       \* bound: sync-extra frames the platform sends
  MaxFaults    \* bound: faults of SendMessage and connections lost, together

ASSUME SessionAssumption ==
  /\ Frames \in Nat /\ QueueSize \in Nat \ {0} /\ Replied \subseteq 1..Frames
  /\ Syncs \in Nat /\ MaxFaults \in Nat

Pushes == 1..Frames
Nothing == 0

VARIABLES
  conn,      \* where the run task is
  gate,      \* _business_session_ready
  sock,      \* the socket is open
  net,       \* frames in the socket, on their way to the receive loop
  reg,       \* the registration request of this connection
  rx,        \* the receive loop: its place and its business frame
  queue,     \* _dispatch_queue
  deferred,  \* _deferred_business_frames
  slots,     \* what is left of _deferred_business_slots
  disp,      \* the dispatcher: its place and its frame
  draining,  \* _dispatch_stop_when_drained
  st,        \* where stop() is
  stop,      \* _stop
  late,      \* the deadline of stop() has passed
  retained,  \* where the retained drain task is
  sync,      \* the sync-extra frame of this client, and its exchange
  marker,    \* _subscription_ready
  step, result, audit, future, reached, verdict, faults,  \* see SendMessage
  pushed,    \* business frames the platform has sent
  synced,    \* sync-extra frames it has sent
  drops,
  acked,     \* history: frames acknowledged
  handled,   \* history: frames handled, in order
  crowded    \* history: somebody has had to wait for room in the queue

session    == <<conn, gate, sock, reg>>
backlog    == <<deferred, slots>>
dispatcher == <<queue, disp, draining>>
stopping   == <<st, stop, late, retained>>
syncing    == <<sync, marker>>
sending    == <<step, result, audit, future, reached, verdict, faults>>
history    == <<acked, handled, crowded>>
vars == <<session, net, rx, backlog, dispatcher, stopping, syncing, sending, pushed, synced, drops, history>>

InFlight == {f.id : f \in {net[i] : i \in {j \in DOMAIN net : net[j].kind = "response"}}}

S == INSTANCE SendMessage WITH
       Attempts <- Pushes, ready <- gate, open <- sock, answers <- InFlight

Lost    == drops + faults < MaxFaults /\ drops' = drops + 1
Bounded == drops + faults' <= MaxFaults

Frame(kind, id) == [kind |-> kind, id |-> id]
Rx(place, n)    == rx' = [at |-> place, n |-> n]
Disp(place, n)  == disp' = [at |-> place, n |-> n]

-----------------------------------------------------------------------------
(* The queue, the backlog, and those who fill them.                        *)

Room == QueueSize - Len(queue)

\* _flush_deferred_business_frames until it has to wait: room goes to the head
\* of the backlog, whose slot is given back once it is in the queue.
FlushSome ==
  LET k == IF Len(deferred) < Room THEN Len(deferred) ELSE Room IN
  /\ queue' = queue \o SubSeq(deferred, 1, k)
  /\ deferred' = SubSeq(deferred, k + 1, Len(deferred))
  /\ slots' = slots + k
  /\ crowded' = (crowded \/ k < Len(deferred))

\* The acknowledgement of a frame that is kept fails on a closed socket, and the
\* receive loop ends.
Ack(n) == IF sock THEN Rx("recv", Nothing) /\ acked' = acked \cup {n}
                  ELSE Rx("done", Nothing) /\ UNCHANGED acked

\* Slip: a frame that finds the queue full is acknowledged all the same.
PutOrDrop(n) ==
  /\ IF Room > 0 THEN queue' = Append(queue, n) ELSE UNCHANGED queue
  /\ Ack(n) /\ UNCHANGED crowded

\* _queue_events by the receive loop.
Put(n) ==
  IF Room > 0
  THEN queue' = Append(queue, n) /\ Ack(n) /\ UNCHANGED crowded
  ELSE Rx("put", n) /\ crowded' = TRUE /\ UNCHANGED <<queue, acked>>

\* To the backlog, if it has a slot.
Defer(n) ==
  /\ UNCHANGED <<queue, crowded>>
  /\ IF slots > 0 THEN deferred' = Append(deferred, n) /\ slots' = slots - 1 /\ Ack(n)
                  ELSE Rx("slot", n) /\ UNCHANGED <<backlog, acked>>

\* _handle_or_defer_business_frame.
HandleOrDefer(n) == IF gate THEN Put(n) /\ UNCHANGED backlog ELSE Defer(n)

-----------------------------------------------------------------------------
(* The receive loop.                                                       *)

Received(kind) == rx.at = "recv" /\ net # <<>> /\ Head(net).kind = kind /\ net' = Tail(net)

RxBusiness ==
  /\ Received("business") /\ HandleOrDefer(Head(net).id)
  /\ UNCHANGED <<session, disp, draining, stopping, syncing, sending, pushed, synced, drops, handled>>

\* It was given a slot, and looks at the gate again.
RxSlot ==
  /\ rx.at = "slot" /\ slots > 0 /\ HandleOrDefer(rx.n)
  /\ UNCHANGED <<session, net, disp, draining, stopping, syncing, sending, pushed, synced, drops, handled>>

RxPut ==
  /\ rx.at = "put" /\ Room > 0 /\ queue' = Append(queue, rx.n) /\ Ack(rx.n)
  /\ UNCHANGED <<session, net, backlog, disp, draining, stopping, syncing, sending, pushed, synced, drops, handled, crowded>>

\* Any other frame is acknowledged at once, which ends the loop on a closed socket.
Acks == IF sock THEN UNCHANGED rx ELSE Rx("done", Nothing)

\* A response finds its waiter, or nobody.
RxResponse ==
  /\ Received("response") /\ S!Match(Head(net).id) /\ Acks
  /\ UNCHANGED <<conn, reg, backlog, dispatcher, stopping, syncing, pushed, synced, drops, history>>

RxRegistered ==
  /\ Received("registered") /\ reg' = (IF reg = "asked" THEN "matched" ELSE reg) /\ Acks
  /\ UNCHANGED <<conn, gate, sock, backlog, dispatcher, stopping, syncing, sending, pushed, synced, drops, history>>

\* The socket has ended, and what it had received is read.
RxEnds ==
  /\ rx.at = "recv" /\ net = <<>> /\ ~sock /\ Rx("done", Nothing)
  /\ UNCHANGED <<session, net, backlog, dispatcher, stopping, syncing, sending, pushed, synced, drops, history>>

-----------------------------------------------------------------------------
(* The subscription exchange: getState and ackDiff, as one round trip.      *)

\* The exchange begins: its request, which a closed socket refuses.
Asks == IF sock THEN "asked" ELSE "failing"

\* A sync-extra frame is acknowledged, then answered, or kept until the gate
\* opens.
RxSync ==
  /\ Received("sync")
  /\ IF sock THEN sync' = (IF gate THEN Asks ELSE "held") ELSE UNCHANGED sync
  /\ Acks
  /\ UNCHANGED <<session, backlog, dispatcher, stopping, marker, sending, pushed, synced, drops, history>>

\* The response, if its exchange is still there.
RxExchange ==
  /\ Received("exchange") /\ sync' = (IF sync = "asked" THEN "proven" ELSE sync) /\ Acks
  /\ UNCHANGED <<session, backlog, dispatcher, stopping, marker, sending, pushed, synced, drops, history>>

\* The task wakes with the response.
SyncReady ==
  /\ sync = "proven" /\ marker' = TRUE /\ sync' = "over"
  /\ UNCHANGED <<session, net, rx, backlog, dispatcher, stopping, sending, pushed, synced, drops, history>>

\* A write that fails, a timeout, or an answer that cannot be used: the
\* exchange closes the socket.
SyncFails ==
  /\ \/ (sync = "failing" \/ (sync = "asked" /\ ~sock)) /\ UNCHANGED drops
     \/ sync = "asked" /\ sock /\ Lost
  /\ sync' = "over" /\ sock' = FALSE
  /\ UNCHANGED <<conn, gate, reg, net, rx, backlog, dispatcher, stopping, marker, sending, pushed, synced, history>>

-----------------------------------------------------------------------------
(* The run task.                                                           *)

Conn(place) == conn' = place

\* Every way out of a connection: the gate closes, the router is closed, the
\* receive loop and the exchange are cancelled wherever they wait.
Teardown(place) ==
  /\ Conn(place) /\ net' = <<>> /\ S!Teardown
  /\ reg' = "none" /\ Rx("none", Nothing) /\ marker' = FALSE
  /\ sync' = IF sync = "held" THEN "held" ELSE "none"

\* Credentials, socket and registration request, all within their timeouts.
Connects ==
  /\ conn = "top" /\ ~stop
  /\ Conn("register") /\ UNCHANGED net /\ S!Open /\ reg' = "asked" /\ Rx("recv", Nothing)
  /\ UNCHANGED <<backlog, dispatcher, stopping, syncing, pushed, synced, drops, history>>

\* The response came: registration_delay_s, unless stop() is called.
Registered ==
  /\ conn = "register" /\ reg = "matched" /\ Conn("settle")
  /\ UNCHANGED <<gate, sock, reg, net, rx, backlog, dispatcher, stopping, syncing, sending, pushed, synced, drops, history>>

\* It did not come, was refused, or the receive loop has ended meanwhile.
RegistrationFails ==
  /\ conn = "register" /\ Teardown("top")
  /\ IF rx.at = "done" THEN UNCHANGED drops ELSE Lost
  /\ UNCHANGED <<backlog, dispatcher, stopping, pushed, synced, history>>

\* Slip: the backlog is left for a later step.
GateOpensFirst ==
  /\ conn = "settle" /\ ~stop /\ sock /\ rx.at # "done"
  /\ Conn("flush") /\ UNCHANGED net /\ S!Ready
  /\ UNCHANGED <<reg, rx, backlog, dispatcher, stopping, syncing, pushed, synced, drops, history>>

\* The gate opens, and the backlog is flushed in the same step as far as it can.
GateOpens ==
  /\ conn = "settle" /\ ~stop /\ sock /\ rx.at # "done"
  /\ Conn("flush") /\ UNCHANGED net /\ S!Ready /\ FlushSome
  /\ UNCHANGED <<reg, rx, disp, draining, stopping, syncing, pushed, synced, drops, acked, handled>>

\* A stop during the delay, or a connection that has ended.
SettleFails ==
  /\ conn = "settle" /\ (stop \/ ~sock \/ rx.at = "done") /\ Teardown("top")
  /\ UNCHANGED <<backlog, dispatcher, stopping, pushed, synced, drops, history>>

FlushGoesOn ==
  /\ conn = "flush" /\ deferred # <<>> /\ Room > 0 /\ FlushSome
  /\ UNCHANGED <<session, net, rx, disp, draining, stopping, syncing, sending, pushed, synced, drops, acked, handled>>

\* The kept sync-extra frame is answered now; then _serve awaits the receive loop.
Serves ==
  /\ conn = "flush" /\ deferred = <<>> /\ ~stop
  /\ Conn("serve") /\ sync' = IF sync = "held" THEN Asks ELSE sync
  /\ UNCHANGED <<gate, sock, reg, net, rx, backlog, dispatcher, stopping, marker, sending, pushed, synced, drops, history>>

SessionEnds ==
  /\ \/ conn = "serve" /\ rx.at = "done"
     \/ conn = "flush" /\ deferred = <<>> /\ stop
  /\ Teardown("top")
  /\ UNCHANGED <<backlog, dispatcher, stopping, pushed, synced, drops, history>>

LeavesLoop ==
  /\ conn = "top" /\ stop /\ Conn("off")
  /\ UNCHANGED <<gate, sock, reg, net, rx, backlog, dispatcher, stopping, syncing, sending, pushed, synced, drops, history>>

-----------------------------------------------------------------------------
(* The dispatcher.                                                         *)

\* A frame of the queue waits for a ready session, or for stop().
DGet ==
  /\ disp.at = "get" /\ queue # <<>>
  /\ queue' = Tail(queue) /\ Disp("gate", Head(queue))
  /\ UNCHANGED <<session, net, rx, backlog, draining, stopping, syncing, sending, pushed, synced, drops, history>>

DGate ==
  /\ disp.at = "gate" /\ (gate \/ stop) /\ Disp("handle", disp.n)
  /\ UNCHANGED <<session, net, rx, backlog, queue, draining, stopping, syncing, sending, pushed, synced, drops, history>>

\* The handler sends a message.
DSends ==
  /\ disp.at = "handle" /\ disp.n \in Replied /\ UNCHANGED net /\ S!Send(disp.n) /\ Bounded
  /\ UNCHANGED <<conn, reg, rx, backlog, dispatcher, stopping, syncing, pushed, synced, drops, history>>

\* Whatever the handler did or raised, the dispatcher goes on, or ends if
\* stop() asked it to once nothing is left.
DDone ==
  /\ disp.at = "handle" /\ step[disp.n] = (IF disp.n \in Replied THEN "over" ELSE "idle")
  /\ handled' = Append(handled, disp.n)
  /\ Disp(IF draining /\ queue = <<>> THEN "none" ELSE "get", Nothing)
  /\ UNCHANGED <<session, net, rx, backlog, queue, draining, stopping, syncing, sending, pushed, synced, drops, acked, crowded>>

-----------------------------------------------------------------------------
(* stop() and the drain it may leave behind.                               *)

St(place) == st' = place

\* Slip: stop() closes the gate, and leaves the router to the run task.
StopCallClosesGate ==
  /\ st = "none" /\ St("wait") /\ stop' = TRUE /\ sock' = FALSE /\ gate' = FALSE
  /\ UNCHANGED <<conn, reg, net, rx, backlog, dispatcher, late, retained, syncing, sending, pushed, synced, drops, history>>

\* The flag, and the socket if there is one.
StopCall ==
  /\ st = "none" /\ St("wait") /\ stop' = TRUE /\ sock' = FALSE
  /\ UNCHANGED <<conn, gate, reg, net, rx, backlog, dispatcher, late, retained, syncing, sending, pushed, synced, drops, history>>

Deadline ==
  /\ st \in {"wait", "flush", "join"} /\ ~late /\ late' = TRUE
  /\ UNCHANGED <<session, net, rx, backlog, dispatcher, st, stop, retained, syncing, sending, pushed, synced, drops, history>>

StopSeesEnd ==
  /\ st = "wait" /\ conn = "off" /\ St("flush")
  /\ UNCHANGED <<session, net, rx, backlog, dispatcher, stop, late, retained, syncing, sending, pushed, synced, drops, history>>

\* After the deadline the run task is cancelled wherever it waits.
StopCancels ==
  /\ st = "wait" /\ late /\ conn # "off" /\ Teardown("off") /\ St("flush")
  /\ UNCHANGED <<backlog, dispatcher, stop, late, retained, pushed, synced, drops, history>>

StopFlushes ==
  /\ st = "flush" /\ ~late /\ deferred # <<>> /\ Room > 0 /\ FlushSome
  /\ UNCHANGED <<session, net, rx, disp, draining, stopping, syncing, sending, pushed, synced, drops, acked, handled>>

\* What the deadline leaves in the backlog goes to a task of its own.
StopHandsOver ==
  /\ st = "flush" /\ late /\ deferred # <<>>
  /\ St("done") /\ retained' = "flush"
  /\ UNCHANGED <<session, net, rx, backlog, dispatcher, stop, late, syncing, sending, pushed, synced, drops, history>>

StopJoins ==
  /\ st = "flush" /\ deferred = <<>> /\ ~late /\ St("join")
  /\ UNCHANGED <<session, net, rx, backlog, dispatcher, stop, late, retained, syncing, sending, pushed, synced, drops, history>>

\* queue.join(): nothing queued, nothing in hand.
Drained == queue = <<>> /\ disp.at \in {"get", "none"}

StopEnds ==
  /\ st = "join" /\ ~late /\ Drained /\ St("done") /\ Disp("none", Nothing)
  /\ UNCHANGED <<session, net, rx, backlog, queue, draining, stop, late, retained, syncing, sending, pushed, synced, drops, history>>

\* Slip: a dispatcher with a frame in hand is cancelled as well.
StopLeavesDispatcherHard ==
  /\ st = "join" \/ (st = "flush" /\ deferred = <<>>)
  /\ late /\ St("done") /\ draining' = TRUE /\ Disp("none", Nothing)
  /\ UNCHANGED <<session, net, rx, backlog, queue, stop, late, retained, syncing, sending, pushed, synced, drops, history>>

\* _request_dispatch_stop_when_drained: an idle dispatcher is cancelled, another
\* one ends by itself.
StopLeavesDispatcher ==
  /\ st = "join" \/ (st = "flush" /\ deferred = <<>>)
  /\ late /\ St("done") /\ draining' = TRUE
  /\ Disp(IF Drained THEN "none" ELSE disp.at, IF Drained THEN Nothing ELSE disp.n)
  /\ UNCHANGED <<session, net, rx, backlog, queue, stop, late, retained, syncing, sending, pushed, synced, drops, history>>

\* _drain_retained_business_after_stop.
RetainedFlushes ==
  /\ retained = "flush" /\ deferred # <<>> /\ Room > 0 /\ FlushSome
  /\ UNCHANGED <<session, net, rx, disp, draining, stopping, syncing, sending, pushed, synced, drops, acked, handled>>

RetainedEnds ==
  /\ retained = "flush" /\ deferred = <<>> /\ Drained
  /\ retained' = "over" /\ Disp("none", Nothing)
  /\ UNCHANGED <<session, net, rx, backlog, queue, draining, st, stop, late, syncing, sending, pushed, synced, drops, history>>

-----------------------------------------------------------------------------
(* The platform and the network.                                           *)

Arrives(f) == sock /\ net' = Append(net, f)

Pushed ==
  /\ pushed < Frames /\ pushed' = pushed + 1 /\ Arrives(Frame("business", pushed + 1))
  /\ UNCHANGED <<session, rx, backlog, dispatcher, stopping, syncing, sending, synced, drops, history>>

AnswersRegistration ==
  /\ reg = "asked" /\ ~\E i \in DOMAIN net : net[i].kind = "registered"
  /\ Arrives(Frame("registered", Nothing))
  /\ UNCHANGED <<session, rx, backlog, dispatcher, stopping, syncing, sending, pushed, synced, drops, history>>

AnswersMessage ==
  /\ \E n \in Pushes, v \in S!Verdicts : Arrives(Frame("response", n)) /\ S!Respond(n, v) /\ Bounded
  /\ UNCHANGED <<conn, reg, rx, backlog, dispatcher, stopping, syncing, pushed, synced, drops, history>>

\* One sync-extra frame per connection.
SendsSync ==
  /\ synced < Syncs /\ synced' = synced + 1 /\ sync = "none" /\ reg = "matched" /\ ~\E i \in DOMAIN net : net[i].kind = "sync"
  /\ Arrives(Frame("sync", Nothing))
  /\ UNCHANGED <<session, rx, backlog, dispatcher, stopping, syncing, sending, pushed, drops, history>>

AnswersSync ==
  /\ sync = "asked" /\ ~\E i \in DOMAIN net : net[i].kind = "exchange"
  /\ Arrives(Frame("exchange", Nothing))
  /\ UNCHANGED <<session, rx, backlog, dispatcher, stopping, syncing, sending, pushed, synced, drops, history>>

Drops ==
  /\ sock /\ Lost /\ sock' = FALSE
  /\ UNCHANGED <<conn, gate, reg, net, rx, backlog, dispatcher, stopping, syncing, sending, pushed, synced, history>>

-----------------------------------------------------------------------------
\* start() has just returned: the run task and the dispatcher exist.
Init ==
  /\ conn = "top" /\ net = <<>> /\ reg = "none" /\ rx = [at |-> "none", n |-> Nothing]
  /\ queue = <<>> /\ deferred = <<>> /\ slots = QueueSize
  /\ disp = [at |-> "get", n |-> Nothing] /\ draining = FALSE
  /\ st = "none" /\ stop = FALSE /\ late = FALSE /\ retained = "none"
  /\ sync = "none" /\ marker = FALSE /\ S!SendInit
  /\ pushed = 0 /\ synced = 0 /\ drops = 0 /\ acked = {} /\ handled = <<>> /\ crowded = FALSE

Receive == RxBusiness \/ RxSlot \/ RxPut \/ RxResponse \/ RxRegistered \/ RxEnds
             \/ RxSync \/ RxExchange
Exchange == SyncReady \/ SyncFails
Run == Connects \/ Registered \/ RegistrationFails \/ GateOpens \/ SettleFails \/ FlushGoesOn
         \/ Serves \/ SessionEnds \/ LeavesLoop
Dispatch == DGet \/ DGate \/ DSends \/ DDone
Stopping == Deadline \/ StopSeesEnd \/ StopCancels \/ StopFlushes \/ StopHandsOver \/ StopJoins
              \/ StopEnds \/ StopLeavesDispatcher
Retained == RetainedFlushes \/ RetainedEnds
Platform == Pushed \/ AnswersRegistration \/ AnswersMessage \/ SendsSync \/ AnswersSync \/ Drops

Next == Receive \/ Exchange \/ Run \/ Dispatch \/ Stopping \/ StopCall \/ Retained \/ Platform

Spec == Init /\ [][Next]_vars

\* Ready tasks run, and time passes: handlers end, since their waits have
\* timeouts and their database calls return, and the deadline of stop() comes.
\* Nothing is assumed of the platform or of who calls stop().
FairSpec == Spec /\ WF_vars(Run) /\ WF_vars(Dispatch) /\ WF_vars(Stopping) /\ WF_vars(Retained)

-----------------------------------------------------------------------------
InHand == IF disp.n = Nothing THEN <<>> ELSE <<disp.n>>

\* A frame the platform need not send again is never lost: it is handled, in
\* the dispatcher's hand, queued, or in the backlog, and in one of them only.
AckedIsKeptOnce ==
  LET kept == handled \o InHand \o queue \o deferred IN
  /\ acked \subseteq ToSet(kept) /\ IsInjective(kept)

\* Frames are handled in the order they were sent, whatever reconnections lie
\* between, unless somebody has had to wait for room in the queue.
OrderHoldsUnlessCrowded ==
  crowded \/ LET kept == handled \o InHand \o queue \o deferred IN
             \A i, j \in DOMAIN kept : i < j => kept[i] < kept[j]

\* The sends of a session are those of SendMessage, whatever its connection does.
SendSpec == S!SendSpec

\* Whatever becomes of the connection, what the callers of send_text are told is
\* true, and the audit log bears it out.
SendsAreTrue == S!OutcomeIsTrue /\ S!EvidenceIsKept

\* Once stop() is called, what was acknowledged is handled, deadline or not;
\* while the session stays ready it is handled as well, even with the receive
\* loop and the dispatcher waiting for each other.
AckedIsHandled == []<>(~(gate \/ stop) \/ acked \subseteq ToSet(handled))
=============================================================================
