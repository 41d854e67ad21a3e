-------------------------------- MODULE Outbox --------------------------------
(***************************************************************************)
(* The transactional outbox and the consumer inbox:                        *)
(* application/outbox_dispatcher.py over repositories/outbox.py, the bus   *)
(* of infrastructure/event_bus.py, and infrastructure/idempotency.py.      *)
(*                                                                         *)
(* Events are rows written with the business transaction they belong to.   *)
(* Any number of dispatchers poll them, publish each to every handler and  *)
(* mark it.  A handler claims <<its consumer, the event>> in the           *)
(* transaction of its own effects, as the port asks of it.                 *)
(* Every transaction, and every SELECT outside of one, is a step.          *)
(***************************************************************************)
EXTENDS Naturals, Sequences, FiniteSets

CONSTANTS
  Events,       \* ordered as (occurred_at, id)
  Consumers,
  Handlers,     \* the bus's handlers of the event type, in registration order
  Poison,       \* pairs <<consumer, event>> that the consumer can never handle
  Dispatchers,
  BatchLimit,
  MaxAttempts,  \* bound: attempt_count is not counted any further
  MaxMishaps    \* bound: deaths, failed commits, and handlers that raise for once

ASSUME OutboxAssumption ==
  /\ Events \subseteq Nat /\ IsFiniteSet(Events)
  /\ Handlers \in Seq(Consumers)
  /\ \A c \in Consumers : \E k \in DOMAIN Handlers : Handlers[k] = c
  /\ Poison \subseteq Consumers \X Events
  /\ BatchLimit \in Nat \ {0} /\ MaxMishaps \in Nat /\ MaxAttempts \in Nat

VARIABLES
  state,     \* per event: absent, pending or published (published_at is set)
  attempts,  \* attempt_count
  inbox,     \* consumer_inbox: the claims that are committed
  effects,   \* how often each consumer's effects of each event were committed
  dispatch,  \* what each dispatcher is in the middle of
  mishaps

eventRows  == <<state, attempts>>
outboxVars == <<eventRows, inbox, effects, dispatch, mishaps>>

NoBatch    == [pc |-> "idle"]
At(d, pc)  == dispatch[d].pc = pc
Goes(d, j) == dispatch' = [dispatch EXCEPT ![d] = j]

\* The rest of the pass.
Pass(todo) == IF todo = <<>> THEN NoBatch ELSE [pc |-> "pass", todo |-> todo]

\* The handler whose turn it is, and its claim.
Key(d) == <<Handlers[dispatch[d].k], dispatch[d].e>>

-----------------------------------------------------------------------------
\* A business transaction commits with its event.
EnqueueEvent(e) ==
  /\ state[e] = "absent" /\ state' = [state EXCEPT ![e] = "pending"]
  /\ UNCHANGED <<attempts, inbox, effects, dispatch, mishaps>>

Pending == {e \in Events : state[e] = "pending"}

\* Slip: the oldest first, however often they have failed.
OldestFirst(e, f) == e < f

\* list_pending: the least tried first, and among them the oldest.
Before(e, f) == attempts[e] < attempts[f] \/ (attempts[e] = attempts[f] /\ e < f)

Position(e) == Cardinality({f \in Pending : Before(f, e)}) + 1

Batch(n) == [i \in 1 .. n |-> CHOOSE e \in Pending : Position(e) = i]

Limited(all) == IF all < BatchLimit THEN all ELSE BatchLimit

\* dispatch_once reads its batch.
Poll(d) ==
  /\ At(d, "idle") /\ Pending # {}
  /\ Goes(d, Pass(Batch(Limited(Cardinality(Pending)))))
  /\ UNCHANGED <<eventRows, inbox, effects, mishaps>>

\* _reload_pending: an event that another dispatcher has marked is skipped.
Reload(d) ==
  /\ At(d, "pass")
  /\ LET e == Head(dispatch[d].todo)  rest == Tail(dispatch[d].todo) IN
     Goes(d, IF state[e] = "published" THEN Pass(rest)
             ELSE [pc |-> "publish", todo |-> rest, e |-> e, k |-> 1, err |-> FALSE])
  /\ UNCHANGED <<eventRows, inbox, effects, mishaps>>

\* The fan-out goes on with the k-th handler.
Turn(d, k, failed) ==
  Goes(d, [pc |-> "publish", todo |-> dispatch[d].todo, e |-> dispatch[d].e,
           k |-> k, err |-> dispatch[d].err \/ failed])

\* Slip: the first handler that raises ends the fan-out.
StopAtFirst(d, failed) ==
  Turn(d, IF failed THEN Len(Handlers) + 1 ELSE dispatch[d].k + 1, failed)

\* The next handler of the fan-out, whatever became of the last one.
NextHandler(d, failed) == Turn(d, dispatch[d].k + 1, failed)

\* claim: an INSERT that waits for a transaction with the same key, and does
\* nothing if the key is there.  Then the handler is done.
ClaimKey(d) ==
  /\ At(d, "publish") /\ dispatch[d].k <= Len(Handlers)
  /\ \A o \in Dispatchers : At(o, "apply") => Key(o) # Key(d)
  /\ IF Key(d) \in inbox THEN NextHandler(d, FALSE) ELSE Goes(d, [dispatch[d] EXCEPT !.pc = "apply"])
  /\ UNCHANGED <<eventRows, inbox, effects, mishaps>>

\* Slip: the claim is not part of the transaction.
EffectsAlone(d) ==
  effects' = [effects EXCEPT ![Key(d)] = @ + 1] /\ UNCHANGED inbox

\* The handler's transaction commits its effects and the claim.
Commit(d) ==
  effects' = [effects EXCEPT ![Key(d)] = @ + 1] /\ inbox' = inbox \cup {Key(d)}

Apply(d) ==
  /\ At(d, "apply") /\ Key(d) \notin Poison
  /\ Commit(d) /\ NextHandler(d, FALSE)
  /\ UNCHANGED <<eventRows, mishaps>>

\* The handler raises, before its claim or after: nothing is committed.
Raise(d) ==
  /\ \/ At(d, "apply")
     \/ At(d, "publish") /\ dispatch[d].k <= Len(Handlers)
  /\ IF At(d, "apply") /\ Key(d) \in Poison THEN UNCHANGED mishaps
     ELSE mishaps < MaxMishaps /\ mishaps' = mishaps + 1
  /\ NextHandler(d, TRUE)
  /\ UNCHANGED <<eventRows, inbox, effects>>

\* Slip: an event is marked although a handler has raised.
MarkAnyway(d) == [dispatch[d] EXCEPT !.pc = "mark"]

\* publish returns, or raises the first error when all handlers had their turn.
Outcome(d) == [dispatch[d] EXCEPT !.pc = IF dispatch[d].err THEN "failed" ELSE "mark"]

Published(d) ==
  /\ At(d, "publish") /\ dispatch[d].k > Len(Handlers)
  /\ Goes(d, Outcome(d))
  /\ UNCHANGED <<eventRows, inbox, effects, mishaps>>

\* _mark_published, once more after a SELECT.
Mark(d) ==
  /\ At(d, "mark")
  /\ state' = [state EXCEPT ![dispatch[d].e] = "published"]
  /\ Goes(d, Pass(dispatch[d].todo))
  /\ UNCHANGED <<attempts, inbox, effects, mishaps>>

\* _record_failure leaves a published event alone, and else reads the count ...
ReadAttempts(d) ==
  /\ At(d, "failed")
  /\ LET e == dispatch[d].e IN
     Goes(d, IF state[e] = "published" THEN Pass(dispatch[d].todo)
             ELSE [pc |-> "count", todo |-> dispatch[d].todo, e |-> e, n |-> attempts[e] + 1])
  /\ UNCHANGED <<eventRows, inbox, effects, mishaps>>

\* ... and writes what it has computed from it.
WriteAttempts(d) ==
  /\ At(d, "count")
  /\ attempts' = [attempts EXCEPT ![dispatch[d].e] =
                    IF dispatch[d].n > MaxAttempts THEN MaxAttempts ELSE dispatch[d].n]
  /\ Goes(d, Pass(dispatch[d].todo))
  /\ UNCHANGED <<state, inbox, effects, mishaps>>

\* The process dies, or a transaction of the dispatcher fails and the
\* exception ends the pass.  What is not committed is gone.
Die(d) ==
  /\ ~At(d, "idle") /\ mishaps < MaxMishaps /\ mishaps' = mishaps + 1
  /\ Goes(d, NoBatch)
  /\ UNCHANGED <<eventRows, inbox, effects>>

-----------------------------------------------------------------------------
OutboxInit ==
  /\ state = [e \in Events |-> "absent"] /\ attempts = [e \in Events |-> 0]
  /\ inbox = {} /\ effects = [x \in Consumers \X Events |-> 0]
  /\ dispatch = [d \in Dispatchers |-> NoBatch] /\ mishaps = 0

Dispatch(d) ==
  \/ Poll(d) \/ Reload(d) \/ ClaimKey(d) \/ Apply(d) \/ Raise(d) \/ Published(d)
  \/ Mark(d) \/ ReadAttempts(d) \/ WriteAttempts(d)

OutboxNext ==
  \/ \E e \in Events : EnqueueEvent(e)
  \/ \E d \in Dispatchers : Dispatch(d) \/ Die(d)

OutboxSpec == OutboxInit /\ [][OutboxNext]_outboxVars

\* Whoever owns a dispatcher calls dispatch_once again and again.
OutboxFairSpec == OutboxSpec /\ \A d \in Dispatchers : WF_outboxVars(Dispatch(d))

-----------------------------------------------------------------------------
\* At least once: an event that is marked, and so never published again, has
\* had its effects at every consumer, whichever dispatcher it was that failed,
\* died or raced with another on the way.
MarkedWasHandled ==
  \A e \in Events : state[e] = "published" => \A c \in Consumers : effects[<<c, e>>] > 0

\* At most once: the redeliveries that a death between publication and mark, a
\* failing neighbour in the fan-out or a second dispatcher bring about never
\* repeat a consumer's effects.
EffectsHappenOnce ==
  \A x \in Consumers \X Events : effects[x] <= 1

\* An event that some consumer cannot handle keeps neither the other consumers
\* from this event nor anyone from the others, however small the batch.
PoisonStarvesNobody ==
  /\ \A x \in (Consumers \X Events) \ Poison : state[x[2]] # "absent" ~> effects[x] > 0
  /\ \A e \in Events : (\A c \in Consumers : <<c, e>> \notin Poison) =>
       (state[e] # "absent" ~> state[e] = "published")
=============================================================================
