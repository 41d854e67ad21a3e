------------------------------ MODULE Delivery ------------------------------
(***************************************************************************)
(* Delivery of card codes to paid orders: services/delivery_service.py     *)
(* over domain/inventory/cards.py and domain/order/orders.py.              *)
(*                                                                         *)
(* The account's worker handles its order events one at a time, and may    *)
(* die between any two steps; stopped past its deadline it leaves the      *)
(* event it is handling to go on beside the worker that replaces it.       *)
(* Beside them run `order redeliver`, which takes the account lock, `order *)
(* sync`, and operators who take codes by hand, restock, switch and delete *)
(* cards from processes of their own.                                      *)
(* Outside a transaction every SELECT is a step: nothing locks what it     *)
(* reads.  A code is one line of a card's content, and consumptions are    *)
(* kept by id.                                                             *)
(***************************************************************************)
EXTENDS Naturals, Sequences, FiniteSets, SequencesExt, Functions

CONSTANTS
  Orders,
  Cards,        \* card ids, whose order is that of _pick_card
  Stock,        \* per card, the codes it is created with
  Refill,       \* per card, the codes a restock may add
  Workers,      \* worker objects of the account: the current one and those it replaced
  Hands,        \* operators that run consume_card
  Redo,         \* the `order redeliver` command
  NoCode, Nobody,
  MaxFaults,    \* bound: deaths of the worker, sends that fail, OrderPaid repeated
  MaxChanges    \* bound: syncs, restocks, switches, deletions, and codes taken by hand

ASSUME DeliveryAssumption ==
  /\ Cards \subseteq Nat /\ IsFiniteSet(Cards)
  /\ \A c \in Cards : Stock[c] \in Seq(Range(Stock[c])) /\ IsInjective(Stock[c])
  /\ \A c, d \in Cards : c # d =>
       (Range(Stock[c]) \cup Refill[c]) \cap (Range(Stock[d]) \cup Refill[d]) = {}
  /\ Orders \cap Hands = {} /\ Workers \cap Hands = {}
  /\ Redo \notin Workers \cup Hands /\ Nobody \notin Workers \cup {Redo}
  /\ MaxChanges \in Nat /\ MaxFaults \in Nat

VARIABLES
  status,    \* orders.status, "absent" without a row
  content,   \* orders.delivery_content
  over,      \* orders.amount exceeds the guardrail's maximum
  cards,     \* the cards table: lines, remaining, enabled, and live until deleted
  cons,      \* card_consumptions, by id
  job,       \* what each process is in the middle of
  restock,   \* the restock in progress
  locked,    \* who holds the account lock, and so a connection
  paid,      \* per order, OrderPaid events handled
  sent,      \* history: order and code handed to the connection
  forgot,    \* history: who took a code whose consumption went with its card
  raced,     \* history: codes taken when the card had a consumption of them already
  crossed,   \* history: cards whose restock wrote a count that sales had made stale
  faults, changes

orderRows == <<status, content, over>>
stockRows == <<cards, cons>>
bounds    == <<faults, changes>>
races     == <<raced, crossed>>
history   == <<paid, sent, forgot, races>>
vars == <<orderRows, stockRows, job, restock, locked, history, bounds>>

Codes == UNION {Range(Stock[c]) \cup Refill[c] : c \in Cards}
Idle  == [pc |-> "idle"]
At(p, pc)  == job[p].pc = pc
Goes(p, j) == job' = [job EXCEPT ![p] = j]

Rows(c)   == {i \in DOMAIN cons : cons[i].card = c}
RowsOf(o) == {i \in DOMAIN cons : cons[i].who = o}
Least(S)  == CHOOSE i \in S : \A j \in S : i <= j

\* The id SQLite gives a new row: one more than the greatest in the table.
NextId == Max(DOMAIN cons \cup {0}) + 1

-----------------------------------------------------------------------------
(* consume_card, as a worker or an operator runs it.                       *)

Stocked(c) == cards[c].live /\ cards[c].enabled /\ cards[c].left > 0

\* The first SELECT: None unless the card is there, enabled and in stock.
ReadCard(p) ==
  /\ At(p, "read")
  /\ LET c == job[p].c IN
     Goes(p, IF Stocked(c) /\ cards[c].lines # <<>>
             THEN [pc |-> "choose", who |-> job[p].who, c |-> c, lines |-> cards[c].lines]
             ELSE Idle)
  /\ UNCHANGED <<orderRows, stockRows, restock, locked, history, bounds>>

\* The codes that consumptions of the card hold.
Held(c) == {cons[i].code : i \in Rows(c)}

\* The first line that none holds.
Choice(c, lines) ==
  LET free == {i \in DOMAIN lines : lines[i] \notin Held(c)} IN
  IF free = {} THEN NoCode ELSE lines[Least(free)]

\* The second SELECT.
ChooseCode(p) ==
  /\ At(p, "choose")
  /\ LET code == Choice(job[p].c, job[p].lines) IN
     Goes(p, IF code = NoCode THEN Idle
             ELSE [pc |-> "take", who |-> job[p].who, c |-> job[p].c, code |-> code])
  /\ UNCHANGED <<orderRows, stockRows, restock, locked, history, bounds>>

\* The transaction: the decrement, if any is left, and the consumption.
Take(c, who, code) ==
  /\ cards' = [cards EXCEPT ![c].left = @ - 1]
  /\ cons' = [i \in DOMAIN cons \cup {NextId} |->
                IF i = NextId THEN [card |-> c, who |-> who, code |-> code, ok |-> TRUE] ELSE cons[i]]

\* The guard is on the count: that the code is still free is not looked at again.
TakeCode(p) ==
  /\ At(p, "take")
  /\ LET c == job[p].c IN
     IF cards[c].live /\ cards[c].left > 0
     THEN /\ Take(c, job[p].who, job[p].code)
          /\ raced' = IF job[p].code \in Held(c) THEN raced \cup {job[p].code} ELSE raced
          /\ Goes(p, IF p \in Workers
                     THEN [pc |-> "send", who |-> job[p].who, code |-> job[p].code]
                     ELSE Idle)
     ELSE Goes(p, Idle) /\ UNCHANGED <<stockRows, raced>>
  /\ UNCHANGED <<orderRows, restock, locked, paid, sent, forgot, crossed, bounds>>

-----------------------------------------------------------------------------
(* The worker: _on_event, and DeliveryService.deliver for an OrderPaid.    *)

\* An event is handled after those before it.
Handles(w) == At(w, "idle") /\ locked = w

\* upsert_from_event.  OrderCreated resets the status, whatever came before;
\* OrderDelivered counts only for an order with content.
Upsert(o, st) == status' = [status EXCEPT ![o] = st]

OrderCreated(w, o) ==
  /\ Handles(w) /\ Upsert(o, "pending")
  /\ UNCHANGED <<content, over, stockRows, job, restock, locked, history, bounds>>

OrderDelivered(w, o) ==
  /\ Handles(w)
  /\ Upsert(o, IF content[o] # NoCode THEN "delivered"
               ELSE IF status[o] = "absent" THEN "pending" ELSE status[o])
  /\ UNCHANGED <<content, over, stockRows, job, restock, locked, history, bounds>>

\* An OrderPaid, the first or one more, starts the pipeline.
OrderPaid(w, o, ov) ==
  /\ Handles(w)
  /\ IF paid[o] = 0 THEN UNCHANGED faults ELSE faults < MaxFaults /\ faults' = faults + 1
  /\ Upsert(o, "paid") /\ over' = [over EXCEPT ![o] = ov]
  /\ Goes(w, [pc |-> "deliver", who |-> o, over |-> ov])
  /\ paid' = [paid EXCEPT ![o] = @ + 1]
  /\ UNCHANGED <<content, stockRows, restock, locked, sent, forgot, races, changes>>

\* deliver upserts once more, then asks the guardrail.
Deliver(w) ==
  /\ At(w, "deliver")
  /\ LET o == job[w].who IN
     /\ Upsert(o, "paid") /\ over' = [over EXCEPT ![o] = job[w].over]
     /\ Goes(w, IF job[w].over THEN Idle ELSE [pc |-> "pick", who |-> o])
  /\ UNCHANGED <<content, stockRows, restock, locked, history, bounds>>

\* _pick_card.  Without stock the pipeline ends.
PickCard(w) ==
  /\ At(w, "pick")
  /\ LET S == {c \in Cards : Stocked(c)} IN
     Goes(w, IF S = {} THEN Idle ELSE [pc |-> "read", who |-> job[w].who, c |-> Least(S)])
  /\ UNCHANGED <<orderRows, stockRows, restock, locked, history, bounds>>

\* The sender succeeds, or fails when the text may still have gone out.
\* Without its connection it can only fail.
Send(p) ==
  /\ At(p, "send")
  /\ LET mine == <<job[p].who, job[p].code>> IN
     \E ok \in BOOLEAN, out \in BOOLEAN :
       /\ locked # p => ~out
       /\ ok => out
       /\ sent' = IF out THEN sent \cup {mine} ELSE sent
       /\ IF ok \/ locked # p THEN UNCHANGED faults
          ELSE faults < MaxFaults /\ faults' = faults + 1
       /\ Goes(p, [pc |-> "record", who |-> job[p].who, code |-> job[p].code, ok |-> ok])
  /\ UNCHANGED <<orderRows, stockRows, restock, locked, paid, forgot, races, changes>>

\* Slip: the order counts as delivered whatever the sender said.
RecordDelivered(o, code, ok) ==
  /\ status' = [status EXCEPT ![o] = "delivered"]
  /\ content' = [content EXCEPT ![o] = code]
  /\ UNCHANGED <<over, stockRows>>

\* _record_outcome writes the order, and all its consumptions alike.
RecordOutcome(o, code, ok) ==
  /\ status' = [status EXCEPT ![o] = IF ok THEN "delivered" ELSE @]
  /\ content' = [content EXCEPT ![o] = IF ok THEN code ELSE @]
  /\ cons' = [i \in DOMAIN cons |-> IF i \in RowsOf(o) THEN [cons[i] EXCEPT !.ok = ok] ELSE cons[i]]
  /\ UNCHANGED <<over, cards>>

\* The redeliver command leaves its connection when it is done.
Record(p) ==
  /\ At(p, "record")
  /\ RecordOutcome(job[p].who, job[p].code, job[p].ok)
  /\ Goes(p, Idle) /\ locked' = IF p = Redo THEN Nobody ELSE locked
  /\ UNCHANGED <<restock, history, bounds>>

Connect(w) ==
  /\ locked = Nobody /\ At(w, "idle") /\ locked' = w
  /\ UNCHANGED <<orderRows, stockRows, job, restock, history, bounds>>

\* A stop closes the connection; what was dispatched already goes on.
Disconnect(w) ==
  /\ locked = w /\ locked' = Nobody
  /\ UNCHANGED <<orderRows, stockRows, job, restock, history, bounds>>

\* The workers' process dies, with what it held in memory, and its lock.
Die ==
  /\ faults < MaxFaults /\ faults' = faults + 1
  /\ \E w \in Workers : ~At(w, "idle")
  /\ job' = [p \in DOMAIN job |-> IF p \in Workers THEN Idle ELSE job[p]]
  /\ locked' = IF locked \in Workers THEN Nobody ELSE locked
  /\ UNCHANGED <<orderRows, stockRows, restock, history, changes>>

-----------------------------------------------------------------------------
(* Commands.                                                               *)

Changes == changes < MaxChanges /\ changes' = changes + 1 /\ UNCHANGED faults

\* Slip: the failed consumptions of any order.
FailedOfAny(o) == {i \in DOMAIN cons : ~cons[i].ok}

Failed(o) == {i \in RowsOf(o) : ~cons[i].ok}

\* `order redeliver`, for an order that is paid.
Redeliver(o) ==
  /\ At(Redo, "idle") /\ status[o] = "paid" /\ Goes(Redo, [pc |-> "connect", who |-> o])
  /\ UNCHANGED <<orderRows, stockRows, restock, locked, history, bounds>>

\* _start_with_prepared_credentials: the command ends when the lock is held, the
\* credentials fail, or the connection is not ready in time.
ConnectRedo ==
  /\ At(Redo, "connect")
  /\ \/ locked = Nobody /\ locked' = Redo /\ Goes(Redo, [job[Redo] EXCEPT !.pc = "retry"])
     \/ Goes(Redo, Idle) /\ UNCHANGED locked
  /\ UNCHANGED <<orderRows, stockRows, restock, history, bounds>>

\* An order delivered by now, without a failed row, or over the maximum, is left.
Retries(o) == status[o] \notin {"absent", "delivered"} /\ Failed(o) # {} /\ ~over[o]

\* Slip: a retry takes another code.
RetryWithFreshCode ==
  /\ At(Redo, "retry") /\ Retries(job[Redo].who) /\ UNCHANGED locked
  /\ \E c \in Cards :
       LET code == Choice(c, cards[c].lines) IN
       /\ Stocked(c) /\ code # NoCode /\ Take(c, job[Redo].who, code)
       /\ Goes(Redo, [pc |-> "send", who |-> job[Redo].who, code |-> code])
  /\ UNCHANGED <<orderRows, restock, history, bounds>>

\* DeliveryService.retry sends the code of the order's first failed consumption.
Retry ==
  /\ At(Redo, "retry")
  /\ LET o == job[Redo].who IN
     IF Retries(o)
     THEN /\ Goes(Redo, [pc |-> "send", who |-> o, code |-> cons[Least(Failed(o))].code])
          /\ UNCHANGED locked
     ELSE Goes(Redo, Idle) /\ locked' = Nobody
  /\ UNCHANGED <<orderRows, stockRows, restock, history, bounds>>

\* `order sync`: the platform's status and amount replace the row's, no more.
Sync(o, st, ov) ==
  /\ Changes /\ Upsert(o, st) /\ over' = [over EXCEPT ![o] = ov]
  /\ UNCHANGED <<content, stockRows, job, restock, locked, history>>

\* `card consume`: consume_card for no order.
Consume(h, c) ==
  /\ Changes /\ At(h, "idle") /\ Goes(h, [pc |-> "read", who |-> h, c |-> c])
  /\ UNCHANGED <<orderRows, stockRows, restock, locked, history>>

\* Slip: the codes are added, the stock is not.
RestockWithoutCount(c) ==
  /\ Changes /\ restock = Idle /\ cards[c].live
  /\ \E code \in Refill[c] \ Range(cards[c].lines) :
       restock' = [pc |-> "write", c |-> c,
                   lines |-> Append(cards[c].lines, code), left |-> cards[c].left]
  /\ UNCHANGED <<orderRows, stockRows, job, locked, history>>

\* restock reads the row, and writes back what it has computed from it.
RestockReads(c) ==
  /\ Changes /\ restock = Idle /\ cards[c].live
  /\ \E code \in Refill[c] \ Range(cards[c].lines) :
       restock' = [pc |-> "write", c |-> c,
                   lines |-> Append(cards[c].lines, code), left |-> cards[c].left + 1]
  /\ UNCHANGED <<orderRows, stockRows, job, locked, history>>

\* A row deleted meanwhile makes the flush fail.
RestockWrites ==
  /\ restock.pc = "write" /\ restock' = Idle
  /\ LET c == restock.c IN
     IF cards[c].live
     THEN /\ cards' = [cards EXCEPT ![c].lines = restock.lines, ![c].left = restock.left]
          /\ crossed' = IF restock.left # cards[c].left + 1 THEN crossed \cup {c} ELSE crossed
     ELSE UNCHANGED <<cards, crossed>>
  /\ UNCHANGED <<orderRows, cons, job, locked, paid, sent, forgot, raced, bounds>>

SetEnabled(c) ==
  /\ Changes /\ cards[c].live /\ cards' = [cards EXCEPT ![c].enabled = ~@]
  /\ UNCHANGED <<orderRows, cons, job, restock, locked, history>>

\* The consumptions of a card go with it.
DeleteCard(c) ==
  /\ Changes /\ cards[c].live /\ cards' = [cards EXCEPT ![c].live = FALSE]
  /\ cons' = Restrict(cons, DOMAIN cons \ Rows(c))
  /\ forgot' = forgot \cup {cons[i].who : i \in Rows(c)}
  /\ UNCHANGED <<orderRows, job, restock, locked, paid, sent, races>>

-----------------------------------------------------------------------------
Init ==
  /\ status = [o \in Orders |-> "absent"] /\ content = [o \in Orders |-> NoCode]
  /\ over = [o \in Orders |-> FALSE]
  /\ cards = [c \in Cards |-> [lines |-> Stock[c], left |-> Len(Stock[c]),
                               enabled |-> TRUE, live |-> TRUE]]
  /\ cons = <<>>
  /\ job = [p \in Workers \cup Hands \cup {Redo} |-> Idle] /\ restock = Idle /\ locked = Nobody
  /\ paid = [o \in Orders |-> 0] /\ sent = {} /\ forgot = {}
  /\ raced = {} /\ crossed = {} /\ faults = 0 /\ changes = 0

WorkerNext ==
  \/ \E w \in Workers :
       \/ \E o \in Orders : OrderCreated(w, o) \/ OrderDelivered(w, o)
       \/ \E o \in Orders, ov \in BOOLEAN : OrderPaid(w, o, ov)
       \/ Deliver(w) \/ PickCard(w) \/ Connect(w) \/ Disconnect(w)
  \/ \E p \in Workers \cup Hands : ReadCard(p) \/ ChooseCode(p) \/ TakeCode(p)
  \/ \E p \in Workers \cup {Redo} : Send(p) \/ Record(p)
  \/ Die

CommandNext ==
  \/ ConnectRedo \/ Retry
  \/ \E o \in Orders : Redeliver(o) \/ \E st \in {"paid", "delivered"}, ov \in BOOLEAN : Sync(o, st, ov)
  \/ \E c \in Cards : RestockReads(c) \/ SetEnabled(c) \/ DeleteCard(c) \/ \E h \in Hands : Consume(h, c)
  \/ RestockWrites

Next == WorkerNext \/ CommandNext

Spec == Init /\ [][Next]_vars

-----------------------------------------------------------------------------
\* The same code never goes to the buyers of two orders: what consume_card's
\* "atomically take one unused code" and DeliveryService.retry promise.
CodeReachesOneBuyer ==
  \A s, t \in sent : s[2] = t[2] => s[1] = t[1]

\* A code goes to two buyers only through a race of two takers for it: whatever
\* events are repeated, retried or cut short, and whatever is deleted, nothing
\* else hands out a code that was sold.
OnlyRacedCodesReachTwo ==
  \A s, t \in sent : s[2] = t[2] => s[1] = t[1] \/ s[2] \in raced

\* An order takes one code for each OrderPaid handled, and no more: a retry
\* sends what was reserved, it does not take another.
OneCodePerPayment ==
  \A o \in Orders : Cardinality(RowsOf(o)) <= paid[o]

\* The order's delivery content is a code that was handed to the connection for
\* this order, never one whose sending failed.
ContentWasSent ==
  \A o \in Orders : content[o] # NoCode => <<o, content[o]>> \in sent

\* Whatever was sent for an order is on record among its consumptions, so that
\* it can be audited and is not taken again, until an operator deletes the card.
SentIsOnRecord ==
  \A s \in sent : s[1] \in forgot \/ \E i \in RowsOf(s[1]) : cons[i].code = s[2]

\* Consumptions tell what was sold: each is of a payment, and each sale has one.
RowsTellOfSales == OneCodePerPayment /\ SentIsOnRecord

\* The lines of a card that no consumption holds.
FreeLines(c) == Range(cards[c].lines) \ Held(c)

\* The stock of a card counts its free lines: it counts none that is sold, but
\* for a restock that wrote over a sale, and it strands none, but for a code
\* that two takers took.  No death, deletion or failure brings them apart.
StockIsExact ==
  \A c \in Cards : cards[c].live =>
    /\ c \in crossed \/ cards[c].left <= Cardinality(FreeLines(c))
    /\ \/ Range(cards[c].lines) \cap raced # {}
       \/ Cardinality(FreeLines(c)) <= cards[c].left
=============================================================================
