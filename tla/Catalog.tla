------------------------------- MODULE Catalog -------------------------------
(***************************************************************************)
(* The mirrors of an account's items on sale and of its sold orders:       *)
(* `item sync` and `order sync` fetch the platform's list page by page     *)
(* (protocol/mtop/endpoints/items.py, orders.py) and apply what they have  *)
(* fetched (domain/item/items.py, domain/order/orders.py).                 *)
(*                                                                         *)
(* The list goes on changing while it is fetched: what is new comes in     *)
(* front, an item sold or withdrawn leaves the shelf, an order is never    *)
(* taken off.  Several commands may run at once, none takes a lock.        *)
(* Applying reads the rows, and then writes in one transaction: of a row   *)
(* that it had read, the columns that differ from what it read.  Of the    *)
(* columns, the model keeps whether an item is on sale and the status of  *)
(* an order.                                                               *)
(***************************************************************************)
EXTENDS Naturals, Sequences, FiniteSets, SequencesExt, Functions

CONSTANTS
  Goods, Sales,   \* ids of items, and of orders
  Malformed,      \* those whose card or entry is not understood
  Syncs,          \* the commands' processes
  PageSize,       \* --page-size
  MaxPages,       \* --max-pages
  MaxRuns,        \* bound: commands
  MaxEdits,       \* bound: changes of the platform's lists
  MaxFailures     \* bound: requests that fail, deaths, and the account's deletion

ASSUME CatalogAssumption ==
  /\ Goods \cap Sales = {} /\ IsFiniteSet(Goods \cup Sales) /\ Malformed \subseteq Goods \cup Sales
  /\ PageSize \in Nat \ {0} /\ MaxPages \in Nat \ {0}
  /\ MaxRuns \in Nat /\ MaxEdits \in Nat /\ MaxFailures \in Nat

VARIABLES
  list,      \* of the platform: per kind, what it lists, in its order
  unseen,    \* the orders that the platform has not yet seen delivered
  mirror,    \* of each id, what its row says, "none" without one
  registered, \* the account has not been deleted
  session,   \* the account's cookie: none, without a user id, without an mtop token, or whole
  sync,      \* what each process is in the middle of
  kept,      \* history: what was listed since each process's first request
  moved,     \* history: whether its list has lost, or changed, anything since
  runs, edits, failures

platform    == <<list, unseen>>
local       == <<mirror, registered, session>>
watched     == <<kept, moved>>
catalogVars == <<platform, local, sync, watched, runs, edits, failures>>

Kinds  == {"items", "orders"}
Ids(k) == IF k = "items" THEN Goods ELSE Sales
NoSync == [pc |-> "idle"]

SyncAt(p, pc)  == sync[p].pc = pc
SyncGoes(p, j) == sync' = [sync EXCEPT ![p] = j]
Busy(k)        == {p \in Syncs : ~SyncAt(p, "idle") /\ sync[p].kind = k}

-----------------------------------------------------------------------------
(* The platform.                                                           *)

\* What the entry of an id says.
Says(id) == IF id \in Goods THEN "on" ELSE IF id \in unseen THEN "paid" ELSE "delivered"

Edit == edits < MaxEdits /\ edits' = edits + 1

Lost(k)    == moved' = [p \in Syncs |-> IF p \in Busy(k) THEN [moved[p] EXCEPT !.lost = TRUE, !.changed = TRUE] ELSE moved[p]]
Changed(k) == moved' = [p \in Syncs |-> IF p \in Busy(k) THEN [moved[p] EXCEPT !.changed = TRUE] ELSE moved[p]]

\* A new item, or a new order.
Appears(k, id) ==
  /\ Edit /\ id \in Ids(k) \ Range(list[k])
  /\ list' = [list EXCEPT ![k] = <<id>> \o @] /\ Changed(k)
  /\ unseen' = IF k = "orders" THEN unseen \cup {id} ELSE unseen
  /\ UNCHANGED <<local, sync, kept, runs, failures>>

\* An item is sold, or withdrawn.
Leaves(g) ==
  /\ Edit /\ g \in Range(list["items"])
  /\ \E i \in DOMAIN list["items"] :
       list["items"][i] = g /\ list' = [list EXCEPT !["items"] = RemoveAt(@, i)]
  /\ kept' = [p \in Syncs |-> kept[p] \ {g}] /\ Lost("items")
  /\ UNCHANGED <<unseen, local, sync, runs, failures>>

IsDelivered(o) ==
  /\ Edit /\ o \in unseen /\ unseen' = unseen \ {o} /\ Changed("orders")
  /\ UNCHANGED <<list, local, sync, kept, runs, failures>>

-----------------------------------------------------------------------------
(* Fetching: fetch_all_on_sale and fetch_all_sold.                         *)

BeginSync(p, k) ==
  /\ SyncAt(p, "idle") /\ runs < MaxRuns /\ runs' = runs + 1
  /\ SyncGoes(p, [pc |-> "page", kind |-> k, page |-> 1, got |-> <<>>])
  /\ kept' = [kept EXCEPT ![p] = Range(list[k])]
  /\ moved' = [moved EXCEPT ![p] = [lost |-> FALSE, changed |-> FALSE, alone |-> TRUE]]
  /\ UNCHANGED <<platform, local, edits, failures>>

\* What the platform answers.
Page(k, n) ==
  LET end == IF n * PageSize < Len(list[k]) THEN n * PageSize ELSE Len(list[k])
  IN SubSeq(list[k], (n - 1) * PageSize + 1, end)

\* _parse_card and _parse_sold_order_item leave out what they do not understand.
CardsOn(n)   == [id \in Range(Page("items", n)) \ Malformed |-> "on"]
EntriesOn(n) == [id \in Range(Page("orders", n)) \ Malformed |-> Says(id)]

Parsed(k, n) == IF k = "items" THEN CardsOn(n) ELSE EntriesOn(n)

\* Slip: what is understood is counted, and not the cards.
ItemsEndUnderstood(n) == Cardinality(DOMAIN CardsOn(n)) < PageSize

\* The last page has fewer cards than were asked for; of orders the platform says
\* which is the last.  An answer without a list of cards counts as an empty page;
\* the platform is taken to give it for one only.
ItemsEnd(n)  == Len(Page("items", n)) < PageSize
OrdersEnd(n) == n * PageSize >= Len(list["orders"])

IsLast(k, n) == IF k = "items" THEN ItemsEnd(n) ELSE OrdersEnd(n)

\* Of an id that is listed twice the later entry counts.
Over(new, old) ==
  [id \in DOMAIN new \cup DOMAIN old |-> IF id \in DOMAIN new THEN new[id] ELSE old[id]]

\* A page has come.  A list of more than MaxPages pages is not applied at all.
PageCame(p) ==
  LET k   == sync[p].kind
      n   == sync[p].page
      got == Over(Parsed(k, n), sync[p].got)
  IN SyncGoes(p, IF IsLast(k, n) THEN [pc |-> "apply", kind |-> k, got |-> got]
             ELSE IF n = MaxPages THEN NoSync
             ELSE [pc |-> "page", kind |-> k, page |-> n + 1, got |-> got])

ItemAuth  == session \notin {"none", "anonymous"}
OrderAuth == session # "none"
Auth(k)   == IF k = "items" THEN ItemAuth ELSE OrderAuth

\* The cookie is loaded for each page; with a token in it, one request is sent.
FetchPage(p) ==
  /\ SyncAt(p, "page")
  /\ IF ~Auth(sync[p].kind) THEN SyncGoes(p, NoSync) ELSE session = "whole" /\ PageCame(p)
  /\ UNCHANGED <<platform, local, watched, runs, edits, failures>>

\* Without a token one is asked for: the answer brings a token, or is the page.
BootstrapList(p) ==
  /\ SyncAt(p, "page") /\ Auth(sync[p].kind) /\ session # "whole"
  /\ SyncGoes(p, [sync[p] EXCEPT !.pc = "signed"]) \/ PageCame(p)
  /\ UNCHANGED <<platform, local, watched, runs, edits, failures>>

\* The request again, with the token, which is not stored.
Signed(p) ==
  /\ SyncAt(p, "signed") /\ PageCame(p)
  /\ UNCHANGED <<platform, local, watched, runs, edits, failures>>

\* No connection, no token, an answer that is not a success or not a list; or the
\* process dies, here or later.  Nothing is written.
Fail(p) ==
  /\ ~SyncAt(p, "idle") /\ failures < MaxFailures /\ failures' = failures + 1 /\ SyncGoes(p, NoSync)
  /\ UNCHANGED <<platform, local, watched, runs, edits>>

-----------------------------------------------------------------------------
(* Applying: apply_on_sale_snapshot and apply_sold_orders_snapshot.        *)

\* Without an account, or without any order, that is all.
ReadRows(p) ==
  /\ SyncAt(p, "apply")
  /\ LET k == sync[p].kind
         g == sync[p].got
     IN SyncGoes(p, IF ~registered \/ (k = "orders" /\ DOMAIN g = {}) THEN NoSync
                ELSE [pc |-> "write", kind |-> k, got |-> g,
                      rows |-> [id \in Ids(k) |-> mirror[id]]])
  /\ moved' = [moved EXCEPT ![p].alone = TRUE]
  /\ UNCHANGED <<platform, local, kept, runs, edits, failures>>

\* A row that is new to this process must not have come meanwhile, and the
\* account must still be there: else the whole is rolled back.
Applies(k, got, rows) == registered /\ \A id \in DOMAIN got : rows[id] = "none" => mirror[id] = "none"

\* Slip: what is not listed any more is left as it is.
AppliedForever(id, k, got, rows) ==
  IF id \in DOMAIN got /\ got[id] # rows[id] THEN got[id] ELSE mirror[id]

\* The row of id: new, or changed where it differs from what was read; an item
\* that was not fetched is no longer on sale.
Applied(id, k, got, rows) ==
  IF id \in DOMAIN got THEN IF got[id] # rows[id] THEN got[id] ELSE mirror[id]
  ELSE IF k = "items" /\ mirror[id] = "on" THEN "off" ELSE mirror[id]

Write(p) ==
  /\ SyncAt(p, "write") /\ SyncGoes(p, NoSync)
  /\ LET k == sync[p].kind
         g == sync[p].got
         r == sync[p].rows
     IN IF Applies(k, g, r)
        THEN /\ mirror' = [id \in DOMAIN mirror |->
                             IF id \in Ids(k) THEN Applied(id, k, g, r) ELSE mirror[id]]
             /\ moved' = [q \in Syncs |-> IF q \in Busy(k) \ {p} THEN [moved[q] EXCEPT !.alone = FALSE]
                                          ELSE moved[q]]
        ELSE UNCHANGED <<mirror, moved>>
  /\ UNCHANGED <<platform, registered, session, kept, runs, edits, failures>>

\* The rows go with their account.
DropAccount ==
  /\ registered /\ failures < MaxFailures /\ failures' = failures + 1
  /\ registered' = FALSE /\ mirror' = [id \in DOMAIN mirror |-> "none"]
  /\ UNCHANGED <<platform, session, sync, watched, runs, edits>>

-----------------------------------------------------------------------------
CatalogInit ==
  /\ \E S \in SUBSET Goods, O \in SUBSET Sales :
       list = [k \in Kinds |-> SetToSeq(IF k = "items" THEN S ELSE O)] /\ unseen = O
  /\ mirror = [id \in Goods \cup Sales |-> "none"] /\ registered = TRUE
  /\ session \in {"none", "anonymous", "tokenless", "whole"}
  /\ sync = [p \in Syncs |-> NoSync] /\ kept = [p \in Syncs |-> {}]
  /\ moved = [p \in Syncs |-> [lost |-> FALSE, changed |-> FALSE, alone |-> TRUE]]
  /\ runs = 0 /\ edits = 0 /\ failures = 0

SyncStep(p) ==
  \/ \E k \in Kinds : BeginSync(p, k)
  \/ FetchPage(p) \/ BootstrapList(p) \/ Signed(p) \/ ReadRows(p) \/ Write(p) \/ Fail(p)

PlatformNext ==
  \/ \E k \in Kinds : \E id \in Ids(k) : Appears(k, id)
  \/ \E g \in Goods : Leaves(g)
  \/ \E o \in Sales : IsDelivered(o)

CatalogNext == PlatformNext \/ DropAccount \/ \E p \in Syncs : SyncStep(p)

CatalogSpec == CatalogInit /\ [][CatalogNext]_catalogVars

-----------------------------------------------------------------------------
(* Properties.                                                             *)

\* What is applied is complete, whatever comes in while it is fetched: what was
\* listed all the time is in it, unless it is not understood or something before
\* it left the list.  So nothing else goes off sale while it is on the shelf.
SnapshotIsComplete ==
  \A p \in Syncs : sync[p].pc \in {"apply", "write"} =>
    moved[p].lost \/ kept[p] \ Malformed \subseteq DOMAIN sync[p].got

\* A sync whose list has stayed as it was and beside whose transaction no other
\* has written leaves the mirror as the list: what is on sale, and the orders'
\* statuses.
LeavesMirror(p) ==
  LET k == sync[p].kind IN
  /\ SyncAt(p, "write") /\ SyncGoes(p, NoSync) /\ failures' = failures
  /\ Applies(k, sync[p].got, sync[p].rows) /\ ~moved[p].changed /\ moved[p].alone
  =>
    /\ \A id \in Range(list[k]) \ Malformed : mirror'[id] = Says(id)
    /\ k = "items" => \A id \in Goods \ Range(list[k]) : mirror'[id] # "on"

LoneSyncMirrors == [][\A p \in Syncs : LeavesMirror(p)]_catalogVars
=============================================================================
