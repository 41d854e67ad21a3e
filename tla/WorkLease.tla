----------------------------- MODULE WorkLease -----------------------------
(***************************************************************************)
(* What the DueQueue contract (runtime/scheduler/due_queue.py) promises of *)
(* each piece of work: every grant of it is a new one, in the hands of one *)
(* runner; an unexpired grant is nobody else's, an expired one becomes     *)
(* available again; and work is handed back or leaves the queue only by    *)
(* the runner that returns the grant the work is under.  A runner whose    *)
(* grant has been given to another in the meantime can but drop it.        *)
(***************************************************************************)
CONSTANTS Runners, Works, Grants, Nobody, NoGrant

VARIABLES
  place,    \* "new", "queued" or "gone"
  holder,   \* who was granted the work last, or Nobody
  grant,    \* that grant, or NoGrant
  live,     \* it has not expired
  inHand    \* per runner and work: the grant the runner is working under, or NoGrant

wvars == <<place, holder, grant, live, inHand>>

Init ==
  /\ place = [w \in Works |-> "new"]
  /\ holder = [w \in Works |-> Nobody]
  /\ grant = [w \in Works |-> NoGrant]
  /\ live = [w \in Works |-> FALSE]
  /\ inHand = [r \in Runners |-> [w \in Works |-> NoGrant]]

Put(w) ==
  /\ place[w] = "new" /\ place' = [place EXCEPT ![w] = "queued"]
  /\ UNCHANGED <<holder, grant, live, inHand>>

\* Several works at once, none of them in anybody's unexpired grant; a new
\* grant is like none that is in use.  One that took too long to record is
\* born expired.
Grant(S, r) ==
  /\ \A w \in S : place[w] = "queued" /\ ~live[w]
  /\ \E new \in [S -> Grants] :
       /\ \A w \in S : new[w] # grant[w] /\ \A x \in Runners : new[w] # inHand[x][w]
       /\ grant' = [w \in Works |-> IF w \in S THEN new[w] ELSE grant[w]]
       /\ inHand' = [inHand EXCEPT ![r] =
                       [w \in Works |-> IF w \in S THEN new[w] ELSE inHand[r][w]]]
  /\ holder' = [w \in Works |-> IF w \in S THEN r ELSE holder[w]]
  /\ \E b \in BOOLEAN : live' = [w \in Works |-> IF w \in S THEN b ELSE live[w]]
  /\ UNCHANGED place

\* Time passes: grants expire.
Lapse(S) ==
  /\ live' = [w \in Works |-> live[w] /\ w \notin S]
  /\ UNCHANGED <<place, holder, grant, inHand>>

\* Expired grants are withdrawn, whoever still works under them.
Withdraw(S) ==
  /\ \A w \in S : ~live[w]
  /\ holder' = [w \in Works |-> IF w \in S THEN Nobody ELSE holder[w]]
  /\ grant' = [w \in Works |-> IF w \in S THEN NoGrant ELSE grant[w]]
  /\ UNCHANGED <<place, live, inHand>>

\* What r has in hand of the works of S is out of its hands.
Lets(r, S) ==
  inHand' = [inHand EXCEPT ![r] =
               [w \in Works |-> IF w \in S THEN NoGrant ELSE inHand[r][w]]]

\* The holder hands the work back, or finishes it: r returns the grant the
\* work is under.
Return(r, w) ==
  /\ holder[w] = r /\ inHand[r][w] = grant[w]
  /\ holder' = [holder EXCEPT ![w] = Nobody] /\ grant' = [grant EXCEPT ![w] = NoGrant]
  /\ live' = [live EXCEPT ![w] = FALSE]
  /\ place' \in {place, [place EXCEPT ![w] = "gone"]}
  /\ Lets(r, {w})

\* A runner gives up, or dies, and the works stay as they are.
Drop(r, S) == Lets(r, S) /\ UNCHANGED <<place, holder, grant, live>>

Next ==
  \/ \E w \in Works : Put(w)
  \/ \E r \in Runners, w \in Works : Return(r, w)
  \/ \E S \in SUBSET Works :
       Lapse(S) \/ Withdraw(S) \/ \E r \in Runners : Grant(S, r) \/ Drop(r, S)

Spec == Init /\ [][Next]_wvars
=============================================================================
