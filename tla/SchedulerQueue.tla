--------------------------- MODULE SchedulerQueue ---------------------------
(***************************************************************************)
(* The Scheduler Kernel: the durable queue with leases of                  *)
(* infrastructure/database/scheduler_queue.py, driven by the runners and   *)
(* loops of runtime/scheduler/, each in a process of its own that may die. *)
(*                                                                         *)
(* Time is relative: avail, until and left count the ticks still to go,    *)
(* and a runner's lag the ticks since it read the clock for the statement  *)
(* it is about to make.  What lies further back than MaxLag is not told    *)
(* apart.  Every method of the queue is one transaction.                   *)
(***************************************************************************)
EXTENDS Integers, FiniteSets

CONSTANTS
  Runners, Works, Tokens,   \* a runner stands for its lease_owner
  Nobody, NoToken,
  Attended,     \* the loops whose process also runs producers and may stop them
  LeaseDuration, RetryDelay,
  BatchSize, Concurrency,
  MaxLag,       \* bound: ticks a statement may lag behind the clock it was given
  MaxFaults     \* bound: transactions that fail, and processes that die

ASSUME QueueAssumption ==
  /\ LeaseDuration \in Nat \ {0} /\ RetryDelay \in Nat \ {0}
  /\ IsFiniteSet(Works)
  /\ BatchSize \in Nat \ {0} /\ Concurrency \in Nat \ {0}
  /\ MaxLag \in Nat /\ MaxFaults \in Nat
  /\ Attended \subseteq Runners /\ Nobody \notin Runners /\ NoToken \notin Tokens

VARIABLES
  fresh,    \* works no producer has enqueued yet
  stored,   \* works with a scheduler_work row
  avail,    \* available_at
  token, owner, until,   \* lease_token, lease_owner, leased_until
  job,      \* per runner and work: the LeasedWork it is executing
  pc,       \* where the runner's loop is
  lag,
  cands,    \* the candidate rows claim_due has selected
  count,    \* claimed in this pass
  wake, stopping,   \* the loop's two events
  unseen,   \* history: a wake-up since the loop last looked at the queue
  faults

leases == <<token, owner, until>>
rows   == <<fresh, stored, avail, leases>>
loop   == <<pc, lag, cands, count, wake, stopping, unseen>>
vars   == <<rows, job, loop, faults>>

NoJob == [ph |-> "none", token |-> NoToken, left |-> 0]

\* Loops whose next statement uses a time already read.
Timed == {"recover", "select", "claim"}

Least(a, b) == IF a < b THEN a ELSE b

-----------------------------------------------------------------------------
(* The rows: scheduler_queue.py.                                           *)

\* The condition shared by the candidate query and the conditional update.
Due(w, at) ==
  /\ w \in stored /\ avail[w] <= -at
  /\ token[w] = NoToken \/ until[w] <= -at

\* The conditional update matches: the lease is still the one handed out.
Owns(r, w) ==
  w \in stored /\ token[w] = job[r][w].token /\ owner[w] = r

Unused == Tokens \ ({token[w] : w \in Works} \cup {job[r][w].token : r \in Runners, w \in Works})

\* One new token for each work of S.
TokensFor(S) == {f \in [S -> Unused] : \A w1, w2 \in S : f[w1] = f[w2] => w1 = w2}

ClearLease(S) ==
  /\ token' = [w \in Works |-> IF w \in S THEN NoToken ELSE token[w]]
  /\ owner' = [w \in Works |-> IF w \in S THEN Nobody ELSE owner[w]]
  /\ until' = [w \in Works |-> IF w \in S THEN 0 ELSE until[w]]

-----------------------------------------------------------------------------
(* SchedulerLoop.run and SchedulerRunner.run_once.                         *)

\* A failed transaction raises through the pass and ends the loop.
LoopFails(r) ==
  /\ pc[r] \in Timed /\ faults < MaxFaults /\ faults' = faults + 1
  /\ pc' = [pc EXCEPT ![r] = "ended"]
  /\ UNCHANGED <<rows, job, lag, cands, count, wake, stopping, unseen>>

\* recover_once, when the loop starts.
Recover(r) ==
  /\ pc[r] = "recover" /\ pc' = [pc EXCEPT ![r] = "top"]
  /\ ClearLease({w \in stored : token[w] # NoToken /\ until[w] <= -lag[r]})
  /\ lag' = [lag EXCEPT ![r] = 0]
  /\ UNCHANGED <<fresh, stored, avail, job, cands, count, wake, stopping, unseen, faults>>

\* The head of the while: a stop ends it, else the wake-up is cleared and a
\* pass begins with a reading of the clock.
Top(r) ==
  /\ pc[r] = "top"
  /\ IF stopping[r]
     THEN pc' = [pc EXCEPT ![r] = "ended"] /\ UNCHANGED wake
     ELSE pc' = [pc EXCEPT ![r] = "select"] /\ wake' = [wake EXCEPT ![r] = FALSE]
  /\ UNCHANGED <<rows, job, lag, cands, count, stopping, unseen, faults>>

Limit(r) == Least(Concurrency, BatchSize - count[r])

\* claim_due reads its candidates, the longest available first, with some to
\* spare for competitors.
Select(r) ==
  /\ pc[r] = "select" /\ pc' = [pc EXCEPT ![r] = "claim"]
  /\ LET due == {w \in Works : Due(w, lag[r])} IN
     \E S \in SUBSET due :
       /\ Cardinality(S) = Least(4 * Limit(r), Cardinality(due))
       /\ \A w \in S, x \in due \ S : avail[w] <= avail[x]
       /\ cands' = [cands EXCEPT ![r] = S]
  /\ unseen' = [unseen EXCEPT ![r] = FALSE]
  /\ UNCHANGED <<rows, job, lag, count, wake, stopping, faults>>

\* A new token, the owner and the expiry go to as many of the due rows as the
\* limit allows, and the runner starts a handler for each.  A short claim is
\* the pass's last.
ClaimFrom(r, due) ==
  /\ \E S \in SUBSET due :
       /\ Cardinality(S) = Least(Limit(r), Cardinality(due))
       /\ \A w \in S, x \in due \ S : avail[w] <= avail[x]
       /\ TokensFor(S) # {}
       /\ LET new == CHOOSE f \in TokensFor(S) : TRUE IN
          /\ token' = [w \in Works |-> IF w \in S THEN new[w] ELSE token[w]]
          /\ owner' = [w \in Works |-> IF w \in S THEN r ELSE owner[w]]
          /\ until' = [w \in Works |-> IF w \in S THEN LeaseDuration - lag[r] ELSE until[w]]
          /\ job' = [job EXCEPT ![r] = [w \in Works |->
                       IF w \in S
                       THEN [ph |-> "run", token |-> new[w], left |-> LeaseDuration - lag[r]]
                       ELSE job[r][w]]]
       /\ count' = [count EXCEPT ![r] = @ + Cardinality(S)]
       /\ pc' = [pc EXCEPT ![r] = IF Cardinality(S) < Limit(r) THEN "last" ELSE "gather"]
  /\ cands' = [cands EXCEPT ![r] = {}] /\ lag' = [lag EXCEPT ![r] = 0]
  /\ UNCHANGED <<fresh, stored, avail, wake, stopping, unseen, faults>>

\* Slip: a row that was ever leased is not due again.
ClaimUnleasedOnly(r) ==
  pc[r] = "claim" /\ ClaimFrom(r, {w \in cands[r] : Due(w, lag[r]) /\ token[w] = NoToken})

\* The conditional updates: the candidates that are still due are leased.
Claim(r) == pc[r] = "claim" /\ ClaimFrom(r, {w \in cands[r] : Due(w, lag[r])})

\* Slip: the wake-up is cleared when the pass ends.
GatherDoneClearsWake(r) ==
  /\ pc[r] \in {"gather", "last"} /\ \A w \in Works : job[r][w].ph = "none"
  /\ IF pc[r] = "gather" /\ count[r] < BatchSize
     THEN pc' = [pc EXCEPT ![r] = "select"] /\ UNCHANGED <<count, wake>>
     ELSE /\ pc' = [pc EXCEPT ![r] = IF stopping[r] THEN "ended"
                                     ELSE IF count[r] > 0 THEN "top" ELSE "idle"]
          /\ count' = [count EXCEPT ![r] = 0] /\ wake' = [wake EXCEPT ![r] = FALSE]
  /\ UNCHANGED <<rows, job, lag, cands, stopping, unseen, faults>>

\* Every handler of the claim has ended: claim again, or end the pass -- to
\* stop, to begin another at once, or to wait.
GatherDone(r) ==
  /\ pc[r] \in {"gather", "last"} /\ \A w \in Works : job[r][w].ph = "none"
  /\ IF pc[r] = "gather" /\ count[r] < BatchSize
     THEN pc' = [pc EXCEPT ![r] = "select"] /\ UNCHANGED count
     ELSE /\ pc' = [pc EXCEPT ![r] = IF stopping[r] THEN "ended"
                                     ELSE IF count[r] > 0 THEN "top" ELSE "idle"]
          /\ count' = [count EXCEPT ![r] = 0]
  /\ UNCHANGED <<rows, job, lag, cands, wake, stopping, unseen, faults>>

\* The idle wait ends with a wake-up or by its time-out.
Idle(r) ==
  /\ pc[r] = "idle" /\ pc' = [pc EXCEPT ![r] = "top"]
  /\ UNCHANGED <<rows, job, lag, cands, count, wake, stopping, unseen, faults>>

-----------------------------------------------------------------------------
(* _execute: one handler, then complete() or release().                    *)

HandlerEnds(r, w) ==
  /\ job[r][w].ph = "run"
  /\ \E how \in {"ok", "raised"} : job' = [job EXCEPT ![r][w] = [@ EXCEPT !.ph = how]]
  /\ UNCHANGED <<rows, loop, faults>>

\* Slip: the work's id is enough to remove it.
CompleteById(r, w) ==
  /\ job[r][w].ph = "ok" /\ job' = [job EXCEPT ![r][w] = NoJob]
  /\ stored' = stored \ {w} /\ ClearLease({w})
  /\ UNCHANGED <<fresh, avail, loop, faults>>

\* The runner still holds the lease of its job, or the transaction does nothing
\* and the outcome is stale.
Complete(r, w) ==
  /\ job[r][w].ph = "ok" /\ job' = [job EXCEPT ![r][w] = NoJob]
  /\ IF Owns(r, w)
     THEN stored' = stored \ {w} /\ ClearLease({w})
     ELSE UNCHANGED <<stored, leases>>
  /\ UNCHANGED <<fresh, avail, loop, faults>>

\* The same condition; the next attempt is due a delay after the clock reading,
\* which the transaction may lag behind.
Release(r, w) ==
  /\ job[r][w].ph = "raised" /\ job' = [job EXCEPT ![r][w] = NoJob]
  /\ IF Owns(r, w)
     THEN /\ \E d \in 0..MaxLag : avail' = [avail EXCEPT ![w] = RetryDelay - d]
          /\ ClearLease({w})
     ELSE UNCHANGED <<avail, leases>>
  /\ UNCHANGED <<fresh, stored, loop, faults>>

\* The closing transaction fails: the lease stays, and the gather that waits
\* for the handlers raises at once, whatever the others are doing.
JobFails(r, w) ==
  /\ job[r][w].ph \in {"ok", "raised"} /\ faults < MaxFaults /\ faults' = faults + 1
  /\ job' = [job EXCEPT ![r][w] = NoJob] /\ pc' = [pc EXCEPT ![r] = "ended"]
  /\ UNCHANGED <<rows, lag, cands, count, wake, stopping, unseen>>

-----------------------------------------------------------------------------
(* Around the loops.                                                       *)

\* A producer stores work, due now or later.
Enqueue(w) ==
  /\ w \in fresh /\ fresh' = fresh \ {w} /\ stored' = stored \cup {w}
  /\ \E d \in {0, RetryDelay} : avail' = [avail EXCEPT ![w] = d]
  /\ UNCHANGED <<leases, job, loop, faults>>

\* wake(), after a producer of this process has stored work.
Wake(r) ==
  /\ pc[r] # "ended" /\ wake' = [wake EXCEPT ![r] = TRUE]
  /\ unseen' = [unseen EXCEPT ![r] = TRUE]
  /\ UNCHANGED <<rows, job, pc, lag, cands, count, stopping, faults>>

Stop(r) ==
  /\ stopping' = [stopping EXCEPT ![r] = TRUE] /\ wake' = [wake EXCEPT ![r] = TRUE]
  /\ UNCHANGED <<rows, job, pc, lag, cands, count, unseen, faults>>

\* The process dies with its handlers; another one takes its place.
Restart(r) ==
  /\ faults < MaxFaults /\ faults' = faults + 1
  /\ job' = [job EXCEPT ![r] = [w \in Works |-> NoJob]]
  /\ pc' = [pc EXCEPT ![r] = "recover"] /\ lag' = [lag EXCEPT ![r] = 0]
  /\ cands' = [cands EXCEPT ![r] = {}] /\ count' = [count EXCEPT ![r] = 0]
  /\ wake' = [wake EXCEPT ![r] = FALSE] /\ stopping' = [stopping EXCEPT ![r] = FALSE]
  /\ unseen' = [unseen EXCEPT ![r] = FALSE]
  /\ UNCHANGED rows

Ago(n) == IF n > -MaxLag THEN n - 1 ELSE n

\* The clock moves on; a statement already given its time is not delayed for
\* ever.
Tick ==
  /\ \A r \in Runners : pc[r] \in Timed => lag[r] < MaxLag
  /\ avail' = [w \in Works |-> IF w \in stored THEN Ago(avail[w]) ELSE avail[w]]
  /\ until' = [w \in Works |-> IF token[w] # NoToken THEN Ago(until[w]) ELSE until[w]]
  /\ job' = [r \in Runners |-> [w \in Works |->
               [job[r][w] EXCEPT !.left = IF job[r][w].ph = "none" THEN 0 ELSE Ago(@)]]]
  /\ lag' = [r \in Runners |-> IF pc[r] \in Timed THEN lag[r] + 1 ELSE lag[r]]
  /\ UNCHANGED <<fresh, stored, token, owner, pc, cands, count, wake, stopping, unseen, faults>>

Init ==
  /\ fresh = Works /\ stored = {}
  /\ avail = [w \in Works |-> 0]
  /\ token = [w \in Works |-> NoToken] /\ owner = [w \in Works |-> Nobody]
  /\ until = [w \in Works |-> 0]
  /\ job = [r \in Runners |-> [w \in Works |-> NoJob]]
  /\ pc = [r \in Runners |-> "recover"] /\ lag = [r \in Runners |-> 0]
  /\ cands = [r \in Runners |-> {}] /\ count = [r \in Runners |-> 0]
  /\ wake = [r \in Runners |-> FALSE] /\ stopping = [r \in Runners |-> FALSE]
  /\ unseen = [r \in Runners |-> FALSE]
  /\ faults = 0

LoopStep(r) == Recover(r) \/ Top(r) \/ Select(r) \/ Claim(r) \/ GatherDone(r) \/ Idle(r)

JobStep(r, w) == HandlerEnds(r, w) \/ Complete(r, w) \/ Release(r, w)

Next ==
  \/ \E r \in Runners : LoopStep(r) \/ LoopFails(r) \/ Restart(r)
  \/ \E r \in Attended : Wake(r) \/ Stop(r)
  \/ \E r \in Runners, w \in Works : JobStep(r, w) \/ JobFails(r, w)
  \/ \E w \in Works : Enqueue(w)
  \/ Tick

Spec == Init /\ [][Next]_vars

\* Every event loop runs, handlers end, and the clock moves; nobody has to
\* enqueue, wake, stop or restart anything.
FairSpec ==
  /\ Spec
  /\ \A r \in Runners : WF_vars(LoopStep(r))
  /\ \A r \in Runners, w \in Works : WF_vars(JobStep(r, w))
  /\ WF_vars(Tick)

-----------------------------------------------------------------------------
(* Properties.                                                             *)

Jobs == [ph : {"none", "run", "ok", "raised"}, token : Tokens \cup {NoToken}, left : Int]

\* Types, and the form of a row that _to_lease relies on: the lease fields of a
\* row are set and cleared together.
QueueTypeOK ==
  /\ fresh \subseteq Works /\ stored \subseteq Works
  /\ avail \in [Works -> Int] /\ until \in [Works -> Int]
  /\ token \in [Works -> Tokens \cup {NoToken}] /\ owner \in [Works -> Runners \cup {Nobody}]
  /\ job \in [Runners -> [Works -> Jobs]]
  /\ pc \in [Runners -> {"top", "gather", "last", "idle", "ended"} \cup Timed]
  /\ lag \in [Runners -> 0..MaxLag] /\ cands \in [Runners -> SUBSET Works]
  /\ count \in [Runners -> 0..BatchSize]
  /\ wake \in [Runners -> BOOLEAN] /\ stopping \in [Runners -> BOOLEAN]
  /\ unseen \in [Runners -> BOOLEAN] /\ faults \in 0..MaxFaults
  /\ \A w \in Works : token[w] = NoToken <=> owner[w] = Nobody

\* Two runners never execute the same work in unexpired leases of it, however
\* late the clock reading was that either claimed with, and whatever was
\* released, completed too late or recovered in between.
ExclusiveLease ==
  \A w \in Works, r1, r2 \in Runners :
    job[r1][w].ph # "none" /\ job[r1][w].left > 0 /\ job[r2][w].ph # "none" /\ job[r2][w].left > 0
      => r1 = r2

\* Where a work is, and whether its row is leased out and not expired.
Place == [w \in Works |-> IF w \in fresh THEN "new"
                          ELSE IF w \in stored THEN "queued" ELSE "gone"]
Live  == [w \in Works |-> token[w] # NoToken /\ until[w] > 0]

\* The lease each runner believes it works under.
InHand == [r \in Runners |-> [w \in Works |-> job[r][w].token]]

W == INSTANCE WorkLease WITH Grants <- Tokens, NoGrant <- NoToken, place <- Place,
       holder <- owner, grant <- token, live <- Live, inHand <- InHand

\* The queue keeps the DueQueue contract: an unexpired lease is granted to
\* nobody else, and a work is removed or handed back only by the runner that
\* holds its current lease.  One whose lease has been recovered, or granted to
\* another, changes nothing of the work with its late completion or release.
LeaseSpec == W!Spec

\* A loop that waits without a pending wake-up has looked at the queue since
\* it was last woken: work stored before a wake() is not left to the poll.
WakeIsSeen == \A r \in Runners : pc[r] = "idle" /\ ~wake[r] => ~unseen[r]

\* Stored work is attempted again and again until it is completed, also when
\* the runner that had it died, as long as some loop is left.
WorkIsAttempted ==
  \A w \in Works :
    w \in stored ~> \/ w \notin stored
                    \/ \E r \in Runners : job[r][w].ph # "none"
                    \/ \A r \in Runners : pc[r] = "ended"
=============================================================================
