---------------------------- MODULE QueueProofs ----------------------------
(***************************************************************************)
(* The two durable stores of background work: the Scheduler Kernel's queue *)
(* and, after it, the outbox.                                              *)
(*                                                                         *)
(* The queue, for any number of runners, works and faults: two runners     *)
(* never hold one work in unexpired leases, and the queue implements       *)
(* WorkLease.                                                              *)
(*                                                                         *)
(* The argument: what a runner believes of an unexpired lease is what the  *)
(* row says (Believed).  A row has one owner, so two runners cannot both   *)
(* be right; every statement that takes a row away from its owner requires *)
(* that the lease has run out, or the very token the runner holds.         *)
(***************************************************************************)
EXTENDS SchedulerQueue, Outbox, FiniteSetTheorems, TLAPS

\* Work is not both with its producer and in the queue.
OnceStored == fresh \cap stored = {}

Holds(r, w) == job[r][w].ph # "none" /\ job[r][w].left > 0

\* A runner in an unexpired lease is the row's owner, under the row's token,
\* until the time the row says.
Believed ==
  \A r \in Runners, w \in Works :
    Holds(r, w) => /\ w \in stored /\ owner[w] = r /\ until[w] = job[r][w].left
                   /\ token[w] = job[r][w].token

QInv == QueueTypeOK /\ OnceStored /\ Believed

-----------------------------------------------------------------------------
(* What the parts of the actions do.                                       *)

\* Clearing leases keeps the lease fields typed and together.
LEMMA ClearLeaseType ==
  ASSUME QueueTypeOK, NEW S \in SUBSET Works, ClearLease(S)
  PROVE  /\ token' \in [Works -> Tokens \cup {NoToken}]
         /\ owner' \in [Works -> Runners \cup {Nobody}]
         /\ until' \in [Works -> Int]
         /\ \A w \in Works : token'[w] = NoToken <=> owner'[w] = Nobody
BY DEF QueueTypeOK, ClearLease

\* A claim hands tokens nobody uses, the owner and one expiry to a set of rows,
\* each of them stored and without an unexpired lease; the batch size is
\* respected.
LEMMA ClaimEffect ==
  ASSUME QueueTypeOK, NEW r \in Runners, Claim(r)
  PROVE  \E S \in SUBSET Works :
           /\ \A w \in S : w \in stored /\ (token[w] = NoToken \/ until[w] <= 0)
           /\ \E new \in [S -> Tokens] :
                /\ \A w \in S : new[w] \in Unused
                /\ token' = [w \in Works |-> IF w \in S THEN new[w] ELSE token[w]]
                /\ owner' = [w \in Works |-> IF w \in S THEN r ELSE owner[w]]
                /\ until' = [w \in Works |-> IF w \in S THEN LeaseDuration - lag[r] ELSE until[w]]
                /\ job' = [job EXCEPT ![r] = [w \in Works |->
                             IF w \in S
                             THEN [ph |-> "run", token |-> new[w], left |-> LeaseDuration - lag[r]]
                             ELSE job[r][w]]]
           /\ count' \in [Runners -> 0..BatchSize]
           /\ pc' \in [Runners -> {"top", "gather", "last", "idle", "ended"} \cup Timed]
           /\ cands' \in [Runners -> SUBSET Works] /\ lag' \in [Runners -> 0..MaxLag]
           /\ UNCHANGED <<fresh, stored, avail, wake, stopping, unseen, faults>>
<1> USE QueueAssumption
<1> DEFINE due == {w \in cands[r] : Due(w, lag[r])}
<1>1. /\ due \in SUBSET Works /\ lag[r] \in Nat
      /\ \A w \in due : w \in stored /\ (token[w] = NoToken \/ until[w] <= 0)
  BY DEF QueueTypeOK, Due
<1>2. PICK S \in SUBSET due :
        /\ Cardinality(S) = Least(Limit(r), Cardinality(due))
        /\ TokensFor(S) # {}
        /\ LET new == CHOOSE f \in TokensFor(S) : TRUE IN
          /\ token' = [w \in Works |-> IF w \in S THEN new[w] ELSE token[w]]
          /\ owner' = [w \in Works |-> IF w \in S THEN r ELSE owner[w]]
          /\ until' = [w \in Works |-> IF w \in S THEN LeaseDuration - lag[r] ELSE until[w]]
          /\ job' = [job EXCEPT ![r] = [w \in Works |->
                       IF w \in S
                       THEN [ph |-> "run", token |-> new[w], left |-> LeaseDuration - lag[r]]
                       ELSE job[r][w]]]
       /\ count' = [count EXCEPT ![r] = @ + Cardinality(S)]
       /\ pc' = [pc EXCEPT ![r] = IF Cardinality(S) < Limit(r) THEN "last" ELSE "gather"]
  BY DEF Claim, ClaimFrom
<1> DEFINE new == CHOOSE f \in TokensFor(S) : TRUE
<1>3. new \in [S -> Tokens] /\ \A w \in S : new[w] \in Unused
  <2>1. new \in TokensFor(S)
    BY <1>2
  <2>2. \A f \in TokensFor(S) : f \in [S -> Unused]
    BY DEF TokensFor
  <2>3. Unused \subseteq Tokens
    BY DEF Unused
  <2> HIDE DEF new
  <2> QED BY <2>1, <2>2, <2>3
<1>4. IsFiniteSet(S) /\ IsFiniteSet(due)
  BY <1>1, FS_Subset
<1>5. Cardinality(S) \in Nat /\ Cardinality(due) \in Nat
  BY <1>4, FS_CardinalityType
<1>6. count[r] \in 0..BatchSize
  BY DEF QueueTypeOK
<1>7. Cardinality(S) <= BatchSize - count[r]
  BY <1>2, <1>5, <1>6 DEF Limit, Least
<1>8. count' \in [Runners -> 0..BatchSize]
  BY <1>2, <1>5, <1>6, <1>7 DEF QueueTypeOK
<1>9. pc' \in [Runners -> {"top", "gather", "last", "idle", "ended"} \cup Timed]
  BY <1>2 DEF QueueTypeOK
<1>10. /\ cands' \in [Runners -> SUBSET Works] /\ lag' \in [Runners -> 0..MaxLag]
       /\ UNCHANGED <<fresh, stored, avail, wake, stopping, unseen, faults>>
  BY DEF Claim, ClaimFrom, QueueTypeOK
<1> HIDE DEF due, new
<1>11. S \in SUBSET Works
  BY <1>1
<1>12. \A w \in S : w \in stored /\ (token[w] = NoToken \/ until[w] <= 0)
  BY <1>1
<1>13. /\ token' = [w \in Works |-> IF w \in S THEN new[w] ELSE token[w]]
       /\ owner' = [w \in Works |-> IF w \in S THEN r ELSE owner[w]]
       /\ until' = [w \in Works |-> IF w \in S THEN LeaseDuration - lag[r] ELSE until[w]]
       /\ job' = [job EXCEPT ![r] = [w \in Works |->
                    IF w \in S
                    THEN [ph |-> "run", token |-> new[w], left |-> LeaseDuration - lag[r]]
                    ELSE job[r][w]]]
  BY <1>2 DEF new
<1> QED BY <1>3, <1>8, <1>9, <1>10, <1>11, <1>12, <1>13, Zenon

-----------------------------------------------------------------------------
(* The type invariant.                                                     *)

\* The queue starts empty, and nobody has a job.
LEMMA QueueTypeInit == Init => QueueTypeOK /\ OnceStored /\ Believed
BY QueueAssumption
DEF Init, QueueTypeOK, OnceStored, Believed, Holds, Jobs, NoJob, Timed

\* A loop's own steps keep the types.
LEMMA LoopType ==
  ASSUME QueueTypeOK, OnceStored, NEW r \in Runners,
         LoopStep(r) \/ LoopFails(r) \/ Restart(r) \/ Wake(r) \/ Stop(r)
  PROVE  QueueTypeOK' /\ OnceStored'
<1> USE QueueAssumption
<1>1. CASE Recover(r)
  <2> DEFINE S == {w \in stored : token[w] # NoToken /\ until[w] <= -lag[r]}
  <2>1. S \in SUBSET Works /\ ClearLease(S)
    BY <1>1 DEF Recover, QueueTypeOK
  <2>2. /\ token' \in [Works -> Tokens \cup {NoToken}]
        /\ owner' \in [Works -> Runners \cup {Nobody}] /\ until' \in [Works -> Int]
        /\ \A w \in Works : token'[w] = NoToken <=> owner'[w] = Nobody
    BY <2>1, ClearLeaseType
  <2> QED BY <1>1, <2>2 DEF Recover, QueueTypeOK, OnceStored, Timed
<1>2. CASE Top(r)
  BY <1>2 DEF Top, QueueTypeOK, OnceStored, rows, leases, Timed
<1>3. CASE Select(r)
  <2>1. cands' \in [Runners -> SUBSET Works]
    BY <1>3 DEF Select, QueueTypeOK
  <2> QED BY <1>3, <2>1 DEF Select, QueueTypeOK, OnceStored, rows, leases, Timed
<1>4. CASE Claim(r)
  <2>1. PICK S \in SUBSET Works :
          /\ \E new \in [S -> Tokens] :
               /\ \A w \in S : new[w] \in Unused
               /\ token' = [w \in Works |-> IF w \in S THEN new[w] ELSE token[w]]
               /\ owner' = [w \in Works |-> IF w \in S THEN r ELSE owner[w]]
               /\ until' = [w \in Works |-> IF w \in S THEN LeaseDuration - lag[r] ELSE until[w]]
               /\ job' = [job EXCEPT ![r] = [w \in Works |->
                            IF w \in S
                            THEN [ph |-> "run", token |-> new[w], left |-> LeaseDuration - lag[r]]
                            ELSE job[r][w]]]
          /\ count' \in [Runners -> 0..BatchSize]
          /\ pc' \in [Runners -> {"top", "gather", "last", "idle", "ended"} \cup Timed]
          /\ cands' \in [Runners -> SUBSET Works] /\ lag' \in [Runners -> 0..MaxLag]
          /\ UNCHANGED <<fresh, stored, avail, wake, stopping, unseen, faults>>
    BY <1>4, ClaimEffect
  <2>2. PICK new \in [S -> Tokens] :
          /\ token' = [w \in Works |-> IF w \in S THEN new[w] ELSE token[w]]
          /\ owner' = [w \in Works |-> IF w \in S THEN r ELSE owner[w]]
          /\ until' = [w \in Works |-> IF w \in S THEN LeaseDuration - lag[r] ELSE until[w]]
          /\ job' = [job EXCEPT ![r] = [w \in Works |->
                       IF w \in S
                       THEN [ph |-> "run", token |-> new[w], left |-> LeaseDuration - lag[r]]
                       ELSE job[r][w]]]
    BY <2>1
  <2>3. lag[r] \in Nat /\ LeaseDuration - lag[r] \in Int
    BY DEF QueueTypeOK
  <2>4. /\ token' \in [Works -> Tokens \cup {NoToken}]
        /\ owner' \in [Works -> Runners \cup {Nobody}]
        /\ until' \in [Works -> Int]
    BY <2>2, <2>3 DEF QueueTypeOK
  <2>5. \A w \in Works : token'[w] = NoToken <=> owner'[w] = Nobody
    BY <2>2 DEF QueueTypeOK
  <2>6. job' \in [Runners -> [Works -> Jobs]]
    <3>1. [w \in Works |-> IF w \in S
             THEN [ph |-> "run", token |-> new[w], left |-> LeaseDuration - lag[r]]
             ELSE job[r][w]] \in [Works -> Jobs]
      BY <2>2, <2>3 DEF QueueTypeOK, Jobs
    <3> QED BY <2>2, <3>1 DEF QueueTypeOK
  <2> QED BY <2>1, <2>4, <2>5, <2>6 DEF QueueTypeOK, OnceStored
<1>5. CASE GatherDone(r)
  <2>1. pc' \in [Runners -> {"top", "gather", "last", "idle", "ended"} \cup Timed]
    BY <1>5 DEF GatherDone, QueueTypeOK, Timed
  <2>2. count' \in [Runners -> 0..BatchSize]
    BY <1>5 DEF GatherDone, QueueTypeOK
  <2> QED BY <1>5, <2>1, <2>2 DEF GatherDone, QueueTypeOK, OnceStored, rows, leases
<1>6. CASE Idle(r)
  BY <1>6 DEF Idle, QueueTypeOK, OnceStored, rows, leases, Timed
<1>7. CASE LoopFails(r)
  BY <1>7 DEF LoopFails, QueueTypeOK, OnceStored, rows, leases, Timed
<1>8. CASE Restart(r)
  BY <1>8 DEF Restart, QueueTypeOK, OnceStored, rows, leases, Timed, NoJob, Jobs
<1>9. CASE Wake(r)
  BY <1>9 DEF Wake, QueueTypeOK, OnceStored, rows, leases
<1>10. CASE Stop(r)
  BY <1>10 DEF Stop, QueueTypeOK, OnceStored, rows, leases
<1> QED
  BY <1>1, <1>2, <1>3, <1>4, <1>5, <1>6, <1>7, <1>8, <1>9, <1>10 DEF LoopStep

\* A handler's steps keep the types.
LEMMA JobType ==
  ASSUME QueueTypeOK, OnceStored, NEW r \in Runners, NEW w \in Works,
         JobStep(r, w) \/ JobFails(r, w)
  PROVE  QueueTypeOK' /\ OnceStored'
<1> USE QueueAssumption
<1>1. NoJob \in Jobs
  BY DEF NoJob, Jobs
<1>2. CASE HandlerEnds(r, w)
  <2>1. job' \in [Runners -> [Works -> Jobs]]
    <3>1. PICK how \in {"ok", "raised"} :
            job' = [job EXCEPT ![r][w] = [job[r][w] EXCEPT !.ph = how]]
      BY <1>2 DEF HandlerEnds
    <3> DEFINE k == [job[r][w] EXCEPT !.ph = how]
    <3>2. job \in [Runners -> [Works -> Jobs]] /\ job[r][w] \in Jobs
      BY DEF QueueTypeOK
    <3>3. k \in Jobs
      BY <3>2 DEF Jobs
    <3>4. job' = [job EXCEPT ![r][w] = k]
      BY <3>1
    <3> HIDE DEF k
    <3> QED BY <3>2, <3>3, <3>4
  <2> QED BY <1>2, <2>1 DEF HandlerEnds, QueueTypeOK, OnceStored, rows, leases, loop
<1>3. CASE Complete(r, w)
  <2>1. job' \in [Runners -> [Works -> Jobs]] /\ stored' \subseteq stored
    BY <1>1, <1>3 DEF Complete, QueueTypeOK, leases
  <2>2. /\ token' \in [Works -> Tokens \cup {NoToken}]
        /\ owner' \in [Works -> Runners \cup {Nobody}] /\ until' \in [Works -> Int]
        /\ \A x \in Works : token'[x] = NoToken <=> owner'[x] = Nobody
    <3>1. CASE Owns(r, w)
      BY <1>3, <3>1, ClearLeaseType DEF Complete
    <3>2. CASE ~Owns(r, w)
      BY <1>3, <3>2 DEF Complete, leases, QueueTypeOK
    <3> QED BY <3>1, <3>2
  <2> QED BY <1>3, <2>1, <2>2 DEF Complete, QueueTypeOK, OnceStored, loop
<1>4. CASE Release(r, w)
  <2>1. job' \in [Runners -> [Works -> Jobs]] /\ avail' \in [Works -> Int]
    BY <1>1, <1>4 DEF Release, QueueTypeOK, leases
  <2>2. /\ token' \in [Works -> Tokens \cup {NoToken}]
        /\ owner' \in [Works -> Runners \cup {Nobody}] /\ until' \in [Works -> Int]
        /\ \A x \in Works : token'[x] = NoToken <=> owner'[x] = Nobody
    <3>1. CASE Owns(r, w)
      BY <1>4, <3>1, ClearLeaseType DEF Release
    <3>2. CASE ~Owns(r, w)
      BY <1>4, <3>2 DEF Release, leases, QueueTypeOK
    <3> QED BY <3>1, <3>2
  <2> QED BY <1>4, <2>1, <2>2 DEF Release, QueueTypeOK, OnceStored, loop
<1>5. CASE JobFails(r, w)
  <2>1. job' \in [Runners -> [Works -> Jobs]]
    BY <1>1, <1>5 DEF JobFails, QueueTypeOK
  <2> QED BY <1>5, <2>1 DEF JobFails, QueueTypeOK, OnceStored, rows, leases
<1> QED BY <1>2, <1>3, <1>4, <1>5 DEF JobStep

\* Producers and the clock keep the types.
LEMMA OutsideType ==
  ASSUME QueueTypeOK, OnceStored, Tick \/ \E w \in Works : Enqueue(w)
  PROVE  QueueTypeOK' /\ OnceStored'
<1> USE QueueAssumption
<1>1. \A n \in Int : Ago(n) \in Int
  BY DEF Ago
<1>2. ASSUME NEW w \in Works, Enqueue(w)  PROVE QueueTypeOK' /\ OnceStored'
  <2>1. avail' \in [Works -> Int]
    BY <1>2 DEF Enqueue, QueueTypeOK
  <2> QED BY <1>2, <2>1 DEF Enqueue, QueueTypeOK, OnceStored, leases, loop
<1>3. CASE Tick
  <2>1. avail' \in [Works -> Int] /\ until' \in [Works -> Int]
    BY <1>1, <1>3 DEF Tick, QueueTypeOK
  <2>2. job' \in [Runners -> [Works -> Jobs]]
    <3>1. \A j \in Jobs : [j EXCEPT !.left = IF j.ph = "none" THEN 0 ELSE Ago(@)] \in Jobs
      BY <1>1 DEF Jobs
    <3> QED BY <1>3, <3>1 DEF Tick, QueueTypeOK
  <2>3. lag' \in [Runners -> 0..MaxLag]
    BY <1>3 DEF Tick, QueueTypeOK
  <2> QED BY <1>3, <2>1, <2>2, <2>3 DEF Tick, QueueTypeOK, OnceStored
<1> QED BY <1>2, <1>3

\* Nothing changes, and nothing that depends on it.
LEMMA StutterType ==
  ASSUME QInv, UNCHANGED vars
  PROVE  QInv'
BY DEF QInv, QueueTypeOK, OnceStored, Believed, Holds, vars, rows, leases, loop

\* Every step keeps the types, and a work in one place.
LEMMA TypeStep ==
  ASSUME QueueTypeOK, OnceStored, Next
  PROVE  QueueTypeOK' /\ OnceStored'
<1>1. ASSUME NEW r \in Runners, LoopStep(r) \/ LoopFails(r) \/ Restart(r) \/ Wake(r) \/ Stop(r)
      PROVE  QueueTypeOK' /\ OnceStored'
  BY <1>1, LoopType
<1>2. ASSUME NEW r \in Runners, NEW w \in Works, JobStep(r, w) \/ JobFails(r, w)
      PROVE  QueueTypeOK' /\ OnceStored'
  BY <1>2, JobType
<1>3. CASE Tick \/ \E w \in Works : Enqueue(w)
  BY <1>3, OutsideType
<1>4. Attended \subseteq Runners
  BY QueueAssumption
<1> QED BY <1>1, <1>2, <1>3, <1>4, Zenon DEF Next

-----------------------------------------------------------------------------
(* Unexpired leases.                                                       *)

\* Leases that are over can be cleared: no runner is in an unexpired lease of
\* one of those rows.
LEMMA ClearOver ==
  ASSUME QInv, QueueTypeOK', NEW S \in SUBSET Works, ClearLease(S),
         \A w \in S, r \in Runners : ~Holds(r, w)',
         \A w \in Works, r \in Runners : Holds(r, w)' => Holds(r, w) /\ job'[r][w] = job[r][w],
         \A w \in Works \ S : w \in stored => w \in stored'
  PROVE  Believed'
BY DEF QInv, QueueTypeOK, Believed, ClearLease, Holds

\* The same rows and no new job: what was believed still is.
LEMMA Unmoved ==
  ASSUME QInv, UNCHANGED <<stored, leases>>,
         \A w \in Works, r \in Runners :
           Holds(r, w)' => Holds(r, w) /\ job'[r][w].left = job[r][w].left
                                       /\ job'[r][w].token = job[r][w].token
  PROVE  Believed'
BY DEF QInv, Believed, leases

\* A runner that still has its job's lease is the only one in an unexpired
\* lease of the work, so giving the row up disturbs nobody.
LEMMA OwnerIsAlone ==
  ASSUME QInv, NEW r \in Runners, NEW w \in Works, Owns(r, w),
         NEW x \in Runners, Holds(x, w)
  PROVE  x = r
BY DEF QInv, Believed, Owns

\* A claim takes rows that no runner is in an unexpired lease of, and its own
\* jobs begin with what the rows now say.
LEMMA BelievedClaim ==
  ASSUME QInv, NEW r \in Runners, Claim(r)
  PROVE  Believed'
<1>1. PICK S \in SUBSET Works :
        /\ \A w \in S : w \in stored /\ (token[w] = NoToken \/ until[w] <= 0)
        /\ \E new \in [S -> Tokens] :
             /\ \A w \in S : new[w] \in Unused
             /\ token' = [w \in Works |-> IF w \in S THEN new[w] ELSE token[w]]
             /\ owner' = [w \in Works |-> IF w \in S THEN r ELSE owner[w]]
             /\ until' = [w \in Works |-> IF w \in S THEN LeaseDuration - lag[r] ELSE until[w]]
             /\ job' = [job EXCEPT ![r] = [w \in Works |->
                          IF w \in S
                          THEN [ph |-> "run", token |-> new[w], left |-> LeaseDuration - lag[r]]
                          ELSE job[r][w]]]
        /\ UNCHANGED <<fresh, stored, avail, wake, stopping, unseen, faults>>
  BY ClaimEffect DEF QInv
<1>2. PICK new \in [S -> Tokens] :
        /\ token' = [w \in Works |-> IF w \in S THEN new[w] ELSE token[w]]
        /\ owner' = [w \in Works |-> IF w \in S THEN r ELSE owner[w]]
        /\ until' = [w \in Works |-> IF w \in S THEN LeaseDuration - lag[r] ELSE until[w]]
        /\ job' = [job EXCEPT ![r] = [w \in Works |->
                     IF w \in S
                     THEN [ph |-> "run", token |-> new[w], left |-> LeaseDuration - lag[r]]
                     ELSE job[r][w]]]
  BY <1>1
<1>3. job \in [Runners -> [Works -> Jobs]]
  BY DEF QInv, QueueTypeOK
<1>4. \A x \in Runners, w \in Works :
        job'[x][w] = IF x = r /\ w \in S
                     THEN [ph |-> "run", token |-> new[w], left |-> LeaseDuration - lag[r]]
                     ELSE job[x][w]
  BY <1>2, <1>3
<1>5. \A x \in Runners, w \in S : ~Holds(x, w)
  <2> SUFFICES ASSUME NEW x \in Runners, NEW w \in S, Holds(x, w)
               PROVE  FALSE
    OBVIOUS
  <2>1. w \in Works
    BY <1>1
  <2>2. until[w] = job[x][w].left /\ token[w] = job[x][w].token
    BY <2>1 DEF QInv, Believed
  <2>3. owner[w] = x /\ x # Nobody
    BY <2>1, QueueAssumption DEF QInv, Believed
  <2>4. token[w] # NoToken
    BY <2>1, <2>3 DEF QInv, QueueTypeOK
  <2>5. until[w] <= 0
    BY <1>1, <2>4
  <2>6. job[x][w].left > 0
    BY DEF Holds
  <2>7. until[w] \in Int
    BY <2>1 DEF QInv, QueueTypeOK
  <2> QED BY <2>2, <2>5, <2>6, <2>7
<1>6. SUFFICES ASSUME NEW x \in Runners, NEW w \in Works, Holds(x, w)'
               PROVE  /\ w \in stored' /\ owner'[w] = x /\ until'[w] = job'[x][w].left
                      /\ token'[w] = job'[x][w].token
  BY DEF Believed
<1>7. CASE x = r /\ w \in S
  <2>1. job'[x][w] = [ph |-> "run", token |-> new[w], left |-> LeaseDuration - lag[r]]
    BY <1>4, <1>7
  <2>2. token'[w] = new[w] /\ owner'[w] = x /\ until'[w] = LeaseDuration - lag[r]
    BY <1>2, <1>7
  <2>3. w \in stored'
    BY <1>1, <1>7
  <2> QED BY <2>1, <2>2, <2>3
<1>8. CASE w \notin S
  BY <1>1, <1>2, <1>4, <1>6, <1>8 DEF QInv, Believed, Holds
<1>9. CASE x # r /\ w \in S
  BY <1>4, <1>5, <1>6, <1>9 DEF Holds
<1> QED BY <1>7, <1>8, <1>9

\* A handler's job that ends is the only one of the runner that changes.
LEMMA JobEnds ==
  ASSUME QInv, NEW r \in Runners, NEW w \in Works, job' = [job EXCEPT ![r][w] = NoJob]
  PROVE  /\ ~Holds(r, w)'
         /\ \A x \in Runners, y \in Works :
              Holds(x, y)' => Holds(x, y) /\ job'[x][y] = job[x][y] /\ <<x, y>> # <<r, w>>
BY DEF QInv, QueueTypeOK, Holds, NoJob

\* complete() and release(): the row is given up by its owner or left alone.
LEMMA BelievedClosing ==
  ASSUME QInv, QueueTypeOK', NEW r \in Runners, NEW w \in Works,
         Complete(r, w) \/ Release(r, w)
  PROVE  Believed'
<1>1. job' = [job EXCEPT ![r][w] = NoJob]
  BY DEF Complete, Release
<1>2. \A x \in Runners, y \in Works :
        Holds(x, y)' => Holds(x, y) /\ job'[x][y] = job[x][y] /\ <<x, y>> # <<r, w>>
  BY <1>1, JobEnds
<1>3. CASE Owns(r, w)
  <2>1. \A x \in Runners : ~Holds(x, w)'
    BY <1>2, <1>3, OwnerIsAlone
  <2>2. ClearLease({w}) /\ \A y \in Works \ {w} : y \in stored => y \in stored'
    BY <1>3 DEF Complete, Release
  <2> QED BY <1>2, <2>1, <2>2, ClearOver
<1>4. CASE ~Owns(r, w)
  <2>1. UNCHANGED <<stored, leases>>
    BY <1>4 DEF Complete, Release
  <2> QED BY <1>2, <2>1, Unmoved
<1> QED BY <1>3, <1>4

\* The clock: a lease and the runner's idea of it run out together.
LEMMA BelievedTick ==
  ASSUME QInv, Tick
  PROVE  Believed'
<1> USE QueueAssumption
<1>1. /\ job \in [Runners -> [Works -> Jobs]] /\ until \in [Works -> Int]
      /\ token \in [Works -> Tokens \cup {NoToken}]
      /\ owner \in [Works -> Runners \cup {Nobody}]
      /\ \A w \in Works : token[w] = NoToken <=> owner[w] = Nobody
  BY DEF QInv, QueueTypeOK
<1>2. \A r \in Runners, w \in Works :
        job'[r][w] = [job[r][w] EXCEPT !.left = IF job[r][w].ph = "none" THEN 0 ELSE Ago(@)]
  BY DEF Tick
<1>3. SUFFICES ASSUME NEW r \in Runners, NEW w \in Works, Holds(r, w)'
               PROVE  /\ w \in stored' /\ owner'[w] = r /\ until'[w] = job'[r][w].left
                      /\ token'[w] = job'[r][w].token
  BY DEF Believed
<1>4. /\ job'[r][w].ph = job[r][w].ph /\ job'[r][w].token = job[r][w].token
      /\ job'[r][w].left = IF job[r][w].ph = "none" THEN 0 ELSE Ago(job[r][w].left)
  <2> DEFINE n == IF job[r][w].ph = "none" THEN 0 ELSE Ago(job[r][w].left)
  <2>1. job'[r][w] = [job[r][w] EXCEPT !.left = n]
    BY <1>2, Zenon
  <2>2. job[r][w] \in Jobs
    BY <1>1
  <2> HIDE DEF n
  <2>3. job'[r][w].ph = job[r][w].ph /\ job'[r][w].token = job[r][w].token /\ job'[r][w].left = n
    BY <2>1, <2>2 DEF Jobs
  <2> QED BY <2>3 DEF n
<1>5. job[r][w].left \in Int
  BY <1>1 DEF Jobs
<1>6. Holds(r, w)
  BY <1>3, <1>4, <1>5 DEF Holds, Ago
<1>7. w \in stored /\ owner[w] = r /\ until[w] = job[r][w].left /\ token[w] = job[r][w].token
  BY <1>6 DEF QInv, Believed
<1>8. token[w] # NoToken
  BY <1>1, <1>7
<1>9. until'[w] = Ago(until[w])
  BY <1>8 DEF Tick
<1> QED BY <1>4, <1>6, <1>7, <1>9 DEF Tick, Holds

\* Every other step leaves the rows alone and gives no runner a job, or gives
\* up leases that are over.
LEMMA BelievedElsewhere ==
  ASSUME QInv, QueueTypeOK', NEW r \in Runners,
         \/ Recover(r) \/ Top(r) \/ Select(r) \/ GatherDone(r) \/ Idle(r)
         \/ LoopFails(r) \/ Restart(r) \/ Wake(r) \/ Stop(r)
         \/ \E w \in Works : HandlerEnds(r, w) \/ JobFails(r, w)
  PROVE  Believed'
<1> USE QueueAssumption
<1>1. CASE Recover(r)
  <2> DEFINE S == {w \in stored : token[w] # NoToken /\ until[w] <= -lag[r]}
  <2>1. S \in SUBSET Works /\ ClearLease(S) /\ UNCHANGED <<job, stored>>
    BY <1>1 DEF Recover, QInv, QueueTypeOK
  <2>2. lag[r] \in Nat /\ until \in [Works -> Int]
    BY DEF QInv, QueueTypeOK
  <2>3. \A w \in S : until[w] <= 0 /\ ~(until[w] > 0)
    BY <2>1, <2>2
  <2> HIDE DEF S
  <2>4. \A w \in S, x \in Runners : ~Holds(x, w)
    BY <2>1, <2>3 DEF QInv, Believed, Holds
  <2>5. \A w \in Works, x \in Runners :
          (Holds(x, w)' <=> Holds(x, w)) /\ job'[x][w] = job[x][w]
    BY <2>1 DEF Holds
  <2> QED BY <2>1, <2>4, <2>5, ClearOver
<1>2. CASE Top(r) \/ Select(r) \/ GatherDone(r) \/ Idle(r) \/ LoopFails(r) \/ Wake(r) \/ Stop(r)
  <2>1. UNCHANGED <<job, stored, leases>>
    BY <1>2 DEF Top, Select, GatherDone, Idle, LoopFails, Wake, Stop, rows
  <2> QED BY <2>1, Unmoved DEF Holds
<1>3. CASE Restart(r)
  <2>1. UNCHANGED <<stored, leases>> /\ job' = [job EXCEPT ![r] = [w \in Works |-> NoJob]]
    BY <1>3 DEF Restart, rows
  <2>2. \A w \in Works, x \in Runners : Holds(x, w)' => Holds(x, w) /\ job'[x][w] = job[x][w]
    BY <2>1 DEF QInv, QueueTypeOK, Holds, NoJob
  <2> QED BY <2>1, <2>2, Unmoved
<1>4. ASSUME NEW w \in Works, HandlerEnds(r, w)  PROVE Believed'
  <2>1. PICK how \in {"ok", "raised"} :
          job' = [job EXCEPT ![r][w] = [job[r][w] EXCEPT !.ph = how]]
    BY <1>4 DEF HandlerEnds
  <2> DEFINE k == [job[r][w] EXCEPT !.ph = how]
  <2>2. job \in [Runners -> [Works -> Jobs]] /\ job[r][w].ph # "none"
    BY <1>4 DEF HandlerEnds, QInv, QueueTypeOK
  <2>3. k.left = job[r][w].left /\ k.token = job[r][w].token
    BY <2>2 DEF Jobs
  <2>4. job' = [job EXCEPT ![r][w] = k]
    BY <2>1
  <2> HIDE DEF k
  <2>5. \A y \in Works, x \in Runners :
          Holds(x, y)' => Holds(x, y) /\ job'[x][y].left = job[x][y].left
                                      /\ job'[x][y].token = job[x][y].token
    BY <2>2, <2>3, <2>4 DEF Holds
  <2>6. UNCHANGED <<stored, leases>>
    BY <1>4 DEF HandlerEnds, rows
  <2> QED BY <2>5, <2>6, Unmoved
<1>5. ASSUME NEW w \in Works, JobFails(r, w)  PROVE Believed'
  <2>1. UNCHANGED <<stored, leases>> /\ job' = [job EXCEPT ![r][w] = NoJob]
    BY <1>5 DEF JobFails, rows
  <2>2. job \in [Runners -> [Works -> Jobs]] BY DEF QInv, QueueTypeOK
  <2>3. \A x \in Runners, y \in Works : Holds(x, y)' => Holds(x, y) /\ job'[x][y] = job[x][y]
    BY <2>1, <2>2, JobEnds
  <2> QED BY <2>1, <2>3, Unmoved
<1> QED BY <1>1, <1>2, <1>3, <1>4, <1>5

\* The inductive step.
LEMMA QueueStep ==
  ASSUME QInv, Next
  PROVE  QInv'
<1>1. QueueTypeOK' /\ OnceStored'
  BY TypeStep DEF QInv
<1>2. Attended \subseteq Runners
  BY QueueAssumption
<1>3. Believed'
  <2>1. ASSUME NEW r \in Runners, Claim(r)  PROVE Believed'
    BY <2>1, BelievedClaim
  <2>2. ASSUME NEW r \in Runners, NEW w \in Works, Complete(r, w) \/ Release(r, w)
        PROVE  Believed'
    BY <1>1, <2>2, BelievedClosing
  <2>3. CASE Tick
    BY <2>3, BelievedTick
  <2>4. ASSUME NEW r \in Runners,
               \/ Recover(r) \/ Top(r) \/ Select(r) \/ GatherDone(r) \/ Idle(r)
               \/ LoopFails(r) \/ Restart(r) \/ Wake(r) \/ Stop(r)
               \/ \E w \in Works : HandlerEnds(r, w) \/ JobFails(r, w)
        PROVE  Believed'
    BY <1>1, <2>4, BelievedElsewhere
  <2>5. CASE \E w \in Works : Enqueue(w)
    <3>1. UNCHANGED <<token, owner, until, job>> /\ stored \subseteq stored'
      BY <2>5 DEF Enqueue, leases
    <3> QED BY <3>1 DEF QInv, Believed, Holds
  <2> QED BY <1>2, <2>1, <2>2, <2>3, <2>4, <2>5 DEF Next, LoopStep, JobStep
<1> QED BY <1>1, <1>3 DEF QInv

\* The types, a work in one place, and what the runners believe: inductive.
THEOREM QueueInvariant == Spec => []QInv
<1>1. Init => QInv
  BY QueueTypeInit DEF QInv
<1>2. QInv /\ [Next]_vars => QInv'
  BY QueueStep, StutterType
<1> QED BY <1>1, <1>2, PTL DEF Spec

\* Every variable keeps its type, and the lease fields of a row are set and
\* cleared together, whatever the transactions that fail.
THEOREM QueueTypes == Spec => []QueueTypeOK
BY QueueInvariant, PTL DEF QInv

\* No work is ever executed by two runners in unexpired leases, for every number
\* of runners and works, every limit and every lag behind the clock.
THEOREM LeasesAreExclusive == Spec => []ExclusiveLease
<1>1. QInv => ExclusiveLease
  BY DEF QInv, Believed, ExclusiveLease, Holds
<1> QED BY <1>1, QueueInvariant, PTL

-----------------------------------------------------------------------------
(* Wake-ups.                                                               *)

\* A wake-up the loop has not answered with a look at the queue is pending,
\* unless such a look is still ahead in this pass.
WakePending ==
  \A r \in Runners :
    unseen[r] => wake[r] \/ pc[r] \in {"recover", "top", "select", "ended"}

\* Only a loop about to look at the queue forgets a wake-up.
LEMMA WakeStep ==
  ASSUME QueueTypeOK, WakePending, [Next]_vars
  PROVE  WakePending'
<1> USE DEF WakePending
<1>1. /\ unseen \in [Runners -> BOOLEAN] /\ wake \in [Runners -> BOOLEAN]
      /\ DOMAIN pc = Runners
  BY DEF QueueTypeOK
<1>2. ASSUME NEW r \in Runners, Recover(r) \/ Top(r) \/ Idle(r) \/ LoopFails(r)
      PROVE  WakePending'
  BY <1>1, <1>2 DEF Recover, Top, Idle, LoopFails
<1>3. ASSUME NEW r \in Runners, Select(r)  PROVE WakePending'
  BY <1>1, <1>3 DEF Select
<1>4. ASSUME NEW r \in Runners, Claim(r)  PROVE WakePending'
  <2>1. UNCHANGED <<wake, unseen>> /\ \E p \in {"last", "gather"} : pc' = [pc EXCEPT ![r] = p]
    BY <1>4 DEF Claim, ClaimFrom
  <2> QED BY <1>1, <1>4, <2>1 DEF Claim
<1>5. ASSUME NEW r \in Runners, GatherDone(r)  PROVE WakePending'
  <2>1. /\ UNCHANGED <<wake, unseen>> /\ pc[r] \in {"gather", "last"}
        /\ \E p \in {"select", "ended", "top", "idle"} : pc' = [pc EXCEPT ![r] = p]
    BY <1>5 DEF GatherDone
  <2> QED BY <1>1, <2>1
<1>6. ASSUME NEW r \in Runners, Restart(r) \/ Wake(r) \/ Stop(r)  PROVE WakePending'
  BY <1>1, <1>6 DEF Restart, Wake, Stop
<1>7. ASSUME NEW r \in Runners, NEW w \in Works, JobStep(r, w) \/ JobFails(r, w)
      PROVE  WakePending'
  BY <1>1, <1>7 DEF JobStep, HandlerEnds, Complete, Release, JobFails, loop
<1>8. CASE Tick \/ UNCHANGED vars \/ \E w \in Works : Enqueue(w)
  BY <1>8 DEF Tick, Enqueue, vars, loop
<1>9. Attended \subseteq Runners
  BY QueueAssumption
<1> QED
  BY <1>2, <1>3, <1>4, <1>5, <1>6, <1>7, <1>8, <1>9, Zenon DEF Next, LoopStep

\* A loop that waits without a pending wake-up has looked at the queue since it
\* was last woken.
THEOREM WakesAreSeen == Spec => []WakeIsSeen
<1>1. Init => WakePending
  BY DEF Init, WakePending
<1>2. QInv /\ WakePending /\ [Next]_vars => WakePending'
  BY WakeStep DEF QInv
<1>3. WakePending => WakeIsSeen
  BY DEF WakePending, WakeIsSeen
<1> QED BY <1>1, <1>2, <1>3, QueueInvariant, PTL DEF Spec

-----------------------------------------------------------------------------
(* The queue implements WorkLease.                                         *)

\* What is in a runner's hands changes with its own jobs.
LEMMA InHandChanges ==
  ASSUME NEW r \in Runners, \A x \in Runners : x # r => job'[x] = job[x]
  PROVE  InHand' = [InHand EXCEPT ![r] = [w \in Works |-> job'[r][w].token]]
<1>1. InHand'[r] = [w \in Works |-> job'[r][w].token]
  BY DEF InHand
<1>2. \A x \in Runners : x # r => InHand'[x] = InHand[x]
  BY DEF InHand
<1>3. DOMAIN InHand = Runners /\ DOMAIN InHand' = Runners
  BY DEF InHand
<1>4. InHand = [x \in Runners |-> InHand[x]] /\ InHand' = [x \in Runners |-> InHand'[x]]
  BY DEF InHand
<1> QED BY <1>1, <1>2, <1>3, <1>4

\* A claim is a grant of the rows it leases; one recorded too late is born
\* expired.
LEMMA ClaimGrants ==
  ASSUME QInv, NEW r \in Runners, Claim(r)
  PROVE  \E S \in SUBSET Works : W!Grant(S, r)
<1> USE QueueAssumption
<1>1. PICK S \in SUBSET Works :
        /\ \A w \in S : w \in stored /\ (token[w] = NoToken \/ until[w] <= 0)
        /\ \E new \in [S -> Tokens] :
             /\ \A w \in S : new[w] \in Unused
             /\ token' = [w \in Works |-> IF w \in S THEN new[w] ELSE token[w]]
             /\ owner' = [w \in Works |-> IF w \in S THEN r ELSE owner[w]]
             /\ until' = [w \in Works |-> IF w \in S THEN LeaseDuration - lag[r] ELSE until[w]]
             /\ job' = [job EXCEPT ![r] = [w \in Works |->
                          IF w \in S
                          THEN [ph |-> "run", token |-> new[w], left |-> LeaseDuration - lag[r]]
                          ELSE job[r][w]]]
        /\ UNCHANGED <<fresh, stored, avail, wake, stopping, unseen, faults>>
  BY ClaimEffect DEF QInv
<1>2. PICK new \in [S -> Tokens] :
        /\ \A w \in S : new[w] \in Unused
        /\ token' = [w \in Works |-> IF w \in S THEN new[w] ELSE token[w]]
        /\ owner' = [w \in Works |-> IF w \in S THEN r ELSE owner[w]]
        /\ until' = [w \in Works |-> IF w \in S THEN LeaseDuration - lag[r] ELSE until[w]]
        /\ job' = [job EXCEPT ![r] = [w \in Works |->
                     IF w \in S
                     THEN [ph |-> "run", token |-> new[w], left |-> LeaseDuration - lag[r]]
                     ELSE job[r][w]]]
  BY <1>1
<1> DEFINE b == LeaseDuration - lag[r] > 0
<1>3. lag[r] \in Nat /\ until \in [Works -> Int] /\ fresh \cap stored = {}
  BY DEF QInv, QueueTypeOK, OnceStored
<1>4. \A w \in S : Place[w] = "queued" /\ ~Live[w]
  <2>1. \A w \in S : w \in Works /\ w \notin fresh /\ w \in stored
                      /\ ~(token[w] # NoToken /\ until[w] > 0)
    BY <1>1, <1>3
  <2> QED BY <2>1, Zenon DEF Place, Live
<1>5. Place' = Place
  BY <1>1 DEF Place
<1>6. Live' = [w \in Works |-> IF w \in S THEN b ELSE Live[w]]
  <2>1. \A w \in S : token'[w] # NoToken /\ until'[w] = LeaseDuration - lag[r]
    BY <1>2
  <2>2. \A w \in Works \ S : token'[w] = token[w] /\ until'[w] = until[w]
    BY <1>2
  <2> QED BY <2>1, <2>2 DEF Live
<1>7. b \in BOOLEAN
  OBVIOUS
<1>8. \A w \in S : new[w] # token[w] /\ \A x \in Runners : new[w] # InHand[x][w]
  BY <1>2 DEF Unused, InHand
<1>9. InHand' = [InHand EXCEPT ![r] = [w \in Works |-> IF w \in S THEN new[w] ELSE InHand[r][w]]]
  <2>1. job \in [Runners -> [Works -> Jobs]]
    BY DEF QInv, QueueTypeOK
  <2>2. \A w \in Works : job'[r][w].token = IF w \in S THEN new[w] ELSE InHand[r][w]
    BY <1>2, <2>1 DEF InHand
  <2>3. \A x \in Runners : x # r => job'[x] = job[x]
    BY <1>2, <2>1
  <2>4. [w \in Works |-> job'[r][w].token]
          = [w \in Works |-> IF w \in S THEN new[w] ELSE InHand[r][w]]
    BY <2>2
  <2> QED BY <2>3, <2>4, InHandChanges
<1> HIDE DEF b
<1> QED BY <1>1, <1>2, <1>4, <1>5, <1>6, <1>7, <1>8, <1>9 DEF W!Grant

\* Recovery withdraws expired grants.
LEMMA RecoverWithdraws ==
  ASSUME QInv, NEW r \in Runners, Recover(r)
  PROVE  \E S \in SUBSET Works : W!Withdraw(S)
<1> DEFINE S == {w \in stored : token[w] # NoToken /\ until[w] <= -lag[r]}
<1>1. /\ S \in SUBSET Works /\ ClearLease(S)
      /\ lag[r] \in Nat /\ until \in [Works -> Int] /\ UNCHANGED <<fresh, stored>>
  BY QueueAssumption DEF QInv, QueueTypeOK, Recover
<1>2. \A w \in S : ~(until[w] > 0)
  BY <1>1
<1> HIDE DEF S
<1>3. Place' = Place
  BY <1>1 DEF Place
<1>4. Live' = Live
  <2>1. \A w \in S : ~Live[w] /\ ~Live'[w]
    BY <1>1, <1>2 DEF Live, ClearLease
  <2>2. \A w \in Works \ S : Live'[w] = Live[w]
    BY <1>1 DEF Live, ClearLease
  <2> QED BY <1>1, <2>1, <2>2 DEF Live
<1>5. InHand' = InHand
  BY DEF InHand, Recover
<1> QED BY <1>1, <1>2, <1>3, <1>4, <1>5 DEF W!Withdraw, ClearLease, Live

\* A runner without its jobs on a set of works has let go of them.
LEMMA JobsLeave ==
  ASSUME QInv, NEW r \in Runners, NEW S \in SUBSET Works,
         \A w \in Works : job'[r][w] = IF w \in S THEN NoJob ELSE job[r][w],
         \A x \in Runners : x # r => job'[x] = job[x]
  PROVE  W!Lets(r, S)
<1>1. \A w \in Works : job'[r][w].token = IF w \in S THEN NoToken ELSE InHand[r][w]
  BY DEF NoJob, InHand
<1>2. [w \in Works |-> job'[r][w].token]
        = [w \in Works |-> IF w \in S THEN NoToken ELSE InHand[r][w]]
  BY <1>1
<1> QED BY <1>2, InHandChanges DEF W!Lets

\* One job of a runner is over.
LEMMA JobLeaves ==
  ASSUME QInv, NEW r \in Runners, NEW w \in Works, job' = [job EXCEPT ![r][w] = NoJob]
  PROVE  W!Lets(r, {w})
<1>1. job \in [Runners -> [Works -> Jobs]]
  BY DEF QInv, QueueTypeOK
<1>2. \A y \in Works : job'[r][y] = IF y \in {w} THEN NoJob ELSE job[r][y]
  BY <1>1
<1>3. \A x \in Runners : x # r => job'[x] = job[x]
  BY <1>1
<1> QED BY <1>2, <1>3, JobsLeave

\* Only the owner's completion or release, under the lease it was given, gives
\* a row up; any other lets go of its own job and nothing else.
LEMMA ClosingReturns ==
  ASSUME QInv, NEW r \in Runners, NEW w \in Works, Complete(r, w) \/ Release(r, w)
  PROVE  W!Return(r, w) \/ W!Drop(r, {w})
<1>0. W!Lets(r, {w})
  BY JobLeaves DEF Complete, Release
<1>1. CASE ~Owns(r, w)
  <2>1. UNCHANGED <<fresh, stored, token, owner, until>>
    BY <1>1 DEF Complete, Release, leases
  <2> QED BY <1>0, <2>1 DEF W!Drop, Place, Live
<1>2. CASE Owns(r, w)
  <2>1. /\ ClearLease({w}) /\ fresh' = fresh
        /\ stored' \in {stored, stored \ {w}} /\ owner[w] = r /\ w \in stored
        /\ token[w] = job[r][w].token
    BY <1>2 DEF Complete, Release, Owns
  <2>2. /\ owner \in [Works -> Runners \cup {Nobody}] /\ fresh \cap stored = {}
        /\ token \in [Works -> Tokens \cup {NoToken}]
    BY DEF QInv, QueueTypeOK, OnceStored
  <2>3. owner' = [owner EXCEPT ![w] = Nobody] /\ token' = [token EXCEPT ![w] = NoToken]
    BY <2>1, <2>2 DEF ClearLease
  <2>4. Live' = [Live EXCEPT ![w] = FALSE]
    BY <2>1 DEF Live, ClearLease
  <2>5. Place' \in {Place, [Place EXCEPT ![w] = "gone"]}
    BY <2>1, <2>2 DEF Place
  <2>6. InHand[r][w] = token[w]
    BY <2>1 DEF InHand
  <2> QED BY <1>0, <2>1, <2>3, <2>4, <2>5, <2>6 DEF W!Return
<1> QED BY <1>1, <1>2

\* A failed closing transaction loses the job and keeps the lease, and so does
\* a process that dies with all of its jobs.
LEMMA FailureDrops ==
  ASSUME QInv, NEW r \in Runners, Restart(r) \/ \E w \in Works : JobFails(r, w)
  PROVE  \E S \in SUBSET Works : W!Drop(r, S)
<1>1. UNCHANGED <<Place, owner, token, Live>>
  BY DEF Restart, JobFails, rows, leases, Place, Live
<1>2. ASSUME NEW w \in Works, JobFails(r, w)  PROVE W!Drop(r, {w})
  BY <1>1, <1>2, JobLeaves DEF JobFails, W!Drop
<1>3. ASSUME Restart(r)  PROVE W!Drop(r, Works)
  <2>1. job \in [Runners -> [Works -> Jobs]]
    BY DEF QInv, QueueTypeOK
  <2>2. /\ \A w \in Works : job'[r][w] = IF w \in Works THEN NoJob ELSE job[r][w]
        /\ \A x \in Runners : x # r => job'[x] = job[x]
    BY <1>3, <2>1 DEF Restart
  <2> QED BY <1>1, <2>2, JobsLeave DEF W!Drop
<1> QED BY <1>2, <1>3

\* The clock only lets leases lapse.
LEMMA TickLapses ==
  ASSUME QInv, Tick
  PROVE  \E S \in SUBSET Works : W!Lapse(S)
<1> DEFINE S == {w \in Works : Live[w] /\ ~Live'[w]}
<1>1. until \in [Works -> Int] /\ MaxLag \in Nat
  BY QueueAssumption DEF QInv, QueueTypeOK
<1>2. /\ UNCHANGED <<fresh, stored, token, owner>>
      /\ \A w \in Works : until'[w] = IF token[w] # NoToken THEN Ago(until[w]) ELSE until[w]
  BY DEF Tick
<1>3. \A w \in Works : Live'[w] => Live[w]
  <2>1. \A w \in Works : until'[w] > 0 => token[w] = NoToken \/ until[w] > 0
    BY <1>1, <1>2 DEF Ago
  <2> QED BY <1>2, <2>1, Zenon DEF Live
<1>4. Place' = Place /\ S \in SUBSET Works
  BY <1>2 DEF Place
<1>5. Live' = [w \in Works |-> Live[w] /\ w \notin S]
  BY <1>3 DEF Live
<1>6. InHand' = InHand
  <2>1. job \in [Runners -> [Works -> Jobs]]
    BY DEF QInv, QueueTypeOK
  <2>2. job' = [r \in Runners |-> [w \in Works |->
                 [job[r][w] EXCEPT !.left = IF job[r][w].ph = "none" THEN 0 ELSE Ago(@)]]]
    BY DEF Tick
  <2>3. \A r \in Runners, w \in Works : job'[r][w].token = job[r][w].token
    <3> TAKE r \in Runners, w \in Works
    <3>1. job[r][w] \in Jobs
      BY <2>1
    <3>2. job'[r][w] = [job[r][w] EXCEPT !.left = IF job[r][w].ph = "none" THEN 0
                                                  ELSE Ago(job[r][w].left)]
      BY <2>2, <3>1 DEF Jobs
    <3> QED BY <3>1, <3>2 DEF Jobs
  <2> QED BY <2>3 DEF InHand
<1> QED BY <1>2, <1>4, <1>5, <1>6 DEF W!Lapse

\* Every step of the queue, its runners and the clock is a step of WorkLease or
\* changes nothing it speaks of.
LEMMA LeaseStep ==
  ASSUME QInv, [Next]_vars
  PROVE  [W!Next]_W!wvars
<1>1. ASSUME NEW r \in Runners, Claim(r)  PROVE W!Next
  BY <1>1, ClaimGrants DEF W!Next
<1>2. ASSUME NEW r \in Runners, Recover(r)  PROVE W!Next
  BY <1>2, RecoverWithdraws DEF W!Next
<1>3. ASSUME NEW r \in Runners, NEW w \in Works, Complete(r, w) \/ Release(r, w)
      PROVE  W!Next
  BY <1>3, ClosingReturns DEF W!Next
<1>4. CASE Tick
  BY <1>4, TickLapses DEF W!Next
<1>5. ASSUME NEW w \in Works, Enqueue(w)  PROVE W!Next
  <2>1. /\ w \in fresh /\ fresh' = fresh \ {w} /\ stored' = stored \cup {w}
        /\ UNCHANGED <<token, owner, until, job>> /\ fresh \subseteq Works
    BY <1>5 DEF Enqueue, leases, QInv, QueueTypeOK
  <2>2. Place[w] = "new" /\ Place' = [Place EXCEPT ![w] = "queued"]
    BY <2>1 DEF Place
  <2>3. Live' = Live /\ InHand' = InHand
    BY <2>1 DEF Live, InHand
  <2>4. W!Put(w)
    BY <2>1, <2>2, <2>3 DEF W!Put
  <2> QED BY <2>4 DEF W!Next
<1>6. ASSUME NEW r \in Runners,
             \/ Top(r) \/ Select(r) \/ GatherDone(r) \/ Idle(r)
             \/ LoopFails(r) \/ Wake(r) \/ Stop(r)
             \/ \E w \in Works : HandlerEnds(r, w)
      PROVE  UNCHANGED W!wvars
  <2>1. UNCHANGED <<fresh, stored, token, owner, until>>
    BY <1>6 DEF Top, Select, GatherDone, Idle, LoopFails, Wake, Stop, HandlerEnds, rows,
                leases
  <2>2. InHand' = InHand
    <3>1. job \in [Runners -> [Works -> Jobs]]
      BY DEF QInv, QueueTypeOK
    <3>2. CASE job' = job
      BY <3>2 DEF InHand
    <3>3. CASE \E w \in Works : HandlerEnds(r, w)
      <4>1. \A x \in Runners, w \in Works : job'[x][w].token = job[x][w].token
        BY <3>1, <3>3 DEF HandlerEnds, Jobs
      <4> QED BY <4>1 DEF InHand
    <3> QED BY <1>6, <3>2, <3>3 DEF Top, Select, GatherDone, Idle, LoopFails, Wake, Stop
  <2> QED BY <2>1, <2>2 DEF W!wvars, Place, Live
<1>7. CASE UNCHANGED vars
  BY <1>7 DEF vars, rows, leases, W!wvars, Place, Live, InHand
<1>8. ASSUME NEW r \in Runners, Restart(r) \/ \E w \in Works : JobFails(r, w)
      PROVE  W!Next
  BY <1>8, FailureDrops DEF W!Next
<1>9. Attended \subseteq Runners
  BY QueueAssumption
<1> QED
  BY <1>1, <1>2, <1>3, <1>4, <1>5, <1>6, <1>7, <1>8, <1>9 DEF Next, LoopStep, JobStep

\* The queue implements the DueQueue contract: an unexpired lease is granted to
\* nobody else, every lease is a new one, and work is handed back or removed
\* only by the runner that returns the lease the row is under: one that comes
\* too late, its lease recovered or the work granted to another, drops what it
\* had and leaves the work as it is.
THEOREM ImplementsWorkLease == Spec => LeaseSpec
<1>1. Init => W!Init
  <2> SUFFICES ASSUME Init PROVE W!Init
    OBVIOUS
  <2>1. Place = [w \in Works |-> "new"] /\ Live = [w \in Works |-> FALSE]
    BY DEF Init, Place, Live
  <2>2. InHand = [r \in Runners |-> [w \in Works |-> NoToken]]
    BY DEF Init, InHand, NoJob
  <2> QED BY <2>1, <2>2 DEF Init, W!Init
<1>2. QInv /\ [Next]_vars => [W!Next]_W!wvars
  BY LeaseStep
<1> QED BY <1>1, <1>2, QueueInvariant, PTL DEF Spec, LeaseSpec, W!Spec


-----------------------------------------------------------------------------
(***************************************************************************)
(* The outbox, for any events, handlers, dispatchers, batches and faults:  *)
(* what is marked was handled by everyone, and nobody's effects happen     *)
(* twice.                                                                  *)
(*                                                                         *)
(* The argument: a claim is committed with the effects it stands for       *)
(* (Exactly), and only one transaction at a time can be about to commit it *)
(* (Alone); a dispatcher that has met no error so far has left a claim     *)
(* behind at every handler it has passed (Covered).                        *)
(***************************************************************************)
Keys == Consumers \X Events

Busy == {"publish", "apply", "mark", "failed"}

\* A job in the fan-out is a record of these fields, ...
Shaped(j) ==
  j.pc \in Busy =>
    /\ j = [pc |-> j.pc, todo |-> j.todo, e |-> j.e, k |-> j.k, err |-> j.err]
    /\ j.k \in Nat /\ j.err \in BOOLEAN

\* ... without an error only if every handler it has passed holds its claim.
Covered(j, claims) ==
  j.pc \in {"publish", "apply", "mark"} /\ ~j.err =>
    \A i \in 1 .. Len(Handlers) : i < j.k => <<Handlers[i], j.e>> \in claims

\* It marks when it has passed them all without an error.
Settled(j) == j.pc = "mark" => ~j.err /\ j.k > Len(Handlers)

Jobs1 == \A d \in Dispatchers : Shaped(dispatch[d]) /\ Covered(dispatch[d], inbox) /\ Settled(dispatch[d])

\* A transaction under way has a claim that is new, and its own.
Alone ==
  \A d \in Dispatchers : At(d, "apply") =>
    /\ Key(d) \notin inbox
    /\ \A o \in Dispatchers : At(o, "apply") /\ o # d => Key(o) # Key(d)

\* The committed claims say exactly whose effects have happened.
Exactly == \A x \in Keys : effects[x] = IF x \in inbox THEN 1 ELSE 0

AllClaimed == \A e \in Events : state[e] = "published" => \A c \in Consumers : <<c, e>> \in inbox

OutboxInv ==
  /\ DOMAIN state = Events /\ DOMAIN effects = Keys /\ DOMAIN dispatch = Dispatchers
  /\ Jobs1 /\ Alone /\ Exactly /\ AllClaimed

\* A dispatcher moves to a job that meets the conditions, and is not in a
\* transaction; nothing else changes.
LEMMA MovesOn ==
  ASSUME OutboxInv, NEW d \in Dispatchers, NEW j, Goes(d, j), UNCHANGED <<inbox, effects>>,
         Shaped(j), Covered(j, inbox), Settled(j), j.pc # "apply",
         state' = state
  PROVE  OutboxInv'
<1>1. DOMAIN dispatch' = Dispatchers /\ dispatch'[d] = j
  BY DEF OutboxInv, Goes
<1>2. \A o \in Dispatchers : o # d => dispatch'[o] = dispatch[o] BY DEF OutboxInv, Goes
<1>3. Jobs1' BY <1>1, <1>2 DEF OutboxInv, Jobs1, Shaped, Covered, Settled
<1>4. Alone' BY <1>1, <1>2 DEF OutboxInv, Alone, At, Key
<1> QED BY <1>1, <1>3, <1>4 DEF OutboxInv, Exactly, AllClaimed

\* A job outside the fan-out meets them all.
LEMMA Outside ==
  ASSUME NEW j, j.pc \notin Busy
  PROVE  Shaped(j) /\ Covered(j, inbox) /\ Settled(j) /\ j.pc # "apply"
BY DEF Shaped, Covered, Settled, Busy

LEMMA PassIsOutside == ASSUME NEW todo PROVE Pass(todo).pc \notin Busy
BY DEF Pass, NoBatch, Busy

\* The next handler's turn comes, with a claim behind it or an error.
LEMMA NextKeeps ==
  ASSUME OutboxInv, NEW d \in Dispatchers, NEW failed \in BOOLEAN,
         dispatch[d].pc \in {"publish", "apply"}, NextHandler(d, failed),
         failed \/ Key(d) \in inbox', inbox \subseteq inbox'
  PROVE  LET j == dispatch'[d] IN
         /\ Goes(d, j) /\ Shaped(j) /\ Covered(j, inbox') /\ Settled(j) /\ j.pc = "publish"
<1> DEFINE i == dispatch[d]
           j == [pc |-> "publish", todo |-> i.todo, e |-> i.e, k |-> i.k + 1, err |-> i.err \/ failed]
<1>1. Goes(d, j) BY DEF NextHandler, Turn
<1>2. dispatch'[d] = j BY <1>1 DEF OutboxInv, Goes
<1>3. /\ i = [pc |-> i.pc, todo |-> i.todo, e |-> i.e, k |-> i.k, err |-> i.err]
      /\ i.k \in Nat /\ i.err \in BOOLEAN
  BY DEF OutboxInv, Jobs1, Shaped, Busy
<1>4. j.pc = "publish" /\ j.e = i.e /\ j.k = i.k + 1 /\ (j.err <=> i.err \/ failed) /\ j.todo = i.todo
  OBVIOUS
<1>5. Shaped(j) BY <1>3, <1>4 DEF Shaped
<1>6. Covered(j, inbox')
  <2> SUFFICES ASSUME ~j.err, NEW n \in 1 .. Len(Handlers), n < j.k
               PROVE  <<Handlers[n], j.e>> \in inbox'
    BY DEF Covered
  <2>1. ~i.err /\ ~failed BY <1>4
  <2>2. CASE n < i.k BY <2>1, <2>2, <1>4 DEF OutboxInv, Jobs1, Covered
  <2>3. CASE n = i.k BY <2>1, <2>3, <1>4 DEF Key
  <2> QED BY <1>3, <1>4, <2>2, <2>3
<1>7. Settled(j) BY <1>4 DEF Settled
<1> QED BY <1>1, <1>2, <1>4, <1>5, <1>6, <1>7

LEMMA ClaimKeeps ==
  ASSUME OutboxInv, NEW d \in Dispatchers, ClaimKey(d)
  PROVE  OutboxInv'
<1>0. UNCHANGED <<state, inbox, effects>> BY DEF ClaimKey, eventRows
<1>1. CASE Key(d) \in inbox
  <2>1. NextHandler(d, FALSE) /\ dispatch[d].pc \in {"publish", "apply"} BY <1>1 DEF ClaimKey, At
  <2>2. LET j == dispatch'[d] IN
        Goes(d, j) /\ Shaped(j) /\ Covered(j, inbox') /\ Settled(j) /\ j.pc = "publish"
    BY <1>0, <1>1, <2>1, NextKeeps
  <2>3. Covered(dispatch'[d], inbox) BY <1>0, <2>2
  <2> QED BY <1>0, <2>2, <2>3, MovesOn
<1>2. CASE Key(d) \notin inbox
  <2> DEFINE i == dispatch[d]  j == [i EXCEPT !.pc = "apply"]
  <2>1. Goes(d, j) /\ i.pc = "publish" BY <1>2 DEF ClaimKey, At
  <2>2. /\ i = [pc |-> i.pc, todo |-> i.todo, e |-> i.e, k |-> i.k, err |-> i.err]
        /\ i.k \in Nat /\ i.err \in BOOLEAN
    BY <2>1 DEF OutboxInv, Jobs1, Shaped, Busy
  <2>3. j = [pc |-> "apply", todo |-> i.todo, e |-> i.e, k |-> i.k, err |-> i.err] BY <2>2
  <2>4. j.pc = "apply" /\ j.e = i.e /\ j.k = i.k /\ j.err = i.err /\ j.todo = i.todo BY <2>3
  <2>5. DOMAIN dispatch' = Dispatchers /\ dispatch'[d] = j BY <2>1 DEF OutboxInv, Goes
  <2>6. \A o \in Dispatchers : o # d => dispatch'[o] = dispatch[o] BY <2>1 DEF OutboxInv, Goes
  <2>7. Shaped(j) /\ Covered(j, inbox) /\ Settled(j)
    BY <2>1, <2>2, <2>3, <2>4 DEF OutboxInv, Jobs1, Shaped, Covered, Settled
  <2>8. Jobs1'
    BY <1>0, <2>5, <2>6, <2>7 DEF OutboxInv, Jobs1, Shaped, Covered, Settled
  <2>9. Key(d)' = Key(d) BY <2>4, <2>5 DEF Key
  <2>10. \A o \in Dispatchers : o # d => Key(o)' = Key(o) /\ (At(o, "apply")' <=> At(o, "apply"))
    BY <2>6 DEF Key, At
  <2>11. \A o \in Dispatchers : At(o, "apply") => Key(o) # Key(d) BY DEF ClaimKey
  <2>12. Alone' BY <1>0, <1>2, <2>9, <2>10, <2>11 DEF OutboxInv, Alone
  <2> QED BY <1>0, <2>5, <2>8, <2>12 DEF OutboxInv, Exactly, AllClaimed
<1> QED BY <1>1, <1>2

LEMMA ApplyKeeps ==
  ASSUME OutboxInv, NEW d \in Dispatchers, Apply(d)
  PROVE  OutboxInv'
<1>1. /\ At(d, "apply") /\ NextHandler(d, FALSE)
      /\ effects' = [effects EXCEPT ![Key(d)] = @ + 1] /\ inbox' = inbox \cup {Key(d)}
      /\ UNCHANGED state
  BY DEF Apply, Commit, eventRows
<1>2. Key(d) \notin inbox /\ \A o \in Dispatchers : At(o, "apply") /\ o # d => Key(o) # Key(d)
  BY <1>1 DEF OutboxInv, Alone
<1>3. LET j == dispatch'[d] IN
      Goes(d, j) /\ Shaped(j) /\ Covered(j, inbox') /\ Settled(j) /\ j.pc = "publish"
  BY <1>1, NextKeeps DEF At
<1>4. DOMAIN dispatch' = Dispatchers /\ \A o \in Dispatchers : o # d => dispatch'[o] = dispatch[o]
  BY <1>3 DEF OutboxInv, Goes
<1>5. ASSUME NEW o \in Dispatchers PROVE Shaped(dispatch'[o]) /\ Covered(dispatch'[o], inbox') /\ Settled(dispatch'[o])
  <2>1. CASE o = d BY <2>1, <1>3
  <2>2. CASE o # d
    BY <1>1, <1>4, <2>2 DEF OutboxInv, Jobs1, Shaped, Covered, Settled
  <2> QED BY <2>1, <2>2
<1>6. Jobs1' BY <1>5 DEF Jobs1, Shaped, Covered, Settled
<1>7. Alone' BY <1>1, <1>2, <1>3, <1>4 DEF OutboxInv, Alone, At, Key
<1>8. DOMAIN effects' = Keys /\ Exactly' BY <1>1, <1>2 DEF OutboxInv, Exactly
<1>9. AllClaimed' BY <1>1 DEF OutboxInv, AllClaimed
<1> QED BY <1>1, <1>4, <1>6, <1>7, <1>8, <1>9 DEF OutboxInv

LEMMA RaiseKeeps ==
  ASSUME OutboxInv, NEW d \in Dispatchers, Raise(d)
  PROVE  OutboxInv'
<1>1. UNCHANGED <<state, inbox, effects>> /\ NextHandler(d, TRUE) /\ dispatch[d].pc \in {"publish", "apply"}
  BY DEF Raise, eventRows, At
<1>2. LET j == dispatch'[d] IN
      Goes(d, j) /\ Shaped(j) /\ Covered(j, inbox') /\ Settled(j) /\ j.pc = "publish"
  BY <1>1, NextKeeps
<1>3. Covered(dispatch'[d], inbox) BY <1>1, <1>2
<1> QED BY <1>1, <1>2, <1>3, MovesOn

LEMMA PublishedKeeps ==
  ASSUME OutboxInv, NEW d \in Dispatchers, Published(d)
  PROVE  OutboxInv'
<1> DEFINE i == dispatch[d]  j == Outcome(d)
<1>1. /\ UNCHANGED <<state, inbox, effects>> /\ Goes(d, j)
      /\ i.pc = "publish" /\ i.k > Len(Handlers)
  BY DEF Published, eventRows, At
<1>2. /\ i = [pc |-> i.pc, todo |-> i.todo, e |-> i.e, k |-> i.k, err |-> i.err]
      /\ i.k \in Nat /\ i.err \in BOOLEAN
  BY <1>1 DEF OutboxInv, Jobs1, Shaped, Busy
<1>3. j = [pc |-> IF i.err THEN "failed" ELSE "mark",
           todo |-> i.todo, e |-> i.e, k |-> i.k, err |-> i.err]
  BY <1>2 DEF Outcome
<1>4. /\ j.pc = IF i.err THEN "failed" ELSE "mark"
      /\ j.todo = i.todo /\ j.e = i.e /\ j.k = i.k /\ j.err = i.err
  BY <1>3
<1>5. Shaped(j) BY <1>2, <1>3, <1>4 DEF Shaped
<1>6. Covered(j, inbox) BY <1>1, <1>4 DEF OutboxInv, Jobs1, Covered
<1>7. Settled(j) /\ j.pc # "apply" BY <1>1, <1>4 DEF Settled
<1> HIDE DEF j
<1> QED BY <1>1, <1>5, <1>6, <1>7, MovesOn

LEMMA MarkKeeps ==
  ASSUME OutboxInv, NEW d \in Dispatchers, Mark(d)
  PROVE  OutboxInv'
<1> DEFINE e == dispatch[d].e  j == Pass(dispatch[d].todo)
<1>1. /\ At(d, "mark") /\ Goes(d, j) /\ UNCHANGED <<inbox, effects>>
      /\ state' = [state EXCEPT ![e] = "published"]
  BY DEF Mark
<1>2. \A i \in 1 .. Len(Handlers) : <<Handlers[i], e>> \in inbox
  BY <1>1 DEF OutboxInv, Jobs1, Covered, Settled, Shaped, At, Busy
<1>3. \A c \in Consumers : <<c, e>> \in inbox
  <2> SUFFICES ASSUME NEW c \in Consumers PROVE <<c, e>> \in inbox OBVIOUS
  <2>1. PICK k \in DOMAIN Handlers : Handlers[k] = c BY OutboxAssumption
  <2>2. DOMAIN Handlers = 1 .. Len(Handlers) BY OutboxAssumption
  <2> QED BY <1>2, <2>1, <2>2
<1>4. DOMAIN state' = Events /\ AllClaimed' BY <1>1, <1>3 DEF OutboxInv, AllClaimed
<1>5. Shaped(j) /\ Covered(j, inbox) /\ Settled(j) /\ j.pc # "apply" BY PassIsOutside, Outside
<1>6. DOMAIN dispatch' = Dispatchers /\ dispatch'[d] = j BY <1>1 DEF OutboxInv, Goes
<1>7. \A o \in Dispatchers : o # d => dispatch'[o] = dispatch[o] BY <1>1 DEF OutboxInv, Goes
<1>8. Jobs1' BY <1>1, <1>5, <1>6, <1>7 DEF OutboxInv, Jobs1, Shaped, Covered, Settled
<1>9. Alone' BY <1>1, <1>5, <1>6, <1>7 DEF OutboxInv, Alone, At, Key
<1> QED BY <1>1, <1>4, <1>6, <1>8, <1>9 DEF OutboxInv, Exactly

\* The steps that leave the fan-out alone, or begin it.
LEMMA OthersKeep ==
  ASSUME OutboxInv, NEW d \in Dispatchers,
         Poll(d) \/ Reload(d) \/ ReadAttempts(d) \/ WriteAttempts(d) \/ Die(d)
  PROVE  OutboxInv'
<1> USE DEF eventRows
<1>1. UNCHANGED <<state, inbox, effects>>
  BY DEF Poll, Reload, ReadAttempts, WriteAttempts, Die
<1>2. \/ Goes(d, NoBatch) \/ \E todo : Goes(d, Pass(todo))
      \/ \E rest, e : Goes(d, [pc |-> "publish", todo |-> rest, e |-> e, k |-> 1, err |-> FALSE])
      \/ \E rest, e, n : Goes(d, [pc |-> "count", todo |-> rest, e |-> e, n |-> n])
  BY DEF Poll, Reload, ReadAttempts, WriteAttempts, Die
<1>3. CASE Goes(d, NoBatch)
  <2>1. NoBatch.pc \notin Busy BY DEF NoBatch, Busy
  <2> QED BY <1>1, <1>3, <2>1, Outside, MovesOn
<1>4. ASSUME NEW todo, Goes(d, Pass(todo)) PROVE OutboxInv'
  BY <1>1, <1>4, PassIsOutside, Outside, MovesOn
<1>5. ASSUME NEW rest, NEW e,
             Goes(d, [pc |-> "publish", todo |-> rest, e |-> e, k |-> 1, err |-> FALSE])
      PROVE  OutboxInv'
  <2> DEFINE j == [pc |-> "publish", todo |-> rest, e |-> e, k |-> 1, err |-> FALSE]
  <2>1. Shaped(j) /\ Covered(j, inbox) /\ Settled(j) /\ j.pc # "apply"
    BY DEF Shaped, Covered, Settled
  <2> HIDE DEF j
  <2> QED BY <1>1, <1>5, <2>1, MovesOn DEF j
<1>6. ASSUME NEW rest, NEW e, NEW n, Goes(d, [pc |-> "count", todo |-> rest, e |-> e, n |-> n])
      PROVE  OutboxInv'
  <2> DEFINE j == [pc |-> "count", todo |-> rest, e |-> e, n |-> n]
  <2>1. j.pc \notin Busy BY DEF Busy
  <2> HIDE DEF j
  <2> QED BY <1>1, <1>6, <2>1, Outside, MovesOn DEF j
<1> QED BY <1>2, <1>3, <1>4, <1>5, <1>6

LEMMA EnqueueKeeps ==
  ASSUME OutboxInv, NEW e \in Events, EnqueueEvent(e)
  PROVE  OutboxInv'
<1>1. UNCHANGED <<inbox, effects, dispatch>> /\ state' = [state EXCEPT ![e] = "pending"] BY DEF EnqueueEvent
<1>2. Jobs1' /\ Alone' /\ Exactly'
  BY <1>1 DEF OutboxInv, Jobs1, Alone, Exactly, Shaped, Covered, Settled, At, Key
<1> QED BY <1>1, <1>2 DEF OutboxInv, AllClaimed

\* The inductive invariant of every behaviour.
THEOREM OutboxInvariant == OutboxSpec => []OutboxInv
<1>1. OutboxInit => OutboxInv
  <2> SUFFICES ASSUME OutboxInit PROVE OutboxInv OBVIOUS
  <2>1. \A d \in Dispatchers : dispatch[d].pc = "idle" BY DEF OutboxInit, NoBatch
  <2>2. Jobs1 BY <2>1 DEF Jobs1, Shaped, Covered, Settled, Busy
  <2>3. Alone BY <2>1 DEF Alone, At
  <2> QED BY <2>2, <2>3 DEF OutboxInit, OutboxInv, Exactly, AllClaimed, Keys
<1>2. OutboxInv /\ [OutboxNext]_outboxVars => OutboxInv'
  <2> SUFFICES ASSUME OutboxInv, [OutboxNext]_outboxVars PROVE OutboxInv' OBVIOUS
  <2>1. ASSUME NEW e \in Events, EnqueueEvent(e) PROVE OutboxInv' BY <2>1, EnqueueKeeps
  <2>2. ASSUME NEW d \in Dispatchers, Dispatch(d) \/ Die(d) PROVE OutboxInv'
    BY <2>2, OthersKeep, ClaimKeeps, ApplyKeeps, RaiseKeeps, PublishedKeeps, MarkKeeps DEF Dispatch
  <2>3. CASE UNCHANGED outboxVars
    BY <2>3 DEF outboxVars, eventRows, OutboxInv, Jobs1, Alone, Exactly, AllClaimed,
                Shaped, Covered, Settled, At, Key
  <2> QED BY <2>1, <2>2, <2>3 DEF OutboxNext
<1> QED BY <1>1, <1>2, PTL DEF OutboxSpec

\* An event that is marked published has had its effects at every consumer.
THEOREM MarkedMeansHandled == OutboxSpec => []MarkedWasHandled
<1>1. OutboxInv => MarkedWasHandled
  BY DEF OutboxInv, AllClaimed, Exactly, MarkedWasHandled, Keys
<1> QED BY <1>1, OutboxInvariant, PTL

\* No redelivery repeats a consumer's effects.
THEOREM EffectsAreOnce == OutboxSpec => []EffectsHappenOnce
<1>1. OutboxInv => EffectsHappenOnce
  BY DEF OutboxInv, Exactly, EffectsHappenOnce, Keys
<1> QED BY <1>1, OutboxInvariant, PTL
=============================================================================
