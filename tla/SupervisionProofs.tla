------------------------- MODULE SupervisionProofs -------------------------
(***************************************************************************)
(* For any number of commands, requests and faults: the latest row is the  *)
(* serving daemon's; commands run once and in order; and a stop that       *)
(* reached everybody sticks.                                               *)
(*                                                                         *)
(* The argument: the lock is exclusive (OneHolder), so the rows are        *)
(* written by its holder alone, except for the control flags and for what  *)
(* the death of a process makes of its own rows; and the holder marks the  *)
(* rows it finds before it adds its own (Owns).  From there, batches hold  *)
(* what is pending and older (CommandInv), and whoever a stop has reached  *)
(* can only fall towards its end (StopInv).                                *)
(***************************************************************************)
EXTENDS Supervision, TLAPS

Process == [at : Places, row : Nat, batch : SUBSET Nat, cmd : Nat, restart : BOOLEAN]

Row == [status : Active \cup {"ended"}, owner : Launchers, alive : BOOLEAN,
        stale : BOOLEAN, shutdown : BOOLEAN, restart : BOOLEAN]

Statuses == {"pending", "running", "ended"}

Typed == d \in [Launchers -> Process] /\ rows \in Seq(Row) /\ cmds \in Seq(Statuses)

OneHolder == \A p, q \in Launchers : d[p].at \in Holding /\ d[q].at \in Holding => p = q

Rowless == {"off", "gate", "acquire", "orphans", "create"}

\* What a process x of launcher p knows of the rows R.
Owns(p, x, R) ==
  /\ x.at \in Rowless => x.row = 0
  /\ x.at \in {"stale", "start"} \cup Serving => x.row # 0
  /\ x.row # 0 =>
       /\ x.row = Len(R) /\ R[x.row].alive /\ R[x.row].owner = p
       /\ x.at # "release" => R[x.row].status \in Active
       /\ x.at \in Serving => R[x.row].status = "running"
  /\ x.row # 0 \/ x.at = "create" =>
       \A i \in DOMAIN R : R[i].status \in Active => i = x.row

SupervisionInv ==
  Typed /\ OneHolder /\ \A p \in Launchers : Owns(p, d[p], rows)

USE DEF Launchers

-----------------------------------------------------------------------------
(* How the invariant is kept, by what a step touches.                      *)

\* R is the same rows as S, but for their flags and the lives of others than p.
Alike(p, R, S) ==
  /\ Len(R) = Len(S) /\ DOMAIN R = DOMAIN S
  /\ \A i \in DOMAIN S :
       /\ R[i].status = S[i].status /\ R[i].owner = S[i].owner
       /\ S[i].owner = p => R[i].alive = S[i].alive

LEMMA OwnsAlike ==
  ASSUME NEW p, NEW x \in Process, NEW R \in Seq(Row), NEW S \in Seq(Row),
         Alike(p, R, S), Owns(p, x, S)
  PROVE  Owns(p, x, R)
<1>1. x.row # 0 => x.row \in DOMAIN S
  BY DEF Owns, Process
<1> QED BY <1>1 DEF Owns, Alike

\* A process that does not hold the lock has no row.
LEMMA NoLockNoRow ==
  ASSUME NEW p, NEW x \in Process, NEW R, NEW S, Owns(p, x, S), x.at \notin Holding
  PROVE  Owns(p, x, R)
BY DEF Owns, Process, Places, Holding, Booting, Serving, Ending, Rowless

\* A step of the holder.
LEMMA HolderKeeps ==
  ASSUME SupervisionInv, NEW p \in Launchers, d[p].at \in Holding,
         d' \in [Launchers -> Process], rows' \in Seq(Row), cmds' \in Seq(Statuses),
         \A q \in Launchers \ {p} : d'[q] = d[q],
         Owns(p, d'[p], rows')
  PROVE  SupervisionInv'
<1>1. ASSUME NEW q \in Launchers, q # p PROVE d[q].at \notin Holding
  BY <1>1 DEF SupervisionInv, OneHolder
<1>2. OneHolder' BY <1>1 DEF OneHolder
<1>3. ASSUME NEW q \in Launchers, q # p PROVE Owns(q, d'[q], rows')
  <2>1. d[q] \in Process /\ Owns(q, d[q], rows) BY DEF SupervisionInv, Typed
  <2> QED BY <1>1, <1>3, <2>1, NoLockNoRow
<1> QED BY <1>2, <1>3 DEF SupervisionInv, Typed

\* A step of a process that holds no lock after it; rows change at most in the
\* lives of its own.
LEMMA OutsiderKeeps ==
  ASSUME SupervisionInv, NEW p \in Launchers,
         d' \in [Launchers -> Process], rows' \in Seq(Row), cmds' \in Seq(Statuses),
         \A q \in Launchers \ {p} : d'[q] = d[q] /\ Alike(q, rows', rows),
         d'[p].at \notin Holding, d'[p].row = 0
  PROVE  SupervisionInv'
<1>1. OneHolder' BY DEF SupervisionInv, OneHolder
<1>2. ASSUME NEW q \in Launchers, q # p PROVE Owns(q, d'[q], rows')
  <2>1. d[q] \in Process /\ Owns(q, d[q], rows) /\ rows \in Seq(Row) BY DEF SupervisionInv, Typed
  <2> QED BY <1>2, <2>1, OwnsAlike
<1>3. Owns(p, d'[p], rows')
  BY DEF Owns, Holding, Booting, Serving
<1> QED BY <1>1, <1>2, <1>3 DEF SupervisionInv, Typed

\* A step of nobody's: rows change at most in their flags.
LEMMA NobodyKeeps ==
  ASSUME SupervisionInv, UNCHANGED d, rows' \in Seq(Row), cmds' \in Seq(Statuses),
         \A q \in Launchers : Alike(q, rows', rows)
  PROVE  SupervisionInv'
<1>1. OneHolder' BY DEF SupervisionInv, OneHolder
<1>2. ASSUME NEW q \in Launchers PROVE Owns(q, d'[q], rows')
  <2>1. d[q] \in Process /\ Owns(q, d[q], rows) /\ rows \in Seq(Row) BY DEF SupervisionInv, Typed
  <2> QED BY <2>1, OwnsAlike
<1> QED BY <1>1, <1>2 DEF SupervisionInv, Typed

LEMMA Nothing ==
  ASSUME SupervisionInv, UNCHANGED <<d, rows, cmds>>
  PROVE  SupervisionInv'
BY DEF SupervisionInv, Typed, OneHolder

-----------------------------------------------------------------------------
(* The building blocks.                                                    *)

LEMMA OffIsTyped == Off \in Process /\ Boot \in Process /\ Off.at = "off" /\ Boot.at = "acquire"
                    /\ Off.row = 0 /\ Boot.row = 0
BY DEF Off, Boot, Process, Places

LEMMA ExitKeeps ==
  ASSUME SupervisionInv, NEW p \in Launchers, Exit(p), UNCHANGED cmds
  PROVE  SupervisionInv'
<1> DEFINE R == [i \in DOMAIN rows |->
                IF rows[i].owner = p THEN [rows[i] EXCEPT !.alive = FALSE] ELSE rows[i]]
<1>1. d' = [d EXCEPT ![p] = Off] /\ rows' = R BY DEF Exit
<1>2. d \in [Launchers -> Process] /\ rows \in Seq(Row) /\ cmds \in Seq(Statuses) BY DEF SupervisionInv, Typed
<1>3. d' \in [Launchers -> Process] /\ d'[p] = Off /\ \A q \in Launchers \ {p} : d'[q] = d[q]
  BY <1>1, <1>2, OffIsTyped
<1>4. \A i \in DOMAIN rows : rows[i] \in Row BY <1>2
<1>5. \A i \in DOMAIN rows : R[i] \in Row BY <1>4 DEF Row
<1>6. R \in Seq(Row) /\ Len(R) = Len(rows) BY <1>2, <1>5
<1>7. ASSUME NEW q \in Launchers \ {p} PROVE Alike(q, R, rows)
  BY <1>4, <1>6, <1>7 DEF Alike, Row
<1> HIDE DEF R
<1> QED BY <1>1, <1>2, <1>3, <1>6, <1>7, OffIsTyped, OutsiderKeeps DEF Holding, Booting, Serving, Ending

LEMMA FlagKeeps ==
  ASSUME SupervisionInv, NEW restart \in BOOLEAN, Flag(restart), UNCHANGED <<d, cmds>>
  PROVE  SupervisionInv'
<1> DEFINE R == [i \in DOMAIN rows |->
             IF IsActive(i)
             THEN [rows[i] EXCEPT !.shutdown = TRUE, !.restart = restart \/ @]
             ELSE rows[i]]
<1>1. rows' = R BY DEF Flag
<1>2. rows \in Seq(Row) /\ cmds \in Seq(Statuses) BY DEF SupervisionInv, Typed
<1>3. \A i \in DOMAIN rows : rows[i] \in Row BY <1>2
<1>4. ASSUME NEW i \in DOMAIN rows PROVE R[i] \in Row
  <2>1. (restart \/ rows[i].restart) \in BOOLEAN OBVIOUS
  <2>2. [rows[i] EXCEPT !.shutdown = TRUE, !.restart = restart \/ rows[i].restart] \in Row
    BY <1>3, <2>1 DEF Row
  <2>3. rows[i] \in Row BY <1>3
  <2>4. CASE IsActive(i) BY <2>2, <2>4, Zenon
  <2>5. CASE ~IsActive(i) BY <2>3, <2>5, Zenon
  <2> QED BY <2>4, <2>5
<1>5. ASSUME NEW i \in DOMAIN rows
      PROVE  R[i].status = rows[i].status /\ R[i].owner = rows[i].owner /\ R[i].alive = rows[i].alive
  <2>1. CASE IsActive(i)
    <3>1. R[i] = [rows[i] EXCEPT !.shutdown = TRUE, !.restart = restart \/ rows[i].restart]
      BY <2>1, Zenon
    <3> DEFINE flag == restart \/ rows[i].restart
    <3>2. R[i] = [rows[i] EXCEPT !.shutdown = TRUE, !.restart = flag] BY <3>1, Zenon
    <3> HIDE DEF flag, R
    <3> QED BY <1>3, <3>2 DEF Row
  <2>2. CASE ~IsActive(i) BY <2>2, Zenon
  <2> QED BY <2>1, <2>2
<1>6. R = [i \in DOMAIN rows |-> R[i]] BY Zenon
<1> HIDE DEF R
<1>7. R \in Seq(Row) /\ Len(R) = Len(rows) /\ DOMAIN R = DOMAIN rows BY <1>2, <1>4, <1>6
<1>8. ASSUME NEW q \in Launchers PROVE Alike(q, R, rows)
  BY <1>5, <1>7 DEF Alike
<1> QED BY <1>1, <1>2, <1>7, <1>8, NobodyKeeps

LEMMA LaunchKeeps ==
  ASSUME SupervisionInv, NEW p \in Launchers, d[p].at \notin Holding, UNCHANGED <<rows, cmds>>,
         NEW x \in Process, x.row = 0, x.at \notin Holding, d' = [d EXCEPT ![p] = x]
  PROVE  SupervisionInv'
<1>1. d \in [Launchers -> Process] /\ rows \in Seq(Row) /\ cmds \in Seq(Statuses) BY DEF SupervisionInv, Typed
<1>2. d' \in [Launchers -> Process] /\ d'[p] = x /\ \A q \in Launchers \ {p} : d'[q] = d[q] BY <1>1
<1>3. \A q \in Launchers : Alike(q, rows', rows) BY DEF Alike
<1> QED BY <1>1, <1>2, <1>3, OutsiderKeeps

LEMMA StartTaskKeeps ==
  ASSUME SupervisionInv, StartTask, UNCHANGED <<rows, cmds>>
  PROVE  SupervisionInv'
<1>1. CASE At("task", "off")
  <2>1. [Off EXCEPT !.at = "gate"] \in Process /\ [Off EXCEPT !.at = "gate"].row = 0
        /\ [Off EXCEPT !.at = "gate"].at \notin Holding
    BY DEF Off, Process, Places, Holding, Booting, Serving, Ending
  <2>2. d["task"].at \notin Holding BY <1>1 DEF At, Holding, Booting, Serving, Ending
  <2> QED BY <1>1, <2>1, <2>2, LaunchKeeps DEF StartTask
<1>2. CASE ~At("task", "off")
  BY <1>2, Nothing DEF StartTask
<1> QED BY <1>1, <1>2

LEMMA EndTaskKeeps ==
  ASSUME SupervisionInv, EndTask, UNCHANGED cmds
  PROVE  SupervisionInv'
BY ExitKeeps, Nothing DEF EndTask

-----------------------------------------------------------------------------
(* The daemon's own steps.                                                 *)

\* The effect of a step that sends p elsewhere.
LEMMA Went ==
  ASSUME Typed, NEW p \in Launchers, NEW place \in Places, Go(p, place)
  PROVE  /\ d' \in [Launchers -> Process]
         /\ \A q \in Launchers \ {p} : d'[q] = d[q]
         /\ d'[p].at = place /\ d'[p].row = d[p].row
BY DEF Typed, Go, Process

\* The holder goes on within what it knows.
LEMMA GoKeeps ==
  ASSUME SupervisionInv, NEW p \in Launchers, NEW place \in Holding, d[p].at \in Holding,
         d' \in [Launchers -> Process], \A q \in Launchers \ {p} : d'[q] = d[q],
         d'[p].at = place, d'[p].row = d[p].row,
         UNCHANGED rows, cmds' \in Seq(Statuses),
         place \in Serving => d[p].at \in Serving,
         place \in Booting => d[p].at = "stale" /\ place = "start",
         d[p].at = "release" => place = "release"
  PROVE  SupervisionInv'
<1>1. Owns(p, d[p], rows) /\ rows \in Seq(Row) BY DEF SupervisionInv, Typed
<1>2. Owns(p, d'[p], rows')
  BY <1>1 DEF Owns, Holding, Booting, Serving, Ending, Rowless
<1> QED BY <1>1, <1>2, HolderKeeps

LEMMA OrphanedIsTyped ==
  ASSUME Typed
  PROVE  /\ Orphaned \in Seq(Row) /\ Len(Orphaned) = Len(rows) /\ DOMAIN Orphaned = DOMAIN rows
         /\ \A i \in DOMAIN rows : Orphaned[i].status \notin Active
<1>1. rows \in Seq(Row) BY DEF Typed
<1>2. \A i \in DOMAIN rows : rows[i] \in Row /\ i > 0 BY <1>1
<1>3. \A i \in DOMAIN rows : Orphaned[i] \in Row /\ Orphaned[i].status \notin Active
  BY <1>2 DEF Orphaned, Row, IsActive, Active
<1>4. Orphaned \in Seq(Row) /\ Len(Orphaned) = Len(rows) /\ DOMAIN Orphaned = DOMAIN rows
  BY <1>1, <1>3 DEF Orphaned
<1> QED BY <1>3, <1>4

LEMMA BootKeeps ==
  ASSUME SupervisionInv, NEW p \in Launchers,
         Acquire(p) \/ MarkOrphaned(p) \/ CreateInstance(p) \/ FailStale(p) \/ MarkRunning(p)
  PROVE  SupervisionInv'
<1>1. Typed /\ Owns(p, d[p], rows) BY DEF SupervisionInv
<1>2. d \in [Launchers -> Process] /\ rows \in Seq(Row) /\ cmds \in Seq(Statuses) BY <1>1 DEF Typed
<1>3. CASE Acquire(p)
  <2>1. CASE Locked(p) BY <1>3, <2>1, ExitKeeps DEF Acquire
  <2>2. CASE ~Locked(p)
    <3>1. Go(p, "orphans") /\ UNCHANGED <<rows, cmds>> BY <1>3, <2>2 DEF Acquire
    <3>2. d' \in [Launchers -> Process] /\ (\A q \in Launchers \ {p} : d'[q] = d[q])
          /\ d'[p].at = "orphans" /\ d'[p].row = d[p].row
      BY <1>1, <3>1, Went DEF Places, Holding, Booting
    <3>3. \A q \in Launchers \ {p} : d[q].at \notin Holding BY <2>2 DEF Locked
    <3>4. OneHolder' BY <3>2, <3>3 DEF OneHolder
    <3>5. d[p].at = "acquire" BY <1>3 DEF Acquire, At
    <3>6. Owns(p, d'[p], rows')
      BY <1>1, <3>1, <3>2, <3>5 DEF Owns, Rowless, Serving
    <3> QED BY <1>2, <3>1, <3>2, <3>4, <3>6 DEF SupervisionInv, Typed
  <2> QED BY <2>1, <2>2
<1>4. CASE MarkOrphaned(p)
  <2>1. d' \in [Launchers -> Process] /\ (\A q \in Launchers \ {p} : d'[q] = d[q])
        /\ d'[p].at = "create" /\ d'[p].row = d[p].row
    BY <1>1, <1>4, Went DEF MarkOrphaned, Places, Holding, Booting
  <2>2. rows' = Orphaned /\ d[p].at = "orphans" /\ UNCHANGED cmds BY <1>4 DEF MarkOrphaned, At
  <2>3. d[p].row = 0 BY <1>1, <2>2 DEF Owns, Rowless
  <2>4. Owns(p, d'[p], rows')
    BY <1>1, <2>1, <2>2, <2>3, OrphanedIsTyped DEF Owns, Serving
  <2> QED BY <1>1, <1>2, <2>1, <2>2, <2>4, OrphanedIsTyped, HolderKeeps DEF Holding, Booting
<1>5. CASE CreateInstance(p)
  <2> DEFINE new == [status |-> "starting", owner |-> p, alive |-> TRUE,
                     stale |-> FALSE, shutdown |-> FALSE, restart |-> FALSE]
  <2>1. d[p].at = "create" /\ rows' = Append(rows, new) /\ UNCHANGED cmds
        /\ d' = [d EXCEPT ![p].at = "stale", ![p].row = Len(rows) + 1]
    BY <1>5 DEF CreateInstance, At
  <2>2. Len(rows) \in Nat BY <1>2
  <2>3. d' \in [Launchers -> Process] /\ (\A q \in Launchers \ {p} : d'[q] = d[q])
        /\ d'[p].at = "stale" /\ d'[p].row = Len(rows) + 1
    <3> DEFINE y == [d[p] EXCEPT !.at = "stale"]
    <3> DEFINE x == [y EXCEPT !.row = Len(rows) + 1]
    <3>1. d[p] \in Process /\ "stale" \in Places BY <1>2 DEF Places, Holding, Booting
    <3>2. y \in Process /\ y.at = "stale" BY <3>1 DEF Process
    <3>a. d' = [d EXCEPT ![p] = [[d[p] EXCEPT !.at = "stale"] EXCEPT !.row = Len(rows) + 1]]
      BY <1>2, <2>1
    <3> HIDE DEF y
    <3>3. x \in Process /\ x.at = "stale" /\ x.row = Len(rows) + 1
      BY <2>2, <3>2 DEF Process
    <3>4. d' = [d EXCEPT ![p] = x] BY <3>a DEF y
    <3> HIDE DEF x
    <3> QED BY <1>2, <3>3, <3>4
  <2>4. new \in Row BY DEF Row, Active
  <2>5. rows' \in Seq(Row) /\ Len(rows') = Len(rows) + 1 /\ rows'[Len(rows) + 1] = new
        /\ \A i \in DOMAIN rows' : (i \in DOMAIN rows /\ rows'[i] = rows[i]) \/ i = Len(rows) + 1
    BY <1>2, <2>1, <2>4
  <2>6. d[p].row = 0 BY <1>1, <2>1 DEF Owns, Rowless
  <2>7. \A i \in DOMAIN rows : rows[i].status \notin Active
    BY <1>1, <1>2, <2>1, <2>6 DEF Owns
  <2>8. Owns(p, d'[p], rows')
    BY <2>2, <2>3, <2>5, <2>7 DEF Owns, Rowless, Serving, Active
  <2> QED BY <1>2, <2>1, <2>3, <2>5, <2>8, HolderKeeps DEF Holding, Booting
<1>6. CASE FailStale(p)
  <2>1. d' \in [Launchers -> Process] /\ (\A q \in Launchers \ {p} : d'[q] = d[q])
        /\ d'[p].at = "start" /\ d'[p].row = d[p].row
    BY <1>1, <1>6, Went DEF FailStale, Places, Holding, Booting
  <2>2. cmds' \in Seq(Statuses) /\ d[p].at = "stale" /\ UNCHANGED rows
    BY <1>2, <1>6 DEF FailStale, At, Statuses
  <2> QED BY <2>1, <2>2, GoKeeps DEF Holding, Booting, Serving
<1>7. CASE MarkRunning(p)
  <2>1. d' \in [Launchers -> Process] /\ (\A q \in Launchers \ {p} : d'[q] = d[q])
        /\ d'[p].at = "serve" /\ d'[p].row = d[p].row
    BY <1>1, <1>7, Went DEF MarkRunning, Places, Holding, Serving
  <2>2. d[p].at = "start" /\ UNCHANGED cmds /\ rows' = [rows EXCEPT ![d[p].row].status = "running"]
    BY <1>7 DEF MarkRunning, At, Write
  <2>3. d[p].row # 0 /\ d[p].row \in DOMAIN rows
    BY <1>1, <1>2, <2>2 DEF Owns, Process
  <2>4. rows[d[p].row] \in Row BY <1>2, <2>3
  <2>5. [rows[d[p].row] EXCEPT !.status = "running"] \in Row BY <2>4 DEF Row, Active
  <2>6. rows' \in Seq(Row) /\ Len(rows') = Len(rows) /\ DOMAIN rows' = DOMAIN rows
        /\ rows'[d[p].row] = [rows[d[p].row] EXCEPT !.status = "running"]
        /\ \A i \in DOMAIN rows : i # d[p].row => rows'[i] = rows[i]
    BY <1>2, <2>2, <2>3, <2>5
  <2>7. rows'[d[p].row].status = "running" /\ rows'[d[p].row].alive = rows[d[p].row].alive
        /\ rows'[d[p].row].owner = rows[d[p].row].owner
    BY <2>4, <2>6 DEF Row
  <2>8. Owns(p, d'[p], rows')
    BY <1>1, <2>1, <2>2, <2>3, <2>6, <2>7 DEF Owns, Rowless, Serving, Active
  <2> QED BY <1>2, <2>1, <2>2, <2>6, <2>8, HolderKeeps DEF Holding, Booting
<1> QED BY <1>3, <1>4, <1>5, <1>6, <1>7

\* A heartbeat, on time or overdue: rows change in a flag of p's.
LEMMA BeatIsAFlag ==
  ASSUME Typed, NEW i \in DOMAIN rows, NEW stale \in BOOLEAN,
         rows' = [rows EXCEPT ![i].stale = stale]
  PROVE  /\ rows' \in Seq(Row)
         /\ \A q \in Launchers : Alike(q, rows', rows)
<1>1. rows \in Seq(Row) BY DEF Typed
<1>2. rows[i] \in Row BY <1>1
<1> DEFINE r == [rows[i] EXCEPT !.stale = stale]
<1>3. r \in Row /\ r.status = rows[i].status /\ r.owner = rows[i].owner /\ r.alive = rows[i].alive
  BY <1>2 DEF Row
<1>4. rows' = [rows EXCEPT ![i] = r] OBVIOUS
<1> HIDE DEF r
<1>5. rows' \in Seq(Row) /\ Len(rows') = Len(rows) /\ DOMAIN rows' = DOMAIN rows
      /\ rows'[i] = r /\ \A j \in DOMAIN rows : j # i => rows'[j] = rows[j]
  BY <1>1, <1>3, <1>4
<1> QED BY <1>3, <1>5 DEF Alike

\* What a serving process knows of its row.
LEMMA HasRow ==
  ASSUME SupervisionInv, NEW p \in Launchers, d[p].row # 0
  PROVE  d[p].row \in DOMAIN rows /\ d[p].row = Len(rows)
BY DEF SupervisionInv, Typed, Owns, Process

LEMMA BeatKeeps ==
  ASSUME SupervisionInv, NEW p \in Launchers, Beat(p)
  PROVE  SupervisionInv'
<1>1. d \in [Launchers -> Process] /\ rows \in Seq(Row) /\ cmds \in Seq(Statuses) /\ Typed
      /\ Owns(p, d[p], rows)
  BY DEF SupervisionInv, Typed
<1>2. d[p].at = "serve" /\ UNCHANGED cmds /\ rows' = [rows EXCEPT ![d[p].row].stale = FALSE]
  BY DEF Beat, At
<1>3. d[p].row # 0 BY <1>1, <1>2 DEF Owns, Serving
<1>4. d[p].row \in DOMAIN rows BY <1>3, HasRow
<1>5. rows' \in Seq(Row) /\ Alike(p, rows', rows) BY <1>1, <1>2, <1>4, BeatIsAFlag
<1> DEFINE batch == {c \in DOMAIN cmds : cmds[c] = "pending"}
<1> DEFINE flag == rows[d[p].row].restart
<1> DEFINE x == [d[p] EXCEPT !.at = "halt"]
<1>6. batch \in SUBSET Nat BY <1>1
<1>7. flag \in BOOLEAN
  <2>1. rows[d[p].row] \in Row BY <1>1, <1>4
  <2> QED BY <2>1, Zenon DEF Row
<1>8. d[p] \in Process /\ "halt" \in Places BY <1>1 DEF Places, Holding, Ending
<1>9. x \in Process /\ x.at = "halt" /\ x.row = d[p].row BY <1>8 DEF Process
<1>10. \/ d' = [d EXCEPT ![p] = [[d[p] EXCEPT !.at = "halt"] EXCEPT !.restart = flag]]
       \/ d' = [d EXCEPT ![p] = [d[p] EXCEPT !.batch = batch]]
  BY <1>1 DEF Beat
<1>11. [d[p] EXCEPT !.batch = batch] \in Process /\ [d[p] EXCEPT !.batch = batch].at = "serve"
       /\ [d[p] EXCEPT !.batch = batch].row = d[p].row
  BY <1>2, <1>6, <1>8 DEF Process
<1> HIDE DEF batch, flag, x
<1>12. [x EXCEPT !.restart = flag] \in Process /\ [x EXCEPT !.restart = flag].at = "halt"
       /\ [x EXCEPT !.restart = flag].row = d[p].row
  BY <1>7, <1>9 DEF Process
<1>13. d' = [d EXCEPT ![p] = [x EXCEPT !.restart = flag]] \/ d' = [d EXCEPT ![p] = [d[p] EXCEPT !.batch = batch]]
  BY <1>10 DEF x
<1>14. d' \in [Launchers -> Process] /\ (\A q \in Launchers \ {p} : d'[q] = d[q])
       /\ d'[p].at \in {"halt", "serve"} /\ d'[p].row = d[p].row
  BY <1>1, <1>11, <1>12, <1>13
<1>15. Owns(p, d'[p], rows)
  BY <1>1, <1>2, <1>3, <1>14 DEF Owns, Rowless, Serving
<1>16. Owns(p, d'[p], rows') BY <1>1, <1>5, <1>14, <1>15, OwnsAlike
<1> QED BY <1>1, <1>2, <1>5, <1>14, <1>16, HolderKeeps DEF Holding, Serving

LEMMA CommandKeeps ==
  ASSUME SupervisionInv, NEW p \in Launchers, Claim(p) \/ Execute(p) \/ Complete(p)
  PROVE  SupervisionInv'
<1>1. d \in [Launchers -> Process] /\ cmds \in Seq(Statuses) /\ Typed BY DEF SupervisionInv, Typed
<1>2. d[p] \in Process BY <1>1
<1>3. CASE Claim(p)
  <2>1. PICK c \in d[p].batch :
          /\ d' = [d EXCEPT ![p].batch = @ \ {c},
                            ![p].cmd = IF cmds[c] = "pending" THEN c ELSE 0,
                            ![p].at = IF cmds[c] = "pending" THEN "exec" ELSE "serve"]
          /\ cmds' = IF cmds[c] = "pending" THEN [cmds EXCEPT ![c] = "running"] ELSE cmds
    BY <1>3 DEF Claim
  <2>2. c \in Nat /\ d[p].batch \ {c} \in SUBSET Nat BY <1>2 DEF Process
  <2> DEFINE place == IF cmds[c] = "pending" THEN "exec" ELSE "serve"
  <2> DEFINE n == IF cmds[c] = "pending" THEN c ELSE 0
  <2> DEFINE x == [d[p] EXCEPT !.batch = d[p].batch \ {c}]
  <2> DEFINE y == [x EXCEPT !.cmd = n]
  <2>3. d' = [d EXCEPT ![p] = [[[d[p] EXCEPT !.batch = d[p].batch \ {c}] EXCEPT !.cmd = n] EXCEPT !.at = place]]
    BY <1>1, <2>1
  <2>4. place \in {"exec", "serve"} /\ place \in Places /\ n \in Nat
    BY <2>2 DEF Places, Holding, Serving
  <2>5. x \in Process /\ x.row = d[p].row BY <1>2, <2>2 DEF Process
  <2> HIDE DEF place, n, x
  <2>6. y \in Process /\ y.row = d[p].row BY <2>4, <2>5 DEF Process
  <2> HIDE DEF y
  <2>7. [y EXCEPT !.at = place] \in Process /\ [y EXCEPT !.at = place].row = d[p].row
        /\ [y EXCEPT !.at = place].at = place
    BY <2>4, <2>6 DEF Process
  <2>8. d' = [d EXCEPT ![p] = [y EXCEPT !.at = place]] BY <2>3 DEF x, y
  <2>9. d' \in [Launchers -> Process] /\ (\A q \in Launchers \ {p} : d'[q] = d[q])
        /\ d'[p].at = place /\ d'[p].row = d[p].row
    BY <1>1, <2>7, <2>8
  <2>10. cmds' \in Seq(Statuses) BY <1>1, <2>1, <2>2 DEF Statuses
  <2>11. d[p].at = "serve" /\ UNCHANGED rows BY <1>3 DEF Claim, At
  <2> QED BY <2>4, <2>9, <2>10, <2>11, GoKeeps DEF Holding, Serving, Booting
<1>4. CASE Execute(p)
  <2>1. d' \in [Launchers -> Process] /\ (\A q \in Launchers \ {p} : d'[q] = d[q])
        /\ d'[p].at = "await" /\ d'[p].row = d[p].row
    BY <1>1, <1>4, Went DEF Execute, Places, Holding, Serving
  <2>2. d[p].at = "exec" /\ UNCHANGED <<rows, cmds>> BY <1>4 DEF Execute, At
  <2> QED BY <1>1, <2>1, <2>2, GoKeeps DEF Holding, Serving, Booting
<1>5. CASE Complete(p)
  <2> DEFINE x == [d[p] EXCEPT !.at = "serve"]
  <2>1. d' = [d EXCEPT ![p] = [[d[p] EXCEPT !.at = "serve"] EXCEPT !.cmd = 0]]
    BY <1>1, <1>5 DEF Complete
  <2>2. x \in Process /\ x.at = "serve" /\ x.row = d[p].row
    BY <1>2 DEF Process, Places, Holding, Serving
  <2> HIDE DEF x
  <2>3. [x EXCEPT !.cmd = 0] \in Process /\ [x EXCEPT !.cmd = 0].at = "serve"
        /\ [x EXCEPT !.cmd = 0].row = d[p].row
    BY <2>2 DEF Process
  <2>4. d' = [d EXCEPT ![p] = [x EXCEPT !.cmd = 0]] BY <2>1 DEF x
  <2>5. d' \in [Launchers -> Process] /\ (\A q \in Launchers \ {p} : d'[q] = d[q])
        /\ d'[p].at = "serve" /\ d'[p].row = d[p].row
    BY <1>1, <2>3, <2>4
  <2>6. cmds' \in Seq(Statuses) BY <1>1, <1>5 DEF Complete, Statuses
  <2>7. d[p].at = "await" /\ UNCHANGED rows BY <1>5 DEF Complete, At
  <2> QED BY <2>5, <2>6, <2>7, GoKeeps DEF Holding, Serving, Booting
<1> QED BY <1>3, <1>4, <1>5

LEMMA EndingKeeps ==
  ASSUME SupervisionInv, NEW p \in Launchers, MarkStopping(p) \/ MarkStopped(p) \/ Release(p)
  PROVE  SupervisionInv'
<1>1. d \in [Launchers -> Process] /\ rows \in Seq(Row) /\ cmds \in Seq(Statuses) /\ Typed
      /\ Owns(p, d[p], rows)
  BY DEF SupervisionInv, Typed
<1>2. ASSUME NEW place \in {"stopping", "release"}, NEW status \in {"stopping", "ended"},
             Go(p, place), Ended(p, status), UNCHANGED cmds,
             place = "stopping" => status = "stopping" /\ d[p].at = "halt",
             place = "release" => d[p].at = "stopping"
      PROVE  SupervisionInv'
  <2>1. d' \in [Launchers -> Process] /\ (\A q \in Launchers \ {p} : d'[q] = d[q])
        /\ d'[p].at = place /\ d'[p].row = d[p].row
    BY <1>1, <1>2, Went DEF Places, Holding, Ending
  <2>2. CASE UNCHANGED rows
    BY <1>1, <1>2, <2>1, <2>2, GoKeeps DEF Holding, Serving, Booting, Ending
  <2>3. CASE d[p].row # 0 /\ Write(d[p].row, status)
    <3>1. d[p].row \in DOMAIN rows /\ d[p].row = Len(rows) BY <2>3, HasRow
    <3> DEFINE r == [rows[d[p].row] EXCEPT !.status = status]
    <3>2. rows[d[p].row] \in Row BY <1>1, <3>1
    <3>3. r \in Row /\ r.status = status /\ r.owner = rows[d[p].row].owner
          /\ r.alive = rows[d[p].row].alive
      BY <3>2 DEF Row, Active
    <3>4. rows' = [rows EXCEPT ![d[p].row] = r] BY <2>3 DEF Write
    <3> HIDE DEF r
    <3>5. rows' \in Seq(Row) /\ Len(rows') = Len(rows) /\ DOMAIN rows' = DOMAIN rows
          /\ rows'[d[p].row] = r /\ \A i \in DOMAIN rows : i # d[p].row => rows'[i] = rows[i]
      BY <1>1, <3>1, <3>3, <3>4
    <3>6. place = "stopping" => status \in Active BY <1>2 DEF Active
    <3>7. Owns(p, d'[p], rows')
      BY <1>1, <1>2, <2>1, <2>3, <3>1, <3>3, <3>5, <3>6 DEF Owns, Rowless, Serving
    <3> QED BY <1>1, <1>2, <2>1, <3>5, <3>7, HolderKeeps DEF Holding, Ending
  <2> QED BY <1>2, <2>2, <2>3 DEF Ended
<1>3. CASE MarkStopping(p) BY <1>2, <1>3 DEF MarkStopping, At
<1>4. CASE MarkStopped(p) BY <1>2, <1>4 DEF MarkStopped, At
<1>5. CASE Release(p)
  <2>1. CASE ~d[p].restart BY <1>5, <2>1, ExitKeeps DEF Release
  <2>2. CASE d[p].restart
    <3>1. d' = [d EXCEPT ![p] = Boot] /\ UNCHANGED <<rows, cmds>> BY <1>5, <2>2 DEF Release
    <3>2. d' \in [Launchers -> Process] /\ d'[p] = Boot /\ \A q \in Launchers \ {p} : d'[q] = d[q]
      BY <1>1, <3>1, OffIsTyped
    <3>3. \A q \in Launchers : Alike(q, rows', rows) BY <3>1 DEF Alike
    <3> QED BY <1>1, <3>1, <3>2, <3>3, OffIsTyped, OutsiderKeeps DEF Holding, Booting, Serving, Ending
  <2> QED BY <2>1, <2>2
<1> QED BY <1>3, <1>4, <1>5

LEMMA GateKeeps ==
  ASSUME SupervisionInv, Gate
  PROVE  SupervisionInv'
<1>1. CASE paused BY <1>1, ExitKeeps DEF Gate
<1>2. CASE ~paused
  <2>1. d["task"].at \notin Holding BY DEF Gate, At, Holding, Booting, Serving, Ending
  <2>2. Boot.at \notin Holding BY OffIsTyped DEF Holding, Booting, Serving, Ending
  <2> QED BY <1>2, <2>1, <2>2, OffIsTyped, LaunchKeeps DEF Gate
<1> QED BY <1>1, <1>2

LEMMA FaultKeeps ==
  ASSUME SupervisionInv, NEW p \in Launchers, Fatal(p) \/ Crash(p) \/ Lapse(p)
  PROVE  SupervisionInv'
<1>1. d \in [Launchers -> Process] /\ rows \in Seq(Row) /\ cmds \in Seq(Statuses) /\ Typed
  BY DEF SupervisionInv, Typed
<1>2. CASE Fatal(p)
  <2> DEFINE x == [Off EXCEPT !.at = "halt"]
  <2>1. d' = [d EXCEPT ![p] = [[Off EXCEPT !.at = "halt"] EXCEPT !.row = d[p].row]] BY <1>2 DEF Fatal
  <2>2. x \in Process /\ x.at = "halt" BY DEF Off, Process, Places, Holding, Ending
  <2>3. d[p].row \in Nat BY <1>1 DEF Process
  <2> HIDE DEF x
  <2>4. [x EXCEPT !.row = d[p].row] \in Process /\ [x EXCEPT !.row = d[p].row].at = "halt"
        /\ [x EXCEPT !.row = d[p].row].row = d[p].row
    BY <2>2, <2>3 DEF Process
  <2>5. d' = [d EXCEPT ![p] = [x EXCEPT !.row = d[p].row]] BY <2>1 DEF x
  <2>6. d' \in [Launchers -> Process] /\ (\A q \in Launchers \ {p} : d'[q] = d[q])
        /\ d'[p].at = "halt" /\ d'[p].row = d[p].row
    BY <1>1, <2>4, <2>5
  <2>7. d[p].at \in Booting \cup Serving /\ UNCHANGED <<rows, cmds>> BY <1>2 DEF Fatal
  <2> QED BY <1>1, <2>6, <2>7, GoKeeps DEF Holding, Booting, Serving, Ending
<1>3. CASE Crash(p) BY <1>3, ExitKeeps DEF Crash
<1>4. CASE Lapse(p)
  <2>1. d[p].row # 0 /\ rows' = [rows EXCEPT ![d[p].row].stale = TRUE] /\ UNCHANGED <<d, cmds>>
    BY <1>4 DEF Lapse
  <2>2. d[p].row \in DOMAIN rows BY <2>1, HasRow
  <2>3. rows' \in Seq(Row) /\ \A q \in Launchers : Alike(q, rows', rows)
    BY <1>1, <2>1, <2>2, BeatIsAFlag
  <2> QED BY <1>1, <2>1, <2>3, NobodyKeeps
<1> QED BY <1>2, <1>3, <1>4

-----------------------------------------------------------------------------
(* Everybody else's steps.                                                 *)

LEMMA WatchdogKeeps ==
  ASSUME SupervisionInv, Trigger \/ Watchdog
  PROVE  SupervisionInv'
<1>1. CASE Trigger BY <1>1, StartTaskKeeps DEF Trigger
<1>2. CASE DogTrigger \/ DogGate \/ DogLook \/ DogWait
  BY <1>2, Nothing DEF DogTrigger, DogGate, DogLook, DogWait
<1>3. CASE DogEnd BY <1>3, EndTaskKeeps DEF DogEnd
<1>4. CASE DogStart BY <1>4, StartTaskKeeps DEF DogStart
<1> QED BY <1>1, <1>2, <1>3, <1>4 DEF Watchdog

LEMMA ServiceKeeps ==
  ASSUME SupervisionInv, Service
  PROVE  SupervisionInv'
<1>1. CASE StopRequest BY <1>1, FlagKeeps DEF StopRequest
<1>2. CASE StopWait \/ StopReap BY <1>2, Nothing DEF StopWait, StopReap
<1>3. CASE StopEnd BY <1>3, EndTaskKeeps, Nothing DEF StopEnd
<1>4. CASE StartRun BY <1>4, StartTaskKeeps DEF StartRun
<1> QED BY <1>1, <1>2, <1>3, <1>4 DEF Service

LEMMA OperatorKeeps ==
  ASSUME SupervisionInv, Operator
  PROVE  SupervisionInv'
<1>1. CASE StopCall \/ StartCall BY <1>1, Nothing DEF StopCall, StartCall
<1>2. CASE DaemonRequest BY <1>2, FlagKeeps DEF DaemonRequest
<1>3. CASE DaemonRun
  <2>1. d["manual"].at \notin Holding /\ Boot.at \notin Holding
    BY <1>3, OffIsTyped DEF DaemonRun, At, Holding, Booting, Serving, Ending
  <2> QED BY <1>3, <2>1, OffIsTyped, LaunchKeeps DEF DaemonRun
<1>4. CASE Interrupt
  <2>1. d \in [Launchers -> Process] /\ cmds \in Seq(Statuses) BY DEF SupervisionInv, Typed
  <2> DEFINE x == [d["manual"] EXCEPT !.at = "halt"]
  <2>2. d' = [d EXCEPT !["manual"] = [[d["manual"] EXCEPT !.at = "halt"] EXCEPT !.restart = FALSE]]
    BY <1>4, <2>1 DEF Interrupt
  <2>3. x \in Process /\ x.at = "halt" /\ x.row = d["manual"].row
    BY <2>1 DEF Process, Places, Holding, Ending
  <2> HIDE DEF x
  <2>4. [x EXCEPT !.restart = FALSE] \in Process /\ [x EXCEPT !.restart = FALSE].at = "halt"
        /\ [x EXCEPT !.restart = FALSE].row = d["manual"].row
    BY <2>3 DEF Process
  <2>5. d' = [d EXCEPT !["manual"] = [x EXCEPT !.restart = FALSE]] BY <2>2 DEF x
  <2>6. d' \in [Launchers -> Process] /\ (\A q \in Launchers \ {"manual"} : d'[q] = d[q])
        /\ d'["manual"].at = "halt" /\ d'["manual"].row = d["manual"].row
    BY <2>1, <2>4, <2>5
  <2>7. d["manual"].at = "serve" /\ UNCHANGED <<rows, cmds>> BY <1>4 DEF Interrupt, At
  <2> QED BY <2>1, <2>6, <2>7, GoKeeps DEF Holding, Booting, Serving, Ending
<1>5. CASE Submit
  <2>1. rows \in Seq(Row) /\ cmds' \in Seq(Statuses) /\ UNCHANGED <<d, rows>>
    BY <1>5 DEF Submit, SupervisionInv, Typed, Statuses
  <2>2. \A q \in Launchers : Alike(q, rows', rows) BY <2>1 DEF Alike
  <2> QED BY <2>1, <2>2, NobodyKeeps
<1> QED BY <1>1, <1>2, <1>3, <1>4, <1>5 DEF Operator

-----------------------------------------------------------------------------
\* The invariant: at most one process holds the lock, and what it knows of its
\* row (runtime/daemon.py, domain/runtime/daemon.py) is so.
THEOREM SupervisionInvariant == Spec => []SupervisionInv
<1>1. Init => SupervisionInv
  <2> SUFFICES ASSUME Init PROVE SupervisionInv OBVIOUS
  <2>1. d = [p \in Launchers |-> Off] /\ rows = <<>> /\ cmds = <<>> BY DEF Init
  <2>2. Typed BY <2>1, OffIsTyped DEF Typed
  <2>3. OneHolder BY <2>1, OffIsTyped DEF OneHolder, Holding, Booting, Serving, Ending
  <2>4. \A p \in Launchers : Owns(p, d[p], rows)
    BY <2>1, OffIsTyped DEF Owns, Serving
  <2> QED BY <2>2, <2>3, <2>4 DEF SupervisionInv
<1>2. SupervisionInv /\ [Next]_vars => SupervisionInv'
  <2> SUFFICES ASSUME SupervisionInv, [Next]_vars PROVE SupervisionInv' OBVIOUS
  <2>1. CASE UNCHANGED vars BY <2>1, Nothing DEF vars
  <2>2. ASSUME NEW p \in Launchers, Run(p) PROVE SupervisionInv'
    BY <2>2, GateKeeps, BootKeeps, BeatKeeps, CommandKeeps, EndingKeeps DEF Run
  <2>3. ASSUME NEW p \in Launchers, Fatal(p) \/ Crash(p) \/ Lapse(p) PROVE SupervisionInv'
    BY <2>3, FaultKeeps
  <2> QED BY <2>1, <2>2, <2>3, WatchdogKeeps, ServiceKeeps, OperatorKeeps DEF Next
<1> QED BY <1>1, <1>2, PTL DEF Spec

\* Whatever the launchers, the watchdog and the operator do, and whatever fails:
\* the latest row is that of the daemon that serves, active and alive, and no
\* other row is active.
THEOREM HealthIsOfTheDaemon == Spec => []LatestRowIsTheDaemon
<1>1. SupervisionInv => LatestRowIsTheDaemon
  <2> SUFFICES ASSUME SupervisionInv, NEW p \in Launchers, d[p].row # 0, d[p].at # "release"
               PROVE  /\ d[p].row = Latest /\ ProcessAlive(Latest)
                      /\ d[p].at \in Serving => rows[Latest].status = "running"
                      /\ \A i \in DOMAIN rows : IsActive(i) => i = Latest
    BY DEF LatestRowIsTheDaemon
  <2>1. Owns(p, d[p], rows) BY DEF SupervisionInv
  <2>2. d[p].row \in DOMAIN rows /\ d[p].row = Len(rows) BY HasRow
  <2>3. d[p].row > 0 BY <2>2 DEF SupervisionInv, Typed
  <2> QED BY <2>1, <2>2, <2>3 DEF Owns, Latest, ProcessAlive, IsActive
<1> QED BY <1>1, SupervisionInvariant, PTL

-----------------------------------------------------------------------------
(* The commands: a batch holds whatever is pending and older than one of   *)
(* its members, so the one that is claimed is newer than all that ran.     *)

Settled(n) == \A e \in DOMAIN cmds : e <= n => cmds[e] # "pending"

BatchIsClosed ==
  \A p \in Launchers :
    /\ d[p].batch \subseteq DOMAIN cmds
    /\ \A c \in d[p].batch, e \in DOMAIN cmds :
         cmds[e] = "pending" /\ e < c => e \in d[p].batch

NextToRun ==
  \A p \in Launchers :
    d[p].at = "exec" =>
      d[p].cmd \in DOMAIN cmds /\ Settled(d[p].cmd) /\ \A i \in DOMAIN ran : ran[i] < d[p].cmd

RanIsSettled ==
  /\ ran \in Seq(Nat)
  /\ \A i \in DOMAIN ran : ran[i] \in DOMAIN cmds /\ Settled(ran[i])

CommandInv == BatchIsClosed /\ NextToRun /\ RanIsSettled /\ CommandsRunOnceInOrder

\* Processes forget, commands settle, and nothing runs.
LEMMA ForgettingKeeps ==
  ASSUME SupervisionInv, CommandInv, UNCHANGED ran,
         DOMAIN cmds' = DOMAIN cmds,
         \A e \in DOMAIN cmds : cmds'[e] = "pending" => cmds[e] = "pending",
         \A p \in Launchers :
           /\ d'[p].batch = d[p].batch \/ d'[p].batch = {}
           /\ d'[p].at = "exec" => d[p].at = "exec" /\ d'[p].cmd = d[p].cmd
  PROVE  CommandInv'
<1>1. BatchIsClosed' BY DEF CommandInv, BatchIsClosed
<1>2. ASSUME NEW n, Settled(n) PROVE Settled(n)' BY <1>2 DEF Settled
<1>3. NextToRun' BY <1>2 DEF CommandInv, NextToRun
<1>4. RanIsSettled' BY <1>2 DEF CommandInv, RanIsSettled
<1>5. CommandsRunOnceInOrder' BY DEF CommandInv, CommandsRunOnceInOrder
<1> QED BY <1>1, <1>3, <1>4, <1>5 DEF CommandInv

LEMMA SameCommands ==
  ASSUME SupervisionInv, CommandInv, UNCHANGED <<ran, cmds>>,
         \A p \in Launchers :
           /\ d'[p].batch = d[p].batch \/ d'[p].batch = {}
           /\ d'[p].at = "exec" => d[p].at = "exec" /\ d'[p].cmd = d[p].cmd
  PROVE  CommandInv'
BY ForgettingKeeps

\* What the places of a process are set to, besides those of a command's.
LEMMA ProcessesMove ==
  ASSUME SupervisionInv, NEW p \in Launchers,
         \/ \E place \in Places \ {"exec"} : Go(p, place)
         \/ Exit(p) \/ d' = [d EXCEPT ![p] = Boot]
         \/ StartTask \/ EndTask \/ UNCHANGED d
         \/ Fatal(p) \/ Interrupt \/ CreateInstance(p)
  PROVE  \A q \in Launchers :
           /\ d'[q].batch = d[q].batch \/ d'[q].batch = {}
           /\ d'[q].at = "exec" => d[q].at = "exec" /\ d'[q].cmd = d[q].cmd
<1>1. d \in [Launchers -> Process] BY DEF SupervisionInv, Typed
<1>2. CASE \E place \in Places \ {"exec"} : Go(p, place) BY <1>1, <1>2 DEF Go, Process
<1>3. CASE Exit(p) BY <1>1, <1>3 DEF Exit, Off
<1>4. CASE d' = [d EXCEPT ![p] = Boot] BY <1>1, <1>4 DEF Boot, Off
<1>5. CASE StartTask BY <1>1, <1>5 DEF StartTask, Off
<1>6. CASE EndTask BY <1>1, <1>6 DEF EndTask, Exit, Off
<1>7. CASE Fatal(p) BY <1>1, <1>7 DEF Fatal, Off
<1>8. CASE Interrupt BY <1>1, <1>8 DEF Interrupt, Process
<1>9. CASE CreateInstance(p) BY <1>1, <1>9 DEF CreateInstance, Process
<1> QED BY <1>2, <1>3, <1>4, <1>5, <1>6, <1>7, <1>8, <1>9

LEMMA FillingKeeps ==
  ASSUME SupervisionInv, CommandInv, NEW p \in Launchers, Beat(p)
  PROVE  CommandInv'
<1>1. d \in [Launchers -> Process] BY DEF SupervisionInv, Typed
<1>2. UNCHANGED <<ran, cmds>> BY DEF Beat
<1> DEFINE batch == {c \in DOMAIN cmds : cmds[c] = "pending"}
<1>3. CASE rows[d[p].row].shutdown
  <2>1. d' = [d EXCEPT ![p].at = "halt", ![p].restart = rows[d[p].row].restart]
    BY <1>3 DEF Beat
  <2> QED BY <1>1, <1>2, <2>1, SameCommands DEF Process
<1>4. CASE ~rows[d[p].row].shutdown
  <2>1. d' = [d EXCEPT ![p].batch = batch] BY <1>4 DEF Beat
  <2>2. \A q \in Launchers : q # p => d'[q] = d[q] BY <1>1, <2>1
  <2>3. d'[p].batch = batch /\ d'[p].at = "serve" BY <1>1, <2>1 DEF Beat, At, Process
  <2>4. BatchIsClosed' BY <1>2, <2>2, <2>3 DEF CommandInv, BatchIsClosed
  <2>5. NextToRun' BY <1>2, <2>2, <2>3 DEF CommandInv, NextToRun, Settled
  <2> QED BY <1>2, <2>4, <2>5 DEF CommandInv, RanIsSettled, Settled, CommandsRunOnceInOrder
<1> QED BY <1>3, <1>4

LEMMA ClaimingKeeps ==
  ASSUME SupervisionInv, CommandInv, NEW p \in Launchers, Claim(p)
  PROVE  CommandInv'
<1>1. d \in [Launchers -> Process] /\ cmds \in Seq(Statuses) BY DEF SupervisionInv, Typed
<1>2. PICK c \in d[p].batch :
        /\ \A e \in d[p].batch : c <= e
        /\ d' = [d EXCEPT ![p].batch = @ \ {c},
                          ![p].cmd = IF cmds[c] = "pending" THEN c ELSE 0,
                          ![p].at = IF cmds[c] = "pending" THEN "exec" ELSE "serve"]
        /\ cmds' = IF cmds[c] = "pending" THEN [cmds EXCEPT ![c] = "running"] ELSE cmds
  BY DEF Claim
<1>3. UNCHANGED ran BY DEF Claim
<1>4. c \in DOMAIN cmds /\ DOMAIN cmds \subseteq Nat BY <1>1 DEF CommandInv, BatchIsClosed
<1>5. \A q \in Launchers : q # p => d'[q] = d[q] BY <1>1, <1>2
<1>6. /\ d'[p].batch = d[p].batch \ {c}
      /\ d'[p].cmd = IF cmds[c] = "pending" THEN c ELSE 0
      /\ d'[p].at = IF cmds[c] = "pending" THEN "exec" ELSE "serve"
  BY <1>1, <1>2 DEF Process
<1>7. /\ DOMAIN cmds' = DOMAIN cmds
      /\ \A e \in DOMAIN cmds : cmds'[e] = "pending" => cmds[e] = "pending" /\ e # c
  BY <1>1, <1>2, <1>4
<1>8. \A n : Settled(n) => Settled(n)' BY <1>7 DEF Settled
<1>9. BatchIsClosed' BY <1>4, <1>5, <1>6, <1>7 DEF CommandInv, BatchIsClosed
<1>10. Settled(c)' BY <1>2, <1>4, <1>7 DEF CommandInv, BatchIsClosed, Settled
<1>11. cmds[c] = "pending" => \A i \in DOMAIN ran : ran[i] < c
  <2> SUFFICES ASSUME cmds[c] = "pending", NEW i \in DOMAIN ran PROVE ran[i] < c OBVIOUS
  <2>1. ran[i] \in DOMAIN cmds /\ Settled(ran[i]) BY DEF CommandInv, RanIsSettled
  <2> QED BY <1>4, <2>1 DEF Settled
<1>12. NextToRun' BY <1>3, <1>4, <1>5, <1>6, <1>7, <1>8, <1>10, <1>11 DEF CommandInv, NextToRun
<1>13. RanIsSettled' BY <1>3, <1>7, <1>8 DEF CommandInv, RanIsSettled
<1>14. CommandsRunOnceInOrder' BY <1>3 DEF CommandInv, CommandsRunOnceInOrder
<1> QED BY <1>9, <1>12, <1>13, <1>14 DEF CommandInv

LEMMA ExecutingKeeps ==
  ASSUME SupervisionInv, CommandInv, NEW p \in Launchers, Execute(p)
  PROVE  CommandInv'
<1>1. d \in [Launchers -> Process] BY DEF SupervisionInv, Typed
<1>2. d[p].at = "exec" /\ Go(p, "await") /\ UNCHANGED cmds /\ ran' \in {ran, Append(ran, d[p].cmd)}
  BY DEF Execute, At
<1>3. \A q \in Launchers : d'[q].batch = d[q].batch /\ (q # p => d'[q] = d[q])
  BY <1>1, <1>2 DEF Go, Process
<1>4. d'[p].at = "await" BY <1>1, <1>2 DEF Go, Process
<1>5. \A q \in Launchers : q # p => d[q].at # "exec"
  BY <1>2 DEF SupervisionInv, OneHolder, Holding, Serving
<1>6. BatchIsClosed' BY <1>2, <1>3 DEF CommandInv, BatchIsClosed
<1>7. NextToRun' BY <1>3, <1>4, <1>5 DEF NextToRun
<1>8. d[p].cmd \in DOMAIN cmds /\ Settled(d[p].cmd) /\ d[p].cmd \in Nat
      /\ \A i \in DOMAIN ran : ran[i] < d[p].cmd
  BY <1>1, <1>2 DEF CommandInv, NextToRun, Process
<1>9. \A n : Settled(n)' = Settled(n) BY <1>2 DEF Settled
<1>10. CASE ran' = ran
  <2>1. RanIsSettled' /\ CommandsRunOnceInOrder'
    BY <1>2, <1>9, <1>10 DEF CommandInv, RanIsSettled, CommandsRunOnceInOrder
  <2> QED BY <1>6, <1>7, <2>1 DEF CommandInv
<1>11. CASE ran' = Append(ran, d[p].cmd)
  <2>1. ran \in Seq(Nat) BY DEF CommandInv, RanIsSettled
  <2>2. ran' \in Seq(Nat) /\ \A i \in DOMAIN ran' :
          (i \in DOMAIN ran /\ ran'[i] = ran[i]) \/ (i = Len(ran) + 1 /\ ran'[i] = d[p].cmd)
    BY <1>8, <1>11, <2>1
  <2>3. RanIsSettled' BY <1>2, <1>8, <1>9, <2>2 DEF CommandInv, RanIsSettled
  <2>4. CommandsRunOnceInOrder'
    <3> SUFFICES ASSUME NEW i \in DOMAIN ran', NEW j \in DOMAIN ran', i < j
                 PROVE  ran'[i] < ran'[j]
      BY DEF CommandsRunOnceInOrder
    <3>1. i \in DOMAIN ran /\ ran'[i] = ran[i] BY <2>1, <2>2
    <3>2. CASE j \in DOMAIN ran /\ ran'[j] = ran[j]
      BY <3>1, <3>2 DEF CommandInv, CommandsRunOnceInOrder
    <3>3. CASE ran'[j] = d[p].cmd BY <1>8, <3>1, <3>3
    <3> QED BY <2>2, <3>2, <3>3
  <2> QED BY <1>6, <1>7, <2>3, <2>4 DEF CommandInv
<1> QED BY <1>2, <1>10, <1>11

LEMMA SettlingKeeps ==
  ASSUME SupervisionInv, CommandInv, NEW p \in Launchers, FailStale(p) \/ Complete(p)
  PROVE  CommandInv'
<1>1. d \in [Launchers -> Process] /\ cmds \in Seq(Statuses) BY DEF SupervisionInv, Typed
<1>2. UNCHANGED ran BY DEF FailStale, Complete
<1>3. \A q \in Launchers :
        /\ d'[q].batch = d[q].batch
        /\ d'[q].at = "exec" => d[q].at = "exec" /\ d'[q].cmd = d[q].cmd
  BY <1>1 DEF FailStale, Complete, Go, Process
<1>4. CASE FailStale(p)
  BY <1>2, <1>3, <1>4, ForgettingKeeps DEF FailStale
<1>5. CASE Complete(p)
  <2>1. DOMAIN cmds' = DOMAIN cmds /\ \A e \in DOMAIN cmds : cmds'[e] = "pending" => cmds[e] = "pending"
    BY <1>1, <1>5 DEF Complete
  <2> QED BY <1>2, <1>3, <2>1, ForgettingKeeps
<1> QED BY <1>4, <1>5

LEMMA SubmittingKeeps ==
  ASSUME SupervisionInv, CommandInv, Submit
  PROVE  CommandInv'
<1>1. cmds \in Seq(Statuses) /\ UNCHANGED <<d, ran>> /\ cmds' = Append(cmds, "pending")
  BY DEF SupervisionInv, Typed, Submit
<1>2. /\ DOMAIN cmds' = DOMAIN cmds \cup {Len(cmds) + 1} /\ Len(cmds) \in Nat
      /\ \A e \in DOMAIN cmds : cmds'[e] = cmds[e] /\ e \in Nat /\ e < Len(cmds) + 1
  BY <1>1
<1>3. ASSUME NEW n \in DOMAIN cmds, Settled(n) PROVE Settled(n)'
  BY <1>2, <1>3 DEF Settled
<1>4. BatchIsClosed' BY <1>1, <1>2 DEF CommandInv, BatchIsClosed
<1>5. NextToRun' BY <1>1, <1>2, <1>3 DEF CommandInv, NextToRun
<1>6. RanIsSettled' BY <1>1, <1>2, <1>3 DEF CommandInv, RanIsSettled
<1>7. CommandsRunOnceInOrder' BY <1>1 DEF CommandInv, CommandsRunOnceInOrder
<1> QED BY <1>4, <1>5, <1>6, <1>7 DEF CommandInv

\* Whoever serves, dies, restarts or takes over, with as many commands as may be:
\* commands are carried out in the order of submission, none of them twice.
THEOREM CommandsInOrder == Spec => []CommandsRunOnceInOrder
<1>1. Init => CommandInv
  <2> SUFFICES ASSUME Init PROVE CommandInv OBVIOUS
  <2>1. d = [p \in Launchers |-> Off] /\ cmds = <<>> /\ ran = <<>> BY DEF Init
  <2>2. BatchIsClosed /\ NextToRun BY <2>1 DEF BatchIsClosed, NextToRun, Off
  <2>3. RanIsSettled /\ CommandsRunOnceInOrder BY <2>1 DEF RanIsSettled, CommandsRunOnceInOrder
  <2> QED BY <2>2, <2>3 DEF CommandInv
<1>2. SupervisionInv /\ CommandInv /\ [Next]_vars => CommandInv'
  <2> SUFFICES ASSUME SupervisionInv, CommandInv, [Next]_vars PROVE CommandInv' OBVIOUS
  <2> USE DEF Places, Holding, Booting, Serving, Ending
  <2>1. CASE UNCHANGED vars BY <2>1, SameCommands DEF vars
  <2>2. ASSUME NEW p \in Launchers, Run(p) PROVE CommandInv'
    <3>1. CASE Gate BY <3>1, ProcessesMove, SameCommands DEF Gate
    <3>2. CASE Acquire(p) BY <3>2, ProcessesMove, SameCommands DEF Acquire
    <3>3. CASE MarkOrphaned(p) BY <3>3, ProcessesMove, SameCommands DEF MarkOrphaned
    <3>4. CASE CreateInstance(p)
      <4>1. UNCHANGED <<ran, cmds>> BY <3>4 DEF CreateInstance
      <4> QED BY <3>4, <4>1, ProcessesMove, SameCommands
    <3>5. CASE MarkRunning(p) BY <3>5, ProcessesMove, SameCommands DEF MarkRunning
    <3>6. CASE MarkStopping(p) BY <3>6, ProcessesMove, SameCommands DEF MarkStopping
    <3>7. CASE MarkStopped(p) BY <3>7, ProcessesMove, SameCommands DEF MarkStopped
    <3>8. CASE Release(p) BY <3>8, ProcessesMove, SameCommands DEF Release
    <3> QED BY <2>2, <3>1, <3>2, <3>3, <3>4, <3>5, <3>6, <3>7, <3>8,
               FillingKeeps, ClaimingKeeps, ExecutingKeeps, SettlingKeeps DEF Run
  <2>3. ASSUME NEW p \in Launchers, Fatal(p) \/ Crash(p) \/ Lapse(p) PROVE CommandInv'
    <3>1. CASE Fatal(p)
      <4>1. UNCHANGED <<ran, cmds>> BY <3>1 DEF Fatal
      <4> QED BY <3>1, <4>1, ProcessesMove, SameCommands
    <3>2. CASE Crash(p) BY <3>2, ProcessesMove, SameCommands DEF Crash
    <3>3. CASE Lapse(p) BY <3>3, SameCommands DEF Lapse
    <3> QED BY <2>3, <3>1, <3>2, <3>3
  <2>4. CASE Trigger BY <2>4, ProcessesMove, SameCommands DEF Trigger
  <2>5. CASE Watchdog
    <3>1. CASE DogTrigger \/ DogGate \/ DogLook \/ DogWait
      BY <3>1, SameCommands DEF DogTrigger, DogGate, DogLook, DogWait
    <3>2. CASE DogEnd BY <3>2, ProcessesMove, SameCommands DEF DogEnd
    <3>3. CASE DogStart BY <3>3, ProcessesMove, SameCommands DEF DogStart
    <3> QED BY <2>5, <3>1, <3>2, <3>3 DEF Watchdog
  <2>6. CASE Service
    <3>1. CASE StopRequest \/ StopWait \/ StopReap
      BY <3>1, SameCommands DEF StopRequest, StopWait, StopReap
    <3>2. CASE StopEnd
      <4>1. (EndTask \/ UNCHANGED d) /\ UNCHANGED <<ran, cmds>> BY <3>2 DEF StopEnd
      <4> QED BY <4>1, ProcessesMove, SameCommands
    <3>3. CASE StartRun BY <3>3, ProcessesMove, SameCommands DEF StartRun
    <3> QED BY <2>6, <3>1, <3>2, <3>3 DEF Service
  <2>7. CASE Operator
    <3>1. CASE StopCall \/ StartCall \/ DaemonRequest
      BY <3>1, SameCommands DEF StopCall, StartCall, DaemonRequest
    <3>2. CASE DaemonRun BY <3>2, ProcessesMove, SameCommands DEF DaemonRun
    <3>3. CASE Interrupt
      <4>1. UNCHANGED <<ran, cmds>> BY <3>3 DEF Interrupt
      <4> QED BY <3>3, <4>1, ProcessesMove, SameCommands
    <3> QED BY <2>7, <3>1, <3>2, <3>3, SubmittingKeeps DEF Operator
  <2> QED BY <2>1, <2>2, <2>3, <2>4, <2>5, <2>6, <2>7 DEF Next
<1> QED BY <1>1, <1>2, SupervisionInvariant, PTL DEF Spec, CommandInv

-----------------------------------------------------------------------------
(* A stop that reached everybody: from the request on, the processes can   *)
(* only fall, from serving to the end of their shutdown and off.           *)

Ours == {"stale", "start"} \cup Serving

\* Only a process that ends remembers a restart, and its row says so as well.
RestartIsFlagged ==
  \A p \in Launchers : d[p].restart => d[p].at \in Ending /\ (d[p].row # 0 => rows[d[p].row].restart)

\* A process that will not serve again before something is started.
Harmless(p) == d[p].at \in {"off", "gate"} \/ (d[p].at \in Ending /\ ~d[p].restart)

\* One that serves until it reads in its row that it is to end.
Doomed(p) ==
  Harmless(p) \/ (d[p].at \in Ours /\ rows[d[p].row].shutdown /\ ~rows[d[p].row].restart)

\* The task alone is left, and it is going to be ended.
OnlyTask == At("manual", "off") /\ ~op.hit

Requested == op.at \in {"request", "wait", "reap", "end"}
Flagged   == op.at \in {"wait", "reap", "end"} /\ op.sound
Waited    == op.at \in {"reap", "end"} /\ op.sound /\ op.gone

Findings == [at : {"idle", "request", "wait", "reap", "end", "start"},
             hit : BOOLEAN, gone : BOOLEAN, sound : BOOLEAN]

StopInv ==
  /\ op \in Findings
  /\ RestartIsFlagged
  /\ Requested => paused /\ ~report
  /\ report => paused
  /\ Flagged => OnlyTask \/ \A p \in Launchers : Doomed(p)
  /\ Waited => OnlyTask \/ \A p \in Launchers : Harmless(p)
  /\ op.sound /\ report => \A p \in Launchers : Harmless(p)

\* What a step of its own, of the scheduler's or of the watchdog's makes of a process.
Falls(p) ==
  \/ d'[p] = d[p]
  \/ d'[p].at = "off" /\ ~d'[p].restart
  \/ d'[p].at = "gate" /\ ~d'[p].restart /\ p = "task"
  \/ d[p].at \in {"acquire", "orphans", "create"} /\ (d'[p].restart => d[p].restart)
  \/ d[p].at = "gate" /\ ~paused /\ ~d'[p].restart
  \/ d[p].at \in Ours /\ d'[p].at \in Ours /\ d'[p].row = d[p].row /\ d'[p].restart = d[p].restart
  \/ d[p].at \in Ours /\ d'[p].at = "halt" /\ d'[p].row = d[p].row
     /\ (d'[p].restart => rows[d[p].row].restart)
  \/ d[p].at \in Ending /\ d'[p].at \in Ending /\ d'[p].row = d[p].row
     /\ d'[p].restart = d[p].restart
  \/ d[p].at = "release" /\ d[p].restart /\ ~d'[p].restart

\* The rows stay, and their control flags with them.
FlagsKept ==
  \A i \in DOMAIN rows : /\ i \in DOMAIN rows'
                         /\ rows'[i].shutdown = rows[i].shutdown
                         /\ rows'[i].restart = rows[i].restart

LEMMA OffFalls == Off.at = "off" /\ ~Off.restart /\ Boot.at = "acquire" /\ ~Boot.restart
BY DEF Off, Boot

LEMMA ExitFalls ==
  ASSUME SupervisionInv, NEW p \in Launchers, Exit(p)
  PROVE  FlagsKept /\ \A q \in Launchers : Falls(q)
<1>1. d \in [Launchers -> Process] /\ rows \in Seq(Row) BY DEF SupervisionInv, Typed
<1>2. d' = [d EXCEPT ![p] = Off] BY DEF Exit
<1>3. \A q \in Launchers : Falls(q) BY <1>1, <1>2, OffFalls DEF Falls
<1>4. rows' = [i \in DOMAIN rows |->
                IF rows[i].owner = p THEN [rows[i] EXCEPT !.alive = FALSE] ELSE rows[i]]
  BY DEF Exit
<1>5. \A i \in DOMAIN rows : rows[i] \in Row BY <1>1
<1>6. FlagsKept BY <1>4, <1>5 DEF FlagsKept, Row
<1> QED BY <1>3, <1>6

LEMMA SameRows == ASSUME UNCHANGED rows PROVE FlagsKept
BY DEF FlagsKept

LEMMA WriteKeepsFlags ==
  ASSUME Typed, NEW i \in DOMAIN rows, NEW status \in Active \cup {"ended"}, Write(i, status)
  PROVE  FlagsKept
<1>1. rows \in Seq(Row) /\ rows[i] \in Row BY DEF Typed
<1> DEFINE r == [rows[i] EXCEPT !.status = status]
<1>2. r.shutdown = rows[i].shutdown /\ r.restart = rows[i].restart BY <1>1 DEF Row
<1>3. rows' = [rows EXCEPT ![i] = r] BY DEF Write
<1> HIDE DEF r
<1>4. DOMAIN rows' = DOMAIN rows /\ rows'[i] = r /\ \A j \in DOMAIN rows : j # i => rows'[j] = rows[j]
  BY <1>1, <1>3
<1> QED BY <1>2, <1>4 DEF FlagsKept

LEMMA StaleKeepsFlags ==
  ASSUME Typed, NEW i \in DOMAIN rows, NEW stale \in BOOLEAN, rows' = [rows EXCEPT ![i].stale = stale]
  PROVE  FlagsKept
<1>1. rows \in Seq(Row) /\ rows[i] \in Row BY DEF Typed
<1> DEFINE r == [rows[i] EXCEPT !.stale = stale]
<1>2. r.shutdown = rows[i].shutdown /\ r.restart = rows[i].restart BY <1>1 DEF Row
<1>3. rows' = [rows EXCEPT ![i] = r] OBVIOUS
<1> HIDE DEF r
<1>4. DOMAIN rows' = DOMAIN rows /\ rows'[i] = r /\ \A j \in DOMAIN rows : j # i => rows'[j] = rows[j]
  BY <1>1, <1>3
<1> QED BY <1>2, <1>4 DEF FlagsKept

LEMMA OrphaningKeepsFlags == ASSUME Typed, rows' = Orphaned PROVE FlagsKept
<1>1. rows \in Seq(Row) BY DEF Typed
<1>2. \A i \in DOMAIN rows : rows[i] \in Row BY <1>1
<1> QED BY <1>2 DEF FlagsKept, Orphaned, Row

LEMMA WentOn ==
  ASSUME Typed, NEW p \in Launchers, NEW place, Go(p, place)
  PROVE  /\ \A q \in Launchers \ {p} : d'[q] = d[q]
         /\ d'[p].at = place /\ d'[p].row = d[p].row /\ d'[p].restart = d[p].restart
BY DEF Typed, Go, Process

LEMMA BootFalls ==
  ASSUME SupervisionInv, NEW p \in Launchers,
         Acquire(p) \/ MarkOrphaned(p) \/ CreateInstance(p) \/ FailStale(p) \/ MarkRunning(p)
  PROVE  FlagsKept /\ \A q \in Launchers : Falls(q)
<1>1. Typed /\ d \in [Launchers -> Process] /\ rows \in Seq(Row) /\ Owns(p, d[p], rows)
  BY DEF SupervisionInv, Typed
<1>2. CASE Acquire(p)
  <2>1. CASE Locked(p) BY <1>2, <2>1, ExitFalls DEF Acquire
  <2>2. CASE ~Locked(p)
    <3>1. Go(p, "orphans") /\ UNCHANGED rows /\ d[p].at = "acquire" BY <1>2, <2>2 DEF Acquire, At
    <3> QED BY <1>1, <3>1, WentOn, SameRows DEF Falls
  <2> QED BY <2>1, <2>2
<1>3. CASE MarkOrphaned(p)
  <2>1. Go(p, "create") /\ rows' = Orphaned /\ d[p].at = "orphans" BY <1>3 DEF MarkOrphaned, At
  <2> QED BY <1>1, <2>1, WentOn, OrphaningKeepsFlags DEF Falls
<1>4. CASE CreateInstance(p)
  <2>1. /\ d[p].at = "create" /\ d' = [d EXCEPT ![p].at = "stale", ![p].row = Len(rows) + 1]
        /\ rows' = Append(rows, [status |-> "starting", owner |-> p, alive |-> TRUE,
                                 stale |-> FALSE, shutdown |-> FALSE, restart |-> FALSE])
    BY <1>4 DEF CreateInstance, At
  <2>2. d'[p].restart = d[p].restart /\ \A q \in Launchers \ {p} : d'[q] = d[q]
    BY <1>1, <2>1 DEF Process
  <2> DEFINE new == [status |-> "starting", owner |-> p, alive |-> TRUE,
                     stale |-> FALSE, shutdown |-> FALSE, restart |-> FALSE]
  <2>3. new \in Row /\ rows' = Append(rows, new) BY <2>1 DEF Row, Active
  <2> HIDE DEF new
  <2>4. \A i \in DOMAIN rows : i \in DOMAIN rows' /\ rows'[i] = rows[i] BY <1>1, <2>3
  <2>5. FlagsKept BY <2>4 DEF FlagsKept
  <2> QED BY <2>1, <2>2, <2>5 DEF Falls
<1>5. CASE FailStale(p)
  <2>1. Go(p, "start") /\ UNCHANGED rows /\ d[p].at = "stale" BY <1>5 DEF FailStale, At
  <2> QED BY <1>1, <2>1, WentOn, SameRows DEF Falls, Ours
<1>6. CASE MarkRunning(p)
  <2>1. Go(p, "serve") /\ Write(d[p].row, "running") /\ d[p].at = "start" BY <1>6 DEF MarkRunning, At
  <2>2. d[p].row \in DOMAIN rows BY <1>1, <2>1, HasRow DEF Owns
  <2>3. FlagsKept BY <1>1, <2>1, <2>2, WriteKeepsFlags DEF Active
  <2> QED BY <1>1, <2>1, <2>3, WentOn DEF Falls, Ours, Serving
<1> QED BY <1>2, <1>3, <1>4, <1>5, <1>6

LEMMA ServeFalls ==
  ASSUME SupervisionInv, NEW p \in Launchers, Beat(p) \/ Claim(p) \/ Execute(p) \/ Complete(p)
  PROVE  FlagsKept /\ \A q \in Launchers : Falls(q)
<1>1. Typed /\ d \in [Launchers -> Process] /\ Owns(p, d[p], rows)
  BY DEF SupervisionInv, Typed
<1>2. CASE Beat(p)
  <2>1. d[p].at = "serve" /\ rows' = [rows EXCEPT ![d[p].row].stale = FALSE] BY <1>2 DEF Beat, At
  <2>2. d[p].row \in DOMAIN rows BY <1>1, <2>1, HasRow DEF Owns, Serving
  <2>3. FlagsKept BY <1>1, <2>1, <2>2, StaleKeepsFlags
  <2>4. \A q \in Launchers \ {p} : d'[q] = d[q] BY <1>1, <1>2 DEF Beat
  <2>5. CASE rows[d[p].row].shutdown
    <3>1. d' = [d EXCEPT ![p].at = "halt", ![p].restart = rows[d[p].row].restart]
      BY <1>2, <2>5 DEF Beat
    <3>2. d'[p].at = "halt" /\ d'[p].restart = rows[d[p].row].restart /\ d'[p].row = d[p].row
      BY <1>1, <3>1 DEF Process
    <3> QED BY <2>1, <2>3, <2>4, <3>2 DEF Falls, Ours, Serving
  <2>6. CASE ~rows[d[p].row].shutdown
    <3>1. d' = [d EXCEPT ![p].batch = {c \in DOMAIN cmds : cmds[c] = "pending"}]
      BY <1>2, <2>6 DEF Beat
    <3>2. d'[p].at = "serve" /\ d'[p].restart = d[p].restart /\ d'[p].row = d[p].row
      BY <1>1, <2>1, <3>1 DEF Process
    <3> QED BY <2>1, <2>3, <2>4, <3>2 DEF Falls, Ours, Serving
  <2> QED BY <2>5, <2>6
<1>3. CASE Claim(p)
  <2>1. /\ d'[p].at \in {"exec", "serve"} /\ d'[p].row = d[p].row /\ d'[p].restart = d[p].restart
        /\ \A q \in Launchers \ {p} : d'[q] = d[q]
    <3>1. PICK c \in d[p].batch :
            d' = [d EXCEPT ![p].batch = @ \ {c},
                           ![p].cmd = IF cmds[c] = "pending" THEN c ELSE 0,
                           ![p].at = IF cmds[c] = "pending" THEN "exec" ELSE "serve"]
      BY <1>3 DEF Claim
    <3> DEFINE place == IF cmds[c] = "pending" THEN "exec" ELSE "serve"
               n == IF cmds[c] = "pending" THEN c ELSE 0
               x == [d[p] EXCEPT !.batch = d[p].batch \ {c}, !.cmd = n, !.at = place]
    <3>2. d' = [d EXCEPT ![p] = x] BY <1>1, <3>1
    <3>3. place \in {"exec", "serve"} OBVIOUS
    <3> HIDE DEF place, n
    <3>4. x.at = place /\ x.row = d[p].row /\ x.restart = d[p].restart BY <1>1 DEF Process
    <3> HIDE DEF x
    <3> QED BY <1>1, <3>2, <3>3, <3>4
  <2>2. d[p].at = "serve" /\ UNCHANGED rows BY <1>3 DEF Claim, At
  <2> QED BY <2>1, <2>2, SameRows DEF Falls, Ours, Serving
<1>4. CASE Execute(p)
  <2>1. Go(p, "await") /\ UNCHANGED rows /\ d[p].at = "exec" BY <1>4 DEF Execute, At
  <2> QED BY <1>1, <2>1, WentOn, SameRows DEF Falls, Ours, Serving
<1>5. CASE Complete(p)
  <2>1. /\ d'[p].at = "serve" /\ d'[p].row = d[p].row /\ d'[p].restart = d[p].restart
        /\ \A q \in Launchers \ {p} : d'[q] = d[q]
    BY <1>1, <1>5 DEF Complete, Process
  <2>2. d[p].at = "await" /\ UNCHANGED rows BY <1>5 DEF Complete, At
  <2> QED BY <2>1, <2>2, SameRows DEF Falls, Ours, Serving
<1> QED BY <1>2, <1>3, <1>4, <1>5

LEMMA EndFalls ==
  ASSUME SupervisionInv, NEW p \in Launchers, MarkStopping(p) \/ MarkStopped(p) \/ Release(p)
  PROVE  FlagsKept /\ \A q \in Launchers : Falls(q)
<1>1. Typed /\ d \in [Launchers -> Process] BY DEF SupervisionInv, Typed
<1>2. ASSUME NEW status \in {"stopping", "ended"}, Ended(p, status) PROVE FlagsKept
  <2>1. CASE UNCHANGED rows BY <2>1, SameRows
  <2>2. CASE d[p].row # 0 /\ Write(d[p].row, status)
    BY <1>1, <2>2, HasRow, WriteKeepsFlags DEF Active
  <2> QED BY <1>2, <2>1, <2>2 DEF Ended
<1>3. CASE MarkStopping(p)
  <2>1. Go(p, "stopping") /\ d[p].at = "halt" /\ FlagsKept BY <1>2, <1>3 DEF MarkStopping, At
  <2> QED BY <1>1, <2>1, WentOn DEF Falls, Ending
<1>4. CASE MarkStopped(p)
  <2>1. Go(p, "release") /\ d[p].at = "stopping" /\ FlagsKept BY <1>2, <1>4 DEF MarkStopped, At
  <2> QED BY <1>1, <2>1, WentOn DEF Falls, Ending
<1>5. CASE Release(p)
  <2>1. CASE ~d[p].restart BY <1>5, <2>1, ExitFalls DEF Release
  <2>2. CASE d[p].restart
    <3>1. d' = [d EXCEPT ![p] = Boot] /\ UNCHANGED rows /\ d[p].at = "release"
      BY <1>5, <2>2 DEF Release, At
    <3> QED BY <1>1, <2>2, <3>1, OffFalls, SameRows DEF Falls
  <2> QED BY <2>1, <2>2
<1> QED BY <1>3, <1>4, <1>5

LEMMA StartFalls ==
  ASSUME SupervisionInv, StartTask
  PROVE  \A q \in Launchers : Falls(q)
BY DEF SupervisionInv, Typed, StartTask, Off, Falls

\* Everything but the operator's requests and service commands.
Background ==
  \/ \E p \in Launchers : Run(p) \/ Fatal(p) \/ Crash(p) \/ Lapse(p)
  \/ Trigger \/ Watchdog \/ Submit

LEMMA BackgroundFalls ==
  ASSUME SupervisionInv, Background
  PROVE  FlagsKept /\ (\A q \in Launchers : Falls(q)) /\ UNCHANGED <<paused, op, report>>
<1>1. d \in [Launchers -> Process] /\ Typed BY DEF SupervisionInv, Typed
<1>2. ASSUME UNCHANGED d PROVE \A q \in Launchers : Falls(q) BY <1>2 DEF Falls
<1>3. ASSUME NEW p \in Launchers, Run(p) PROVE FlagsKept /\ \A q \in Launchers : Falls(q)
  <2>1. CASE Gate
    <3>1. CASE paused BY <2>1, <3>1, ExitFalls DEF Gate
    <3>2. CASE ~paused
      <4>1. d["task"].at = "gate" /\ d' = [d EXCEPT !["task"] = Boot] /\ UNCHANGED rows
        BY <2>1, <3>2 DEF Gate, At
      <4> QED BY <1>1, <3>2, <4>1, OffFalls, SameRows DEF Falls
    <3> QED BY <3>1, <3>2
  <2> QED BY <1>3, <2>1, BootFalls, ServeFalls, EndFalls DEF Run
<1>4. ASSUME NEW p \in Launchers, Run(p) PROVE UNCHANGED <<paused, op, report>>
  BY <1>4 DEF Run, Gate, Acquire, MarkOrphaned, CreateInstance, FailStale, MarkRunning, Beat, Claim,
              Execute, Complete, MarkStopping, MarkStopped, Release
<1>5. ASSUME NEW p \in Launchers, Fatal(p)
      PROVE  FlagsKept /\ (\A q \in Launchers : Falls(q)) /\ UNCHANGED <<paused, op, report>>
  <2>1. d[p].at \in Booting \cup Serving /\ UNCHANGED <<rows, paused, op, report>> BY <1>5 DEF Fatal
  <2>2. /\ d'[p].at = "halt" /\ d'[p].row = d[p].row /\ ~d'[p].restart
        /\ \A q \in Launchers \ {p} : d'[q] = d[q]
    BY <1>1, <1>5 DEF Fatal, Off
  <2>3. d[p].at \in {"orphans", "create"} \cup Ours BY <2>1 DEF Booting, Ours
  <2> QED BY <2>1, <2>2, <2>3, SameRows DEF Falls
<1>6. ASSUME NEW p \in Launchers, Crash(p)
      PROVE  FlagsKept /\ (\A q \in Launchers : Falls(q)) /\ UNCHANGED <<paused, op, report>>
  BY <1>6, ExitFalls DEF Crash
<1>7. ASSUME NEW p \in Launchers, Lapse(p)
      PROVE  FlagsKept /\ (\A q \in Launchers : Falls(q)) /\ UNCHANGED <<paused, op, report>>
  <2>1. d[p].row # 0 /\ rows' = [rows EXCEPT ![d[p].row].stale = TRUE] /\ UNCHANGED <<d, paused, op, report>>
    BY <1>7 DEF Lapse
  <2>2. FlagsKept BY <1>1, <2>1, HasRow, StaleKeepsFlags
  <2> QED BY <1>2, <2>1, <2>2
<1>8. ASSUME Trigger \/ DogStart
      PROVE  FlagsKept /\ (\A q \in Launchers : Falls(q)) /\ UNCHANGED <<paused, op, report>>
  BY <1>8, StartFalls, SameRows DEF Trigger, DogStart
<1>9. ASSUME DogEnd
      PROVE  FlagsKept /\ (\A q \in Launchers : Falls(q)) /\ UNCHANGED <<paused, op, report>>
  BY <1>2, <1>9, ExitFalls, SameRows DEF DogEnd, EndTask
<1>10. ASSUME DogTrigger \/ DogGate \/ DogLook \/ DogWait \/ Submit
       PROVE  FlagsKept /\ (\A q \in Launchers : Falls(q)) /\ UNCHANGED <<paused, op, report>>
  BY <1>2, <1>10, SameRows DEF DogTrigger, DogGate, DogLook, DogWait, Submit
<1> QED BY <1>3, <1>4, <1>5, <1>6, <1>7, <1>8, <1>9, <1>10 DEF Background, Watchdog

\* Who falls was harmless, or doomed, and stays so; the manual launcher stays off.
LEMMA FallingKeeps ==
  ASSUME SupervisionInv, RestartIsFlagged, FlagsKept, NEW p \in Launchers, Falls(p)
  PROVE  /\ d'[p].restart => d'[p].at \in Ending /\ (d'[p].row # 0 => rows'[d'[p].row].restart)
         /\ paused /\ Harmless(p) => Harmless(p)'
         /\ paused /\ Doomed(p) => Doomed(p)'
         /\ p = "manual" /\ At(p, "off") => d'[p].at = "off"
<1> USE DEF Ours, Serving, Ending
<1>1. d[p].row # 0 => /\ d[p].row \in DOMAIN rows
                      /\ rows'[d[p].row].shutdown = rows[d[p].row].shutdown
                      /\ rows'[d[p].row].restart = rows[d[p].row].restart
  BY HasRow DEF FlagsKept
<1>2. d[p].at \in Ours => d[p].row # 0 BY DEF SupervisionInv, Owns
<1>3. d[p].restart => d[p].at \in Ending /\ (d[p].row # 0 => rows[d[p].row].restart)
  BY DEF RestartIsFlagged
<1>4. d'[p].restart => d'[p].at \in Ending /\ (d'[p].row # 0 => rows'[d'[p].row].restart)
  BY <1>1, <1>2, <1>3 DEF Falls
<1>5. ASSUME paused, Harmless(p) PROVE Harmless(p)'
  BY <1>5 DEF Falls, Harmless
<1>6. ASSUME paused, Doomed(p) PROVE Doomed(p)'
  <2>1. CASE Harmless(p) BY <1>5, <1>6, <2>1 DEF Doomed
  <2>2. CASE d[p].at \in Ours /\ rows[d[p].row].shutdown /\ ~rows[d[p].row].restart
    BY <1>1, <1>2, <1>3, <2>2 DEF Falls, Doomed, Harmless
  <2> QED BY <1>6, <2>1, <2>2 DEF Doomed
<1>7. p = "manual" /\ At(p, "off") => d'[p].at = "off" BY DEF Falls, At
<1> QED BY <1>4, <1>5, <1>6, <1>7

LEMMA BackgroundKeepsStop ==
  ASSUME SupervisionInv, StopInv, Background
  PROVE  StopInv'
<1>1. FlagsKept /\ (\A q \in Launchers : Falls(q)) /\ UNCHANGED <<paused, op, report>>
  BY BackgroundFalls
<1>2. RestartIsFlagged' BY <1>1, FallingKeeps DEF StopInv, RestartIsFlagged
<1>3. paused => \A p \in Launchers : (Harmless(p) => Harmless(p)') /\ (Doomed(p) => Doomed(p)')
  BY <1>1, FallingKeeps DEF StopInv
<1>4. OnlyTask => OnlyTask' BY <1>1, FallingKeeps DEF StopInv, OnlyTask, At
<1>5. /\ Requested' = Requested /\ Flagged' = Flagged /\ Waited' = Waited
      /\ (Flagged => Requested) /\ (Waited => Requested)
  BY <1>1 DEF Requested, Flagged, Waited
<1>6. Flagged' => OnlyTask' \/ \A p \in Launchers : Doomed(p)' BY <1>3, <1>4, <1>5 DEF StopInv
<1>7. Waited' => OnlyTask' \/ \A p \in Launchers : Harmless(p)' BY <1>3, <1>4, <1>5 DEF StopInv
<1>8. op'.sound /\ report' => \A p \in Launchers : Harmless(p)' BY <1>1, <1>3 DEF StopInv
<1> QED BY <1>1, <1>2, <1>5, <1>6, <1>7, <1>8 DEF StopInv

\* What a request does to the rows.
LEMMA Flagging ==
  ASSUME SupervisionInv, NEW restart \in BOOLEAN, Flag(restart), NEW i \in DOMAIN rows
  PROVE  /\ i \in DOMAIN rows'
         /\ rows[i].restart => rows'[i].restart
         /\ IsActive(i) => rows'[i].shutdown /\ (rows'[i].restart => restart \/ rows[i].restart)
<1> DEFINE R == [k \in DOMAIN rows |->
             IF IsActive(k)
             THEN [rows[k] EXCEPT !.shutdown = TRUE, !.restart = restart \/ @]
             ELSE rows[k]]
<1>1. rows' = R BY DEF Flag
<1>2. rows[i] \in Row BY DEF SupervisionInv, Typed
<1>3. CASE IsActive(i)
  <2> DEFINE flag == restart \/ rows[i].restart
             x == [rows[i] EXCEPT !.shutdown = TRUE]
  <2>1. R[i] = [rows[i] EXCEPT !.shutdown = TRUE, !.restart = flag] BY <1>3, Zenon
  <2> HIDE DEF flag
  <2>2. x \in Row /\ x.shutdown = TRUE BY <1>2 DEF Row
  <2>3. R[i] = [x EXCEPT !.restart = flag] BY <2>1
  <2> HIDE DEF x, R
  <2>4. R[i].shutdown = TRUE /\ R[i].restart = flag BY <2>2, <2>3 DEF Row
  <2>5. rows'[i].shutdown = TRUE /\ rows'[i].restart = flag BY <1>1, <2>4
  <2>6. i \in DOMAIN rows' BY <1>1 DEF R
  <2> QED BY <2>5, <2>6, Zenon DEF flag
<1>4. CASE ~IsActive(i)
  <2>1. rows'[i] = rows[i] /\ i \in DOMAIN rows' BY <1>1, <1>4
  <2> QED BY <1>4, <2>1
<1> QED BY <1>3, <1>4

LEMMA FlagKeepsRestart ==
  ASSUME SupervisionInv, RestartIsFlagged, NEW restart \in BOOLEAN, Flag(restart), UNCHANGED d
  PROVE  RestartIsFlagged'
<1> SUFFICES ASSUME NEW p \in Launchers, d[p].restart, d[p].row # 0 PROVE rows'[d[p].row].restart
  BY DEF RestartIsFlagged
<1>1. d[p].row \in DOMAIN rows /\ rows[d[p].row].restart BY HasRow DEF RestartIsFlagged
<1> QED BY <1>1, Flagging

\* The request: whoever it reaches is doomed.
LEMMA RequestKeepsStop ==
  ASSUME SupervisionInv, StopInv, StopRequest
  PROVE  StopInv'
<1> DEFINE hit == \E i \in DOMAIN rows : IsActive(i)
           x == [op EXCEPT !.at = "wait"]
           y == [x EXCEPT !.hit = hit]
           z == [y EXCEPT !.sound = Reaches]
<1>1. op.at = "request" /\ Flag(FALSE) /\ UNCHANGED <<paused, d, report>> BY DEF StopRequest
<1>2. op' = z BY DEF StopRequest
<1>3. op \in Findings BY DEF StopInv
<1>4. x \in Findings /\ x.at = "wait" BY <1>3 DEF Findings
<1>5. hit \in BOOLEAN /\ Reaches \in BOOLEAN BY Zenon DEF Reaches
<1> HIDE DEF hit, x
<1>6. y \in Findings /\ y.at = "wait" /\ y.hit = hit BY <1>4, <1>5 DEF Findings
<1> HIDE DEF y
<1>7. z \in Findings /\ z.at = "wait" /\ z.hit = hit /\ z.sound = Reaches BY <1>5, <1>6 DEF Findings
<1> HIDE DEF z
<1>8. op' \in Findings /\ op'.at = "wait" /\ op'.hit = hit /\ op'.sound = Reaches BY <1>2, <1>7
<1>9. RestartIsFlagged' BY <1>1, FlagKeepsRestart DEF StopInv
<1>10. paused' /\ ~report' BY <1>1 DEF StopInv, Requested
<1>11. ASSUME Reaches PROVE OnlyTask' \/ \A p \in Launchers : Doomed(p)'
  <2>1. CASE (\A i \in DOMAIN rows : ~IsActive(i)) /\ At("manual", "off")
    <3>1. ~hit BY <2>1, Zenon DEF hit
    <3> QED BY <1>1, <1>8, <2>1, <3>1 DEF OnlyTask, At
  <2>2. CASE \A p \in Launchers :
               d[p].at \notin {"off", "gate"} => IsActive(d[p].row) /\ ~rows[d[p].row].restart
    <3> SUFFICES ASSUME NEW p \in Launchers, d[p].at \notin {"off", "gate"} PROVE Doomed(p)'
      BY <1>1 DEF Doomed, Harmless
    <3>1. IsActive(d[p].row) /\ ~rows[d[p].row].restart BY <2>2
    <3>2. d[p].row # 0 BY <3>1 DEF IsActive, SupervisionInv, Typed, Process
    <3>3. d[p].row \in DOMAIN rows BY <3>2, HasRow
    <3>4. rows'[d[p].row].shutdown /\ ~rows'[d[p].row].restart BY <1>1, <3>1, <3>3, Flagging
    <3>5. ~d[p].restart BY <3>1, <3>2 DEF StopInv, RestartIsFlagged
    <3>6. d[p].at \notin Rowless BY <3>2 DEF SupervisionInv, Owns
    <3>7. d[p].at \in Ours \cup Ending
      <4>1. d[p].at \in Places BY DEF SupervisionInv, Typed, Process
      <4> QED BY <3>6, <4>1 DEF Places, Holding, Booting, Ours, Rowless
    <3> QED BY <1>1, <3>4, <3>5, <3>7 DEF Doomed, Harmless
  <2> QED BY <1>11, <2>1, <2>2 DEF Reaches
<1>12. Flagged' => OnlyTask' \/ \A p \in Launchers : Doomed(p)'
  BY <1>8, <1>11 DEF Flagged
<1>13. ~Waited' BY <1>8 DEF Waited
<1> QED BY <1>8, <1>9, <1>10, <1>12, <1>13 DEF StopInv

\* The wait: when the latest row's process is gone, nobody serves.
LEMMA WaitKeepsStop ==
  ASSUME SupervisionInv, StopInv, StopWait
  PROVE  StopInv'
<1>1. op.at = "wait" /\ UNCHANGED <<paused, d, rows, report>> BY DEF StopWait
<1>2. PICK gone \in {~ProcessAlive(Latest), FALSE} : op' = [op EXCEPT !.at = "reap", !.gone = gone]
  BY DEF StopWait
<1>3. gone \in BOOLEAN BY <1>2 DEF ProcessAlive, IsActive
<1>4. gone => ~ProcessAlive(Latest) BY <1>2, Zenon
<1> DEFINE x == [op EXCEPT !.at = "reap"]
<1>5. op \in Findings BY DEF StopInv
<1>6. x \in Findings /\ x.at = "reap" /\ x.hit = op.hit /\ x.sound = op.sound
  BY <1>5 DEF Findings
<1>7. op' = [x EXCEPT !.gone = gone] BY <1>2
<1> HIDE DEF x
<1>8. /\ op' \in Findings /\ op'.at = "reap" /\ op'.gone = gone /\ op'.hit = op.hit
      /\ op'.sound = op.sound
  BY <1>3, <1>6, <1>7 DEF Findings
<1>9. op.sound => OnlyTask \/ \A p \in Launchers : Doomed(p) BY <1>1 DEF StopInv, Flagged
<1>10. \A p \in Launchers : (Doomed(p)' = Doomed(p)) /\ (Harmless(p)' = Harmless(p))
  BY <1>1 DEF Doomed, Harmless
<1>11. OnlyTask' = OnlyTask BY <1>1, <1>8 DEF OnlyTask, At
<1>12. ASSUME NEW p \in Launchers, gone, Doomed(p) PROVE Harmless(p)
  <2> SUFFICES ASSUME d[p].at \in Ours PROVE FALSE BY <1>12 DEF Doomed
  <2>1. d[p].row # 0 /\ Owns(p, d[p], rows) BY DEF SupervisionInv, Owns, Ours
  <2>2. d[p].row = Latest /\ d[p].row > 0 BY <2>1, HasRow DEF Latest, SupervisionInv, Typed
  <2>3. d[p].at # "release" BY DEF Ours, Serving
  <2> QED BY <1>4, <1>12, <2>1, <2>2, <2>3 DEF Owns, ProcessAlive, IsActive
<1>13. Flagged' => OnlyTask' \/ \A p \in Launchers : Doomed(p)'
  BY <1>8, <1>9, <1>10, <1>11 DEF Flagged
<1>14. Waited' => OnlyTask' \/ \A p \in Launchers : Harmless(p)'
  BY <1>8, <1>9, <1>10, <1>11, <1>12 DEF Waited
<1>15. RestartIsFlagged' BY <1>1 DEF StopInv, RestartIsFlagged
<1>16. paused' /\ ~report' BY <1>1 DEF StopInv, Requested
<1> QED BY <1>8, <1>13, <1>14, <1>15, <1>16 DEF StopInv

LEMMA ReapKeepsStop ==
  ASSUME SupervisionInv, StopInv, StopReap
  PROVE  StopInv'
<1>1. op.at = "reap" /\ UNCHANGED <<paused, d, rows, report>> /\ op' = [op EXCEPT !.at = "end"]
  BY DEF StopReap
<1>2. op \in Findings BY DEF StopInv
<1>3. /\ op' \in Findings /\ op'.at = "end" /\ op'.gone = op.gone /\ op'.hit = op.hit
      /\ op'.sound = op.sound
  BY <1>1, <1>2 DEF Findings
<1>4. \A p \in Launchers : (Doomed(p)' = Doomed(p)) /\ (Harmless(p)' = Harmless(p))
  BY <1>1 DEF Doomed, Harmless
<1>5. OnlyTask' = OnlyTask BY <1>1, <1>3 DEF OnlyTask, At
<1>6. Flagged' = Flagged /\ Waited' = Waited /\ Requested BY <1>1, <1>3 DEF Flagged, Waited, Requested
<1>7. RestartIsFlagged' BY <1>1 DEF StopInv, RestartIsFlagged
<1> QED BY <1>1, <1>3, <1>4, <1>5, <1>6, <1>7 DEF StopInv

\* The end: a stop that hit nobody ends the task, be it in whatever place.
LEMMA EndKeepsStop ==
  ASSUME SupervisionInv, StopInv, StopEnd
  PROVE  StopInv'
<1>1. /\ op.at = "end" /\ UNCHANGED paused /\ op' = [Idle EXCEPT !.sound = op.gone /\ op.sound]
      /\ report' = op.gone
      /\ IF ~op.gone \/ ~op.hit THEN EndTask ELSE UNCHANGED <<d, rows>>
  BY DEF StopEnd
<1> DEFINE sound == op.gone /\ op.sound
<1>2. op \in Findings /\ paused BY <1>1 DEF StopInv, Requested
<1>3. sound \in BOOLEAN OBVIOUS
<1>4. op' = [Idle EXCEPT !.sound = sound] BY <1>1
<1> HIDE DEF sound
<1>5. op' \in Findings /\ op'.at = "idle" /\ op'.sound = sound BY <1>3, <1>4 DEF Findings, Idle
<1>6. FlagsKept /\ \A q \in Launchers : Falls(q)
  <2>1. CASE UNCHANGED <<d, rows>> BY <2>1, SameRows DEF Falls
  <2>2. CASE Exit("task") BY <2>2, ExitFalls
  <2> QED BY <1>1, <2>1, <2>2 DEF EndTask
<1>7. RestartIsFlagged' BY <1>6, FallingKeeps DEF StopInv, RestartIsFlagged
<1>8. ASSUME sound PROVE \A p \in Launchers : Harmless(p)'
  <2>1. OnlyTask \/ \A p \in Launchers : Harmless(p)
    BY <1>1, <1>8 DEF StopInv, Waited, sound
  <2>2. CASE \A p \in Launchers : Harmless(p)
    BY <1>2, <1>6, <2>2, FallingKeeps DEF StopInv
  <2>3. CASE OnlyTask
    <3>1. EndTask /\ At("manual", "off") BY <1>1, <2>3 DEF OnlyTask
    <3>2. d'["manual"].at = "off" BY <1>6, <3>1, FallingKeeps DEF StopInv
    <3>3. d'["task"].at = "off"
      BY <3>1, OffFalls DEF EndTask, At, Exit, SupervisionInv, Typed
    <3> QED BY <3>2, <3>3 DEF Harmless
  <2> QED BY <2>1, <2>2, <2>3
<1>9. ~Requested' /\ ~Flagged' /\ ~Waited' BY <1>5 DEF Requested, Flagged, Waited
<1> QED BY <1>1, <1>2, <1>5, <1>7, <1>8, <1>9 DEF StopInv

\* What an operator does while no stop is under way.
LEMMA OperatorKeepsStop ==
  ASSUME SupervisionInv, StopInv,
         StopCall \/ StartCall \/ DaemonRequest \/ DaemonRun \/ Interrupt \/ StartRun
  PROVE  StopInv'
<1>0. d \in [Launchers -> Process] BY DEF SupervisionInv, Typed
<1>1. CASE StopCall \/ StartCall
  <2>1. /\ UNCHANGED <<d, rows>> /\ ~report'
        /\ \/ op' = [Idle EXCEPT !.at = "request"] /\ paused'
           \/ op' = [Idle EXCEPT !.at = "start"]
    BY <1>1 DEF StopCall, StartCall
  <2>2. op' \in Findings /\ op'.at \in {"request", "start"} /\ (op'.at = "request" => paused')
    BY <2>1 DEF Findings, Idle
  <2>3. RestartIsFlagged' BY <2>1 DEF StopInv, RestartIsFlagged
  <2>4. ~Flagged' /\ ~Waited' /\ (Requested' => paused') BY <2>2 DEF Requested, Flagged, Waited
  <2> QED BY <2>1, <2>2, <2>3, <2>4 DEF StopInv
<1>2. CASE DaemonRequest
  <2>1. PICK restart \in BOOLEAN : Flag(restart) BY <1>2 DEF DaemonRequest
  <2>2. UNCHANGED <<paused, d, op, report>> /\ op.at = "idle" BY <1>2 DEF DaemonRequest, Free
  <2>3. RestartIsFlagged' BY <2>1, <2>2, FlagKeepsRestart DEF StopInv
  <2>4. ~Requested' /\ ~Flagged' /\ ~Waited' BY <2>2 DEF Requested, Flagged, Waited
  <2>5. \A p \in Launchers : Harmless(p)' = Harmless(p) BY <2>2 DEF Harmless
  <2> QED BY <2>2, <2>3, <2>4, <2>5 DEF StopInv
<1>3. CASE DaemonRun
  <2>1. /\ UNCHANGED <<paused, rows, op>> /\ op.at = "idle" /\ ~report'
        /\ d' = [d EXCEPT !["manual"] = Boot]
    BY <1>3 DEF DaemonRun, Free
  <2>2. RestartIsFlagged' BY <1>0, <2>1, OffFalls DEF StopInv, RestartIsFlagged
  <2>3. ~Requested' /\ ~Flagged' /\ ~Waited' BY <2>1 DEF Requested, Flagged, Waited
  <2> QED BY <2>1, <2>2, <2>3 DEF StopInv
<1>4. CASE Interrupt
  <2>1. /\ UNCHANGED <<paused, rows, op, report>> /\ op.at = "idle" /\ d["manual"].at = "serve"
        /\ d' = [d EXCEPT !["manual"].at = "halt", !["manual"].restart = FALSE]
    BY <1>4 DEF Interrupt, Free, At
  <2>2. ~d'["manual"].restart /\ \A q \in Launchers \ {"manual"} : d'[q] = d[q]
    BY <1>0, <2>1 DEF Process
  <2>3. RestartIsFlagged' BY <2>1, <2>2 DEF StopInv, RestartIsFlagged
  <2>4. ~Requested' /\ ~Flagged' /\ ~Waited' BY <2>1 DEF Requested, Flagged, Waited
  <2>5. ~(op.sound /\ report) BY <2>1 DEF StopInv, Harmless, Ending
  <2> QED BY <2>1, <2>3, <2>4, <2>5 DEF StopInv
<1>5. CASE StartRun
  <2>1. StartTask /\ op' = Idle /\ UNCHANGED <<paused, rows, report>> BY <1>5 DEF StartRun
  <2>2. op' \in Findings /\ op'.at = "idle" /\ ~op'.sound BY <2>1 DEF Findings, Idle
  <2>3. RestartIsFlagged' BY <2>1, StartFalls, SameRows, FallingKeeps DEF StopInv, RestartIsFlagged
  <2>4. ~Requested' /\ ~Flagged' /\ ~Waited' BY <2>2 DEF Requested, Flagged, Waited
  <2> QED BY <2>1, <2>2, <2>3, <2>4 DEF StopInv
<1> QED BY <1>1, <1>2, <1>3, <1>4, <1>5

\* After `service stop` has reported the task stopped, nobody serves until the
\* operator starts something, if the request reached all who could go on serving:
\* with any number of crashes, failed writes, restarts and turns of the watchdog.
THEOREM StopSticks == Spec => []StopSticksWhereItReaches
<1>1. Init => StopInv
  <2> SUFFICES ASSUME Init PROVE StopInv OBVIOUS
  <2>1. d = [p \in Launchers |-> Off] /\ op = Idle /\ ~report BY DEF Init
  <2>2. op \in Findings /\ op.at = "idle" /\ ~op.sound BY <2>1 DEF Idle, Findings
  <2>3. RestartIsFlagged BY <2>1, OffFalls DEF RestartIsFlagged
  <2> QED BY <2>1, <2>2, <2>3 DEF StopInv, Requested, Flagged, Waited
<1>2. SupervisionInv /\ StopInv /\ [Next]_vars => StopInv'
  <2> SUFFICES ASSUME SupervisionInv, StopInv, [Next]_vars PROVE StopInv' OBVIOUS
  <2>1. CASE UNCHANGED vars
    <3>1. UNCHANGED <<paused, d, rows, op, report>> BY <2>1 DEF vars
    <3> QED BY <3>1 DEF StopInv, RestartIsFlagged, Requested, Flagged, Waited, OnlyTask, Doomed, Harmless, At
  <2>2. CASE Background BY <2>2, BackgroundKeepsStop
  <2>3. CASE Service
    BY <2>3, RequestKeepsStop, WaitKeepsStop, ReapKeepsStop, EndKeepsStop, OperatorKeepsStop DEF Service
  <2>4. CASE Operator BY <2>4, BackgroundKeepsStop, OperatorKeepsStop DEF Operator, Background
  <2> QED BY <2>1, <2>2, <2>3, <2>4 DEF Next, Background
<1>3. StopInv => StopSticksWhereItReaches
  BY DEF StopInv, StopSticksWhereItReaches, Harmless, Serving, Ending
<1> QED BY <1>1, <1>2, <1>3, SupervisionInvariant, PTL DEF Spec
=============================================================================
