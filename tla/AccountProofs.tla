--------------------------- MODULE AccountProofs ---------------------------
(***************************************************************************)
(* Theorems about AccountWorker and AccountPool, for every number of       *)
(* failures and every set of overlapping requests unless a theorem says    *)
(* otherwise.  The invariants come in three layers: LifecycleInv carries   *)
(* the refinement of WorkerLifecycle, ClosingInv what a stop leaves behind *)
(* and who holds the account's lock, ServingInv what the pool relies on.   *)
(***************************************************************************)
EXTENDS AccountPool, TLAPS

\* The run task is doing something that still looks at the lifecycle.
Driving == RActive \ {"disc", "fin"}

\* The run task's target and where it is agree.
TargetInv ==
  /\ rw \notin {"disabled", "starting", "stopping"}
  /\ rw # NoTarget => r \in {"cc", "ct", "tf", "disc", "prep", "credwait", "resume",
                             "toNV", "toError"}
  /\ r \in {"tf", "disc"} => rw \in {NoTarget, "reconnecting"}
  /\ rw = "needs_validation" => r = "toNV"
  /\ rw = "error" => r = "toError"
  /\ rw = "syncing" => r = "ct"
  /\ r = "cc" => rw \in {NoTarget, "reconnecting", "connecting", "checking_session"}

\* Online is only ever asked for on the newest connection's marker.
EvidenceInv ==
  /\ ready => proof /\ r \in {"ct", "serve"}
  /\ rw = "online" => r = "ct" /\ proof
  /\ r = "ct" => m = "none"
  /\ m = "promote" /\ mem = "syncing" => proof
  /\ r \in {"open", "reg"} => mem \notin {"syncing", "online"}
  /\ r = "cc" /\ rw \in {"connecting", "checking_session"} => mem \notin {"syncing", "online"}

\* Who may be at work together, and with which lifecycle state.
OwnershipInv ==
  /\ s \in SActive => mem # "needs_validation" /\ r \notin Driving /\ v = "none"
  /\ s \in SActive => mem \notin {"syncing", "online"}
  /\ s = "go" /\ c = "none" => mem \in {"connecting", "reconnecting"}
  /\ r \in Driving => mem # "needs_validation" /\ v = "none"
  /\ r \in Driving /\ c = "none" => mem \notin {"disabled", "error"}
  /\ v # "none" /\ c = "none" => mem \in {"needs_validation", "checking_session"}
  /\ v # "none" => mem \notin {"syncing", "online"}

LifecycleInv == TypeOK /\ TargetInv /\ EvidenceInv /\ OwnershipInv

-----------------------------------------------------------------------------
(* Facts about the transition table and the startup's tables.              *)

\* The states by name.
LEMMA StatesAre ==
  States = {"disabled", "starting", "checking_session", "refreshing_credential",
            "connecting", "registering", "syncing", "online", "reconnecting",
            "needs_validation", "stopping", "error"}
  BY DEF States, AllowedFrom

\* What may lead to a state, for the states the invariants speak of.
LEMMA Transitions ==
  ASSUME NEW x \in States
  PROVE  /\ CanTransition(x, x)
         /\ CanTransition(x, "online") => x \in {"syncing", "online"}
         /\ CanTransition(x, "syncing") => x \in {"registering", "syncing"}
         /\ CanTransition(x, "connecting") =>
              x \in {"checking_session", "reconnecting", "connecting"}
         /\ CanTransition(x, "reconnecting") =>
              x \in {"connecting", "registering", "syncing", "online", "reconnecting"}
         /\ x \in {"syncing", "online"} => CanTransition(x, "reconnecting")
         /\ CanTransition("needs_validation", x) =>
              x \in {"needs_validation", "checking_session", "stopping", "disabled", "error"}
  BY StatesAre DEF CanTransition, AllowedFrom

\* The table's part that startup relies on.
LEMMA StartupTable ==
  /\ DOMAIN STarget = {"start", "startNV", "restore", "checking", "retry", "refreshing",
                       "rechecking", "connecting", "toNV", "toError"}
  /\ \A x \in DOMAIN STarget :
       /\ STarget[x] \in States /\ SNext[x] \in SActive \cup {"done"}
       /\ STarget[x] \notin {"syncing", "online"}
       /\ STarget[x] = "needs_validation" => SNext[x] = "done"
       /\ SNext[x] = "go" => STarget[x] = "connecting"
  BY StatesAre DEF STarget, SNext, SActive

\* The attempts of _recover_credentials with the decisions spelt out: how the
\* startup and the auth handler go on, and what the operation left behind.
LEMMA EnsureOutcomes ==
  ASSUME SEnsure
  PROVE  /\ s = "ensure"
         /\ \/ stopReq /\ SFinish("done") /\ UNCHANGED <<db, durable>>
            \/ /\ ~stopReq /\ UNCHANGED flock
               /\ \/ /\ ~risk /\ s' \in {"connecting", "refreshing"}
                     /\ token' = TRUE /\ UNCHANGED <<db, risk>>
                  \/ s' \in {"retry", "toError"} /\ UNCHANGED <<db, durable>>
                  \/ s' = "toNV" /\ OpenCircuit /\ UNCHANGED token
         /\ UNCHANGED <<mem, clLock, flags, conn, run, m, stop, v, faults>>
  BY DEF SEnsure, Credentialed, SAfter, Results, StateAfter, Decide, CauseOf, RetryStateFor,
      SuccessStateFor

LEMMA RefreshOutcomes ==
  ASSUME RRefresh
  PROVE  /\ r = "cred"
         /\ \/ stopReq /\ r' = "disc" /\ UNCHANGED <<db, durable, rw>>
            \/ /\ ~stopReq /\ ~risk /\ r' = "resume"
               /\ token' = TRUE /\ UNCHANGED <<db, risk, rw>>
            \/ ~stopReq /\ r' = "credwait" /\ UNCHANGED <<db, durable, rw>>
            \/ ~stopReq /\ r' = "toError" /\ rw' = "error" /\ UNCHANGED <<db, durable>>
            \/ /\ ~stopReq /\ r' = "toNV" /\ rw' = "needs_validation"
               /\ OpenCircuit /\ UNCHANGED token
         /\ UNCHANGED <<mem, lockv, flags, conn, s, rk, rend, m, stop, v, faults>>
  BY DEF RRefresh, Credentialed, RAfterRefresh, Results, StateAfter, Decide, CauseOf,
      RetryStateFor, SuccessStateFor

\* An operator's recovery that does not succeed leaves validation or an error.
LEMMA ValidationOutcomes ==
  \A result \in Results \ {"success"} :
    StateAfter(result, "validation_refresh") \in {"needs_validation", "error"}
  BY DEF Results, StateAfter, Decide, CauseOf, RetryStateFor

\* The first hop of a connecting transport, and the only states in which there
\* is none.
LEMMA FirstHop ==
  ASSUME NEW x \in States
  PROVE  /\ ConnectingHop(x) \in {"connecting", "checking_session", "reconnecting", NoTarget}
         /\ ConnectingHop(x) # NoTarget => CanTransition(x, ConnectingHop(x))
         /\ CanTransition("connecting", "reconnecting")
         /\ ConnectingHop(x) = NoTarget =>
              x \in {"connecting", "starting", "needs_validation", "stopping",
                    "disabled", "error"}
  BY StatesAre DEF ConnectingHop, CanTransition, AllowedFrom, NoTarget

\* A stopping or ended lifecycle goes back only through a new start.
LEMMA NoWayBack ==
  ASSUME NEW x \in {"stopping", "disabled", "error"}, NEW y \in States, CanTransition(x, y)
  PROVE  y \in {"starting", "stopping", "disabled", "error"}
  BY StatesAre DEF CanTransition, AllowedFrom

\* Which places of startup follow a credential that succeeded, and where it ends.
LEMMA StartupOrder ==
  \A x \in DOMAIN STarget :
    /\ SNext[x] \in {"refreshing", "rechecking", "connecting", "go"} =>
         x \in {"refreshing", "rechecking", "connecting"}
    /\ SNext[x] = "done" => STarget[x] \in {"needs_validation", "error"}
  BY DEF STarget, SNext

-----------------------------------------------------------------------------
(* Type correctness, the Boolean variables first.                          *)

\* Every step keeps the types of the flags and switches.
LEMMA SwitchesStep == SwitchesOK /\ ([Next]_vars \/ FailClosedCall) => SwitchesOK'
  <1> SUFFICES ASSUME SwitchesOK, [Next]_vars \/ FailClosedCall PROVE SwitchesOK'
    OBVIOUS
  <1> USE DEF SwitchesOK, life, durable, lockv, flags, conn, run, stop
  <1>1. CASE SLoad
    BY Zenon, <1>1 DEF SLoad, FromPersistence
  <1>2. CASE SSet
    BY Zenon, <1>2, StartupTable DEF SSet, SFinish, Set, SetFails, Rejected, ReleaseLock
  <1>3. CASE SEnsure
    BY Zenon, <1>3, EnsureOutcomes DEF SFinish, ReleaseLock, OpenCircuit
  <1>4. CASE SGo
    BY Zenon, <1>4 DEF SGo, SFinish, ReleaseLock, ClientStart
  <1>5. CASE SFail
    BY Zenon, <1>5 DEF SFail, Set, SetFails, Rejected, SFinish, ReleaseLock
  <1>6. CASE RTop
    BY Zenon, <1>6 DEF RTop
  <1>7. CASE ROpen
    BY Zenon, <1>7 DEF ROpen
  <1>8. CASE RRegister
    BY Zenon, <1>8 DEF RRegister, CancelMonitor, CancelledWrite
  <1>9. CASE RCheck
    BY Zenon, <1>9 DEF RCheck
  <1>10. CASE RChoose
    BY Zenon, <1>10 DEF RChoose, RAfter, ConnectingHop, ConnectedHop, RefreshHop,
        ResumeHop
  <1>11. CASE RSet
    BY Zenon, <1>11 DEF RSet, Set, RAfter
  <1>12. CASE RSetFails
    BY Zenon, <1>12 DEF RSetFails, RRaise, RAfter, SetFails, Rejected, FailClosed,
        ClientFailClosed, ReleaseLock
  <1>13. CASE RRefresh
    BY Zenon, <1>13, RefreshOutcomes DEF OpenCircuit
  <1>14. CASE RFinish
    BY Zenon, <1>14 DEF RFinish
  <1>15. CASE RServeEnds
    BY Zenon, <1>15 DEF RServeEnds
  <1>16. CASE MarkReady
    BY Zenon, <1>16 DEF MarkReady
  <1>17. CASE MPoll
    BY Zenon, <1>17 DEF MPoll
  <1>18. CASE MPromote
    BY Zenon, <1>18 DEF MPromote, Set, SetFails, Rejected, FailClosed, ReleaseLock
  <1>19. CASE CStopping
    BY Zenon, <1>19 DEF CStopping, Set, SetFails
  <1>20. CASE CCancelMonitor
    BY Zenon, <1>20 DEF CCancelMonitor, CancelMonitor, CancelledWrite
  <1>21. CASE CCancelRun
    BY Zenon, <1>21 DEF CCancelRun, CancelledWrite
  <1>22. CASE CRunEnded
    BY Zenon, <1>22 DEF CRunEnded
  <1>23. CASE CEmit
    BY Zenon, <1>23 DEF CEmit, Set, SetFails, Settled
  <1>24. CASE CRelease
    BY Zenon, <1>24 DEF CRelease, ReleaseLock
  <1>25. CASE CDisable
    BY Zenon, <1>25 DEF CDisable, Set, SetFails, Rejected
  <1>26. CASE VBegin
    BY Zenon, <1>26 DEF VBegin
  <1>27. CASE VRefresh
    BY Zenon, <1>27, ValidationOutcomes DEF VRefresh, Set, SetFails, Rejected
  <1>28. CASE VCheck
    BY Zenon, <1>28 DEF VCheck, Set, VGiveUp, SetFails, Rejected, ReleaseLock
  <1>29. CASE VConnect
    BY Zenon, <1>29 DEF VConnect, Set, VGiveUp, SetFails, Rejected, ReleaseLock,
        ClientStart
  <1>30. CASE Start
    BY Zenon, <1>30 DEF Start
  <1>31. CASE StopCall
    BY Zenon, <1>31, StartupTable DEF StopCall, SFinish, ReleaseLock, CancelledWrite
  <1>32. CASE FailClosedCall
    BY Zenon, <1>32 DEF FailClosedCall, CancelMonitor, FailClosed, ReleaseLock,
        CancelledWrite
  <1>33. CASE NewWorker
    BY Zenon, <1>33 DEF NewWorker, Fresh
  <1>34. CASE Crash
    BY Zenon, <1>34 DEF Crash, Fresh, ReleaseLock
  <1>35. CASE OtherProcess
    BY Zenon, <1>35 DEF OtherProcess, OpenCircuit
  <1>36. CASE TokenExpires
    BY Zenon, <1>36 DEF TokenExpires
  <1>37. CASE UNCHANGED vars
    BY <1>37 DEF vars
  <1>38. QED
    BY <1>1, <1>2, <1>3, <1>4, <1>5, <1>6, <1>7, <1>8, <1>9, <1>10, <1>11, <1>12, <1>13,
       <1>14, <1>15, <1>16, <1>17, <1>18, <1>19, <1>20, <1>21, <1>22, <1>23, <1>24,
       <1>25, <1>26, <1>27, <1>28, <1>29, <1>30, <1>31, <1>32, <1>33, <1>34, <1>35,
       <1>36, <1>37
    DEF Next, Tasks, Owner, Startup, Transport, Monitor, Stopping, Recover

\* Every step keeps the tasks at places the code has.
LEMMA PlacesStep == PlacesOK /\ ([Next]_vars \/ FailClosedCall) => PlacesOK'
  <1> SUFFICES ASSUME PlacesOK, [Next]_vars \/ FailClosedCall PROVE PlacesOK'
    OBVIOUS
  <1> USE ConstantsAssumption, StatesAre
      DEF PlacesOK, life, durable, lockv, flags, conn, run, stop,
          SActive, RActive, REnded, CActive, CEnded, NoTarget, LegacyStatus
  <1>1. CASE SLoad
    BY <1>1 DEF SLoad, FromPersistence
  <1>2. CASE SSet
    BY <1>2, StartupTable DEF SSet, SFinish, Set, SetFails, Rejected, ReleaseLock
  <1>3. CASE SEnsure
    BY <1>3, EnsureOutcomes DEF SFinish, ReleaseLock, OpenCircuit
  <1>4. CASE SGo
    BY <1>4 DEF SGo, SFinish, ReleaseLock, ClientStart
  <1>5. CASE SFail
    BY <1>5 DEF SFail, Set, SetFails, Rejected, SFinish, ReleaseLock
  <1>6. CASE RTop
    BY <1>6 DEF RTop
  <1>7. CASE ROpen
    BY <1>7 DEF ROpen
  <1>8. CASE RRegister
    BY <1>8 DEF RRegister, CancelMonitor, CancelledWrite
  <1>9. CASE RCheck
    BY <1>9 DEF RCheck
  <1>10. CASE RChoose
    BY <1>10 DEF RChoose, RAfter, ConnectingHop, ConnectedHop, RefreshHop, ResumeHop
  <1>11. CASE RSet
    BY <1>11 DEF RSet, Set, RAfter
  <1>12. CASE RSetFails
    BY <1>12 DEF RSetFails, RRaise, RAfter, SetFails, Rejected, FailClosed,
        ClientFailClosed, ReleaseLock
  <1>13. CASE RRefresh
    BY <1>13, RefreshOutcomes DEF OpenCircuit
  <1>14. CASE RFinish
    BY <1>14 DEF RFinish
  <1>15. CASE RServeEnds
    BY <1>15 DEF RServeEnds
  <1>16. CASE MarkReady
    BY <1>16 DEF MarkReady
  <1>17. CASE MPoll
    BY <1>17 DEF MPoll
  <1>18. CASE MPromote
    BY <1>18 DEF MPromote, Set, SetFails, Rejected, FailClosed, ReleaseLock
  <1>19. CASE CStopping
    BY <1>19 DEF CStopping, Set, SetFails
  <1>20. CASE CCancelMonitor
    BY <1>20 DEF CCancelMonitor, CancelMonitor, CancelledWrite
  <1>21. CASE CCancelRun
    BY <1>21 DEF CCancelRun, CancelledWrite
  <1>22. CASE CRunEnded
    BY <1>22 DEF CRunEnded
  <1>23. CASE CEmit
    BY <1>23 DEF CEmit, Set, SetFails, Settled
  <1>24. CASE CRelease
    BY <1>24 DEF CRelease, ReleaseLock
  <1>25. CASE CDisable
    BY <1>25 DEF CDisable, Set, SetFails, Rejected
  <1>26. CASE VBegin
    BY <1>26 DEF VBegin
  <1>27. CASE VRefresh
    <2>1. mem' \in States /\ db' \in States \cup LegacyStatus
      BY <1>27, ValidationOutcomes DEF VRefresh, Set, SetFails, Rejected
    <2>2. flock' \in {"free", "self", "other"} 
            /\ v' \in {"none", "refresh", "check", "connect"}
      BY <1>27, ValidationOutcomes DEF VRefresh
    <2>3. faults' = faults \/ (faults < MaxFaults /\ faults' = faults + 1)
      BY Zenon, <1>27, ValidationOutcomes DEF VRefresh, SetFails
    <2>4. faults' \in 0..MaxFaults
      BY <2>3
    <2>5. UNCHANGED <<s, r, rw, rk, rend, m, c>>
      BY <1>27, ValidationOutcomes DEF VRefresh
    <2>6. QED
      BY <2>1, <2>2, <2>4, <2>5
  <1>28. CASE VCheck
    BY <1>28 DEF VCheck, Set, VGiveUp, SetFails, Rejected, ReleaseLock
  <1>29. CASE VConnect
    BY <1>29 DEF VConnect, Set, VGiveUp, SetFails, Rejected, ReleaseLock, ClientStart
  <1>30. CASE Start
    BY <1>30 DEF Start
  <1>31. CASE StopCall
    BY <1>31, StartupTable DEF StopCall, SFinish, ReleaseLock, CancelledWrite
  <1>32. CASE FailClosedCall
    BY <1>32 DEF FailClosedCall, CancelMonitor, FailClosed, ReleaseLock, CancelledWrite
  <1>33. CASE NewWorker
    BY <1>33 DEF NewWorker, Fresh
  <1>34. CASE Crash
    BY <1>34 DEF Crash, Fresh, ReleaseLock
  <1>35. CASE OtherProcess
    BY <1>35 DEF OtherProcess, OpenCircuit
  <1>36. CASE TokenExpires
    BY <1>36 DEF TokenExpires
  <1>37. CASE UNCHANGED vars
    BY <1>37 DEF vars
  <1>38. QED
    BY <1>1, <1>2, <1>3, <1>4, <1>5, <1>6, <1>7, <1>8, <1>9, <1>10, <1>11, <1>12, <1>13,
       <1>14, <1>15, <1>16, <1>17, <1>18, <1>19, <1>20, <1>21, <1>22, <1>23, <1>24,
       <1>25, <1>26, <1>27, <1>28, <1>29, <1>30, <1>31, <1>32, <1>33, <1>34, <1>35,
       <1>36, <1>37
    DEF Next, Tasks, Owner, Startup, Transport, Monitor, Stopping, Recover

\* Every variable keeps its type.
THEOREM TypeInvariant == Spec => []TypeOK
  <1>1. Init => SwitchesOK
    BY Zenon DEF Init, SwitchesOK
  <1>2. Init => PlacesOK
    BY ConstantsAssumption, StatesAre
    DEF Init, PlacesOK, SActive, RActive, REnded, CActive, CEnded, NoTarget, LegacyStatus
  <1>3. QED
    BY <1>1, <1>2, SwitchesStep, PlacesStep, PTL DEF Spec, TypeOK

-----------------------------------------------------------------------------
(* The strengthening of the lifecycle is inductive, and its steps refine.     *)

\* How the lifecycle state can change in one step.
Moves ==
  /\ CanTransition(mem, mem')
  /\ mem' = "online" => mem = "online" \/ (proof /\ proof')
  /\ mem = "needs_validation" =>
       mem' \in {"needs_validation", "stopping", "disabled"} \/ v # "none"

StartsOver == mem' = "disabled" /\ proof' = FALSE /\ v' = "none"

\* Every step keeps the run task's target in agreement with its place, the
\* newest connection's evidence and the tasks that may be at work together
\* apart from the rest, and moves the lifecycle as WorkerLifecycle does.
LEMMA CourseStep ==
  LifecycleInv /\ [Next]_vars =>
    TargetInv' /\ EvidenceInv' /\ OwnershipInv' /\ (Moves \/ StartsOver)
  <1> SUFFICES ASSUME PlacesOK, TargetInv, EvidenceInv, OwnershipInv, [Next]_vars
               PROVE  TargetInv' /\ EvidenceInv' /\ OwnershipInv' /\ (Moves \/ StartsOver)
    BY DEF LifecycleInv, TypeOK
  <1> USE Transitions, StatesAre
      DEF PlacesOK, TargetInv, EvidenceInv, OwnershipInv, Driving, Moves, StartsOver,
          life, durable, lockv, flags, conn, run, stop,
          SActive, RActive, REnded, CActive, CEnded, NoTarget, LegacyStatus
  <1>1. CASE SLoad
    BY <1>1 DEF SLoad, FromPersistence
  <1>2. CASE SSet
    BY <1>2, StartupTable DEF SSet, SFinish, Set, SetFails, Rejected, ReleaseLock
  <1>3. CASE SEnsure
    <2>1. /\ s = "ensure"
          /\ s' \in {"done", "connecting", "refreshing", "retry", "toError", "toNV"}
          /\ UNCHANGED <<mem, ready, proof, r, rw, m, c, v>>
      BY <1>3, EnsureOutcomes DEF SFinish
    <2>2. QED
      BY <2>1
  <1>4. CASE SGo
    BY <1>4 DEF SGo, SFinish, ReleaseLock, ClientStart
  <1>5. CASE SFail
    BY <1>5 DEF SFail, Set, SetFails, Rejected, SFinish, ReleaseLock
  <1>6. CASE RTop
    BY <1>6 DEF RTop
  <1>7. CASE ROpen
    BY <1>7 DEF ROpen
  <1>8. CASE RRegister
    BY <1>8 DEF RRegister, CancelMonitor, CancelledWrite
  <1>9. CASE RCheck
    BY <1>9 DEF RCheck
  <1>10. CASE RChoose
    BY <1>10 DEF RChoose, RAfter, ConnectingHop, ConnectedHop, RefreshHop, ResumeHop
  <1>11. CASE RSet
    BY <1>11 DEF RSet, Set, RAfter
  <1>12. CASE RSetFails
    BY <1>12 DEF RSetFails, RRaise, RAfter, SetFails, Rejected, FailClosed,
        ClientFailClosed, ReleaseLock
  <1>13. CASE RRefresh
    <2>1. /\ r = "cred" /\ r' \in {"disc", "resume", "credwait", "toError", "toNV"}
          /\ rw' = (CASE r' = "toError" -> "error" [] r' = "toNV" -> "needs_validation"
                      [] OTHER -> rw)
          /\ UNCHANGED <<mem, ready, proof, s, m, c, v>>
      BY <1>13, RefreshOutcomes
    <2>2. QED
      BY <2>1
  <1>14. CASE RFinish
    BY <1>14 DEF RFinish
  <1>15. CASE RServeEnds
    BY <1>15 DEF RServeEnds
  <1>16. CASE MarkReady
    BY <1>16 DEF MarkReady
  <1>17. CASE MPoll
    BY <1>17 DEF MPoll
  <1>18. CASE MPromote
    BY <1>18 DEF MPromote, Set, SetFails, Rejected, FailClosed, ReleaseLock
  <1>19. CASE CStopping
    BY <1>19 DEF CStopping, Set, SetFails
  <1>20. CASE CCancelMonitor
    BY <1>20 DEF CCancelMonitor, CancelMonitor, CancelledWrite
  <1>21. CASE CCancelRun
    BY <1>21 DEF CCancelRun, CancelledWrite
  <1>22. CASE CRunEnded
    BY <1>22 DEF CRunEnded
  <1>23. CASE CEmit
    BY <1>23 DEF CEmit, Set, SetFails, Settled
  <1>24. CASE CRelease
    BY <1>24 DEF CRelease, ReleaseLock
  <1>25. CASE CDisable
    BY <1>25 DEF CDisable, Set, SetFails, Rejected
  <1>26. CASE VBegin
    BY <1>26 DEF VBegin
  <1>27. CASE VRefresh
    BY <1>27, ValidationOutcomes DEF VRefresh, Set, SetFails, Rejected
  <1>28. CASE VCheck
    BY <1>28 DEF VCheck, Set, VGiveUp, SetFails, Rejected, ReleaseLock
  <1>29. CASE VConnect
    BY <1>29 DEF VConnect, Set, VGiveUp, SetFails, Rejected, ReleaseLock, ClientStart
  <1>30. CASE Start
    BY <1>30 DEF Start
  <1>31. CASE StopCall
    BY <1>31, StartupTable DEF StopCall, SFinish, ReleaseLock, CancelledWrite
  <1>32. CASE FailClosedCall
    BY <1>32 DEF FailClosedCall, CancelMonitor, FailClosed, ReleaseLock, CancelledWrite
  <1>33. CASE NewWorker
    BY <1>33 DEF NewWorker, Fresh
  <1>34. CASE Crash
    BY <1>34 DEF Crash, Fresh, ReleaseLock
  <1>35. CASE OtherProcess
    BY <1>35 DEF OtherProcess, OpenCircuit
  <1>36. CASE TokenExpires
    BY <1>36 DEF TokenExpires
  <1>37. CASE UNCHANGED vars
    BY <1>37 DEF vars
  <1>38. QED
    BY <1>1, <1>2, <1>3, <1>4, <1>5, <1>6, <1>7, <1>8, <1>9, <1>10, <1>11, <1>12, <1>13,
       <1>14, <1>15, <1>16, <1>17, <1>18, <1>19, <1>20, <1>21, <1>22, <1>23, <1>24,
       <1>25, <1>26, <1>27, <1>28, <1>29, <1>30, <1>31, <1>32, <1>33, <1>34, <1>35,
       <1>36, <1>37
    DEF Next, Tasks, Owner, Startup, Transport, Monitor, Stopping, Recover

\* The invariant that carries the refinement: which run-task target goes with
\* which place, that online is only asked for on the newest connection's
\* marker, and which tasks can be at work in which lifecycle state.
THEOREM LifecycleInvariant == Spec => []LifecycleInv
  <1>1. Init => SwitchesOK
    BY Zenon DEF Init, SwitchesOK
  <1>2. Init => PlacesOK /\ TargetInv /\ EvidenceInv /\ OwnershipInv
    BY ConstantsAssumption, StatesAre
    DEF Init, PlacesOK, TargetInv, EvidenceInv, OwnershipInv, Driving,
        SActive, RActive, REnded, CActive, CEnded, NoTarget, LegacyStatus
  <1>3. Init => LifecycleInv
    BY <1>1, <1>2 DEF LifecycleInv, TypeOK
  <1>4. LifecycleInv /\ [Next]_vars => LifecycleInv'
    BY SwitchesStep, PlacesStep, CourseStep
    DEF LifecycleInv, TypeOK
  <1>5. QED
    BY <1>3, <1>4, PTL DEF Spec

\* account_worker.py and the transport it owns implement WorkerLifecycle: in
\* every interleaving of startup, run task, monitor, stop, recovery, failures
\* and replacements the state moves along the transition table, becomes online
\* only on the marker of the connection in use, and leaves needs_validation
\* towards business only while an operator's recovery runs.
THEOREM ImplementsLifecycle == Spec => LifecycleSpec
  <1>1. Init => L!Init
    BY DEF Init, L!Init
  <1>2. LifecycleInv /\ LifecycleInv' /\ [Next]_vars => [L!Next]_(L!lvars)
    <2> SUFFICES ASSUME LifecycleInv, LifecycleInv', [Next]_vars
                 PROVE  L!Next
      OBVIOUS
    <2>1. proof' \in BOOLEAN /\ (v # "none")' \in BOOLEAN
      BY Zenon DEF LifecycleInv, TypeOK, SwitchesOK
    <2>2. mem \in States /\ mem' \in States
      BY DEF LifecycleInv, TypeOK, PlacesOK
    <2>3. CASE StartsOver
      BY <2>3 DEF StartsOver, L!Next, L!Replace
    <2>4. CASE Moves /\ mem' = mem
      BY <2>1, <2>4 DEF L!Next, L!Observe
    <2>5. CASE Moves /\ mem' # mem
      <3>1. mem' \in L!AllowedFrom[mem]
        BY <2>5 DEF Moves, CanTransition, AllowedFrom, L!AllowedFrom
      <3>2. mem' = "online" => proof /\ proof'
        BY <2>5 DEF Moves
      <3>3. mem = "needs_validation" =>
              mem' \in {"stopping", "disabled"} \/ v # "none"
        BY <2>5 DEF Moves
      <3>4. L!Move
        BY Zenon, <2>1, <3>1, <3>2, <3>3 DEF L!Move
      <3>5. QED
        BY <3>4 DEF L!Next
    <2>6. QED
      BY <2>3, <2>4, <2>5, CourseStep
  <1>3. QED
    BY <1>1, <1>2, LifecycleInvariant, PTL DEF Spec, LifecycleSpec, L!Spec

-----------------------------------------------------------------------------
(* Who holds the account lock, and what a stop leaves behind.              *)

\* A step of the worker; if `apart`, no start meets a run task that still runs.
Paced(apart) ==
  \/ Tasks \/ StopCall \/ NewWorker \/ Crash \/ OtherProcess \/ TokenExpires
  \/ (apart => r \notin RActive) /\ Start
  \/ r \in REnded /\ (r = "failed" \/ lifeErr) /\ FailClosedCall

\* The worker's startups and transports have been kept apart, or no database
\* call has failed.
Orderly(apart) == apart \/ faults = 0

\* Where the socket can be open, what the auth handler is about to set, and
\* which end a failed or cancelled task is on its way to.
WhereaboutsInv ==
  /\ sock => r \in {"reg", "ct", "serve"}
  /\ r \in {"cred", "credwait", "resume", "toNV", "toError"} => mem \notin {"syncing", "online"}
  /\ r = "toNV" => rw = "needs_validation"
  /\ r = "toError" => rw = "error"
  /\ rend = "failed" => r \in {"disc", "fin"} \cup REnded
  /\ "cancelled" \in {s, r, rend} => c # "none"

\* Without an operator's recovery: what covers the connection.
CoverInv == "recover" \notin Requests =>
  /\ v = "none"
  /\ r \in Driving => flock = "self" \/ clStop
  /\ c # "none" => stopReq
  /\ c \in {"emit", "release", "disable"} \cup CEnded => r \notin RActive

\* While no database call has failed nothing ended in an exception, and a
\* worker that has begun to stop goes nowhere else.
CalmInv == faults = 0 =>
  /\ r \in Driving => flock = "self"
  /\ rend # "failed" /\ r # "failed"
  /\ c = "none" => ~lifeErr
  /\ c \notin {"none", "stopping"} => mem \in {"stopping", "disabled", "error"}

\* While no start meets a run task startup and transport are not at work
\* together, and a worker whose transport failed is not started again before
\* its cleanup.
SerialInv(apart) == apart =>
  /\ s \in SActive => r \notin RActive
  /\ c = "none" /\ (rend = "failed" \/ r = "failed" \/ lifeErr) =>
       s \notin SActive /\ mem \notin {"disabled", "error"}
  /\ c = "none" /\ rw # NoTarget /\ r = "disc" => mem \notin {"disabled", "error"}
  /\ c = "none" /\ lifeErr => stopReq /\ r # "toError"

\* What each step of a stop leaves behind it.
RetreatInv(apart) == Orderly(apart) =>
  /\ c # "none" => s \notin SActive
  /\ c \notin {"none", "stopping", "cancelM"} => m = "none" \/ (m = "poll" /\ stopReq)
  /\ c \in {"emit", "release", "disable"} \cup CEnded => r \notin RActive
  /\ c \in {"disable"} \cup CEnded /\ flock = "self" => v \in {"check", "connect"}

ClosingInv(apart) ==
  WhereaboutsInv /\ CoverInv /\ CalmInv /\ SerialInv(apart) /\ RetreatInv(apart)

\* Every step keeps what a stop has reached, and the connection covered.
LEMMA ClosingStep ==
  ASSUME NEW CONSTANT apart \in BOOLEAN, apart => "recover" \notin Requests
  PROVE  LifecycleInv /\ ClosingInv(apart) /\ [Paced(apart)]_vars => ClosingInv(apart)'
  <1> SUFFICES ASSUME PlacesOK, TargetInv, EvidenceInv, OwnershipInv, ClosingInv(apart),
                      [Paced(apart)]_vars
               PROVE  ClosingInv(apart)'
    BY DEF LifecycleInv, TypeOK
  <1> USE Transitions, NoWayBack, StatesAre
      DEF PlacesOK, TargetInv, EvidenceInv, OwnershipInv,
          ClosingInv, WhereaboutsInv, CoverInv, CalmInv, SerialInv, RetreatInv, Orderly,
          Driving, life, durable, lockv, flags, conn, run, stop,
          SActive, RActive, REnded, CActive, CEnded, NoTarget, LegacyStatus
  <1>1. CASE SLoad
    BY <1>1 DEF SLoad, FromPersistence
  <1>2. CASE SSet
    BY <1>2, StartupTable DEF SSet, SFinish, Set, SetFails, Rejected, ReleaseLock
  <1>3. CASE SEnsure
    <2>1. /\ s = "ensure"
          /\ s' \in {"done", "connecting", "refreshing", "retry", "toError", "toNV"}
          /\ UNCHANGED <<mem, sock, stopReq, clStop, lifeErr, r, rw, rend, m, c, v, faults>>
      BY <1>3, EnsureOutcomes DEF SFinish
    <2>2. QED
      BY <2>1
  <1>4. CASE SGo
    BY <1>4 DEF SGo, SFinish, ReleaseLock, ClientStart
  <1>5. CASE SFail
    BY <1>5 DEF SFail, Set, SetFails, Rejected, SFinish, ReleaseLock
  <1>6. CASE RTop
    BY <1>6 DEF RTop
  <1>7. CASE ROpen
    BY <1>7 DEF ROpen
  <1>8. CASE RRegister
    BY <1>8 DEF RRegister, CancelMonitor, CancelledWrite
  <1>9. CASE RCheck
    BY <1>9 DEF RCheck
  <1>10. CASE RChoose
    <2>1. CASE r \in {"cc", "ct"}
      BY <1>10, <2>1 DEF RChoose, RAfter, ConnectingHop, ConnectedHop
    <2>2. CASE r \in {"tf", "disc"}
      BY <1>10, <2>2 DEF RChoose, RAfter, Settled
    <2>3. CASE r \in {"prep", "credwait"}
      BY <1>10, <2>3 DEF RChoose, RefreshHop, Linked
    <2>4. CASE r = "resume"
      BY <1>10, <2>4 DEF RChoose, ResumeHop
    <2>5. QED
      BY <1>10, <2>1, <2>2, <2>3, <2>4 DEF RChoose
  <1>11. CASE RSet
    BY <1>11 DEF RSet, Set, RAfter
  <1>12. CASE RSetFails
    BY <1>12 DEF RSetFails, RRaise, RAfter, SetFails, Rejected, FailClosed,
        ClientFailClosed, ReleaseLock
  <1>13. CASE RRefresh
    <2>1. CASE r' \in {"disc", "resume", "credwait"}
      BY <1>13, <2>1, RefreshOutcomes
    <2>2. CASE r' \in {"toNV", "toError"}
      <3>1. apart /\ c = "none" /\ lifeErr => r' # "toError"
        BY <1>13, RefreshOutcomes
      <3>2. /\ r = "cred" /\ rw' = (IF r' = "toNV" THEN "needs_validation" ELSE "error")
            /\ UNCHANGED <<mem, flock, stopReq, clStop, lifeErr, sock, s,
                          rend, m, c, v, faults>>
        BY <1>13, <2>2, RefreshOutcomes
      <3>3. QED
        BY <2>2, <3>1, <3>2
    <2>3. QED
      BY <1>13, <2>1, <2>2, RefreshOutcomes
  <1>14. CASE RFinish
    BY <1>14 DEF RFinish
  <1>15. CASE RServeEnds
    BY <1>15 DEF RServeEnds
  <1>16. CASE MarkReady
    BY <1>16 DEF MarkReady
  <1>17. CASE MPoll
    BY <1>17 DEF MPoll
  <1>18. CASE MPromote
    BY <1>18 DEF MPromote, Set, SetFails, Rejected, FailClosed, ReleaseLock
  <1>19. CASE CStopping
    BY <1>19 DEF CStopping, Set, SetFails
  <1>20. CASE CCancelMonitor
    BY <1>20 DEF CCancelMonitor, CancelMonitor, CancelledWrite
  <1>21. CASE CCancelRun
    BY <1>21 DEF CCancelRun, CancelledWrite
  <1>22. CASE CRunEnded
    BY <1>22 DEF CRunEnded
  <1>23. CASE CEmit
    BY <1>23 DEF CEmit, Set, SetFails, Settled
  <1>24. CASE CRelease
    BY <1>24 DEF CRelease, ReleaseLock
  <1>25. CASE CDisable
    BY <1>25 DEF CDisable, Set, SetFails, Rejected
  <1>26. CASE VBegin
    BY <1>26 DEF VBegin
  <1>27. CASE VRefresh
    BY <1>27, ValidationOutcomes DEF VRefresh, Set, SetFails, Rejected
  <1>28. CASE VCheck
    BY <1>28 DEF VCheck, Set, VGiveUp, SetFails, Rejected, ReleaseLock
  <1>29. CASE VConnect
    BY <1>29 DEF VConnect, Set, VGiveUp, SetFails, Rejected, ReleaseLock, ClientStart
  <1>30. CASE (apart => r \notin RActive) /\ Start
    BY <1>30 DEF Start
  <1>31. CASE StopCall
    BY <1>31, StartupTable DEF StopCall, SFinish, ReleaseLock, CancelledWrite
  <1>32. CASE r \in REnded /\ (r = "failed" \/ lifeErr) /\ FailClosedCall
    BY <1>32 DEF FailClosedCall, CancelMonitor, FailClosed, ReleaseLock, CancelledWrite
  <1>33. CASE NewWorker
    BY <1>33 DEF NewWorker, Fresh
  <1>34. CASE Crash
    BY <1>34 DEF Crash, Fresh, ReleaseLock
  <1>35. CASE OtherProcess
    BY <1>35 DEF OtherProcess, OpenCircuit
  <1>36. CASE TokenExpires
    BY <1>36 DEF TokenExpires
  <1>37. CASE UNCHANGED vars
    BY <1>37 DEF vars
  <1>38. QED
    BY <1>1, <1>2, <1>3, <1>4, <1>5, <1>6, <1>7, <1>8, <1>9, <1>10, <1>11, <1>12, <1>13,
       <1>14, <1>15, <1>16, <1>17, <1>18, <1>19, <1>20, <1>21, <1>22, <1>23, <1>24,
       <1>25, <1>26, <1>27, <1>28, <1>29, <1>30, <1>31, <1>32, <1>33, <1>34, <1>35,
       <1>36, <1>37
    DEF Paced, Tasks, Startup, Transport, Monitor, Stopping, Recover

\* The invariant behind the lock and the stop: which flag, lock or failure goes
\* with each place of the stop, the startup and the run task.
THEOREM ClosingInvariant == Spec => [](LifecycleInv /\ ClosingInv(Requests = {}))
  <1>1. Init => ClosingInv(Requests = {})
    BY DEF Init, ClosingInv, WhereaboutsInv, CoverInv, CalmInv, SerialInv, RetreatInv,
        Orderly,
        Driving, SActive, RActive, REnded, CActive, CEnded, NoTarget
  <1>2. [Next]_vars => [Paced(Requests = {})]_vars
    BY Zenon DEF Next, Owner, Paced, Start
  <1>3. LifecycleInv /\ ClosingInv(Requests = {}) /\ [Next]_vars
          => ClosingInv(Requests = {})'
    BY <1>2, ClosingStep
  <1>4. QED
    BY <1>1, <1>3, LifecycleInvariant, PTL DEF Spec

\* Without operator recoveries, whatever gives the account's cross-process lock
\* back while a connection is open -- a promotion that could not be written, a
\* failed transport's cleanup -- has told the client to stop: no connection
\* serves on without the lock.
THEOREM NoUncoveredConnection ==
  ASSUME "recover" \notin Requests
  PROVE  Spec => []UncoveredSocketIsClosing
  <1>1. ClosingInv(Requests = {}) => UncoveredSocketIsClosing
    BY DEF ClosingInv, WhereaboutsInv, CoverInv, UncoveredSocketIsClosing, Driving, RActive
  <1>2. QED
    BY <1>1, ClosingInvariant, PTL

\* As _WorkerConnectionLock's docstring has it, one reservation of the account
\* covers startup and the whole life of the client's connection, while no
\* database call has failed: whatever requests overlap the worker's own tasks.
THEOREM OpenSocketsAreLocked == Spec => []LiveSocketHoldsLock
  <1>1. ClosingInv(Requests = {}) => LiveSocketHoldsLock
    BY DEF ClosingInv, WhereaboutsInv, CalmInv, LiveSocketHoldsLock, Driving, RActive
  <1>2. QED
    BY <1>1, ClosingInvariant, PTL

\* Once a stop or a failed transport's cleanup has returned or raised, nothing
\* of that worker can act: with any number of failed database calls if requests
\* wait their turn, and with overlapping requests if no call has failed.
THEOREM StopsLeaveNothing ==
  Spec => [](Requests = {} \/ faults = 0 => StopLeavesNothing)
  <1>1. LifecycleInv /\ ClosingInv(Requests = {}) =>
          (Requests = {} \/ faults = 0 => StopLeavesNothing)
    BY DEF ClosingInv, Orderly, WhereaboutsInv, RetreatInv, StopLeavesNothing, RActive, CEnded
  <1>2. QED
    BY <1>1, ClosingInvariant, PTL

-----------------------------------------------------------------------------
(* What the pool relies on, while no start meets a run task.               *)

\* Before the worker is retired: the readiness monitor is gone whenever the
\* lifecycle has left the live states, and the transport's first hops.
MonitorInv == c = "none" =>
  /\ s \in SActive \/ mem \in {"disabled", "error", "needs_validation"}
     \/ r \in {"prep", "cred", "credwait", "resume", "toNV", "toError"} => m = "none"
  /\ r \in Driving => mem \notin {"starting", "stopping"}
  /\ r = "open" \/ (r = "tf" /\ rk = "auth") => mem = "connecting"
  /\ r = "cc" /\ rw # NoTarget => CanTransition(mem, rw)
  /\ stopReq => clStop /\ m = "none" /\ r # "ct"

\* The durable circuit is open only under a startup that will not connect, or a
\* transport that has no token to connect with, or one told to stop.
CircuitInv ==
  /\ s \in SActive => flock = "self"
  /\ s \in {"refreshing", "rechecking", "connecting", "go"} => ~risk
  /\ r \in Driving /\ ~clStop => flock = "self"
  /\ r \in Driving /\ ~clStop /\ risk => ~token
  /\ ((r = "tf" /\ rk = "auth") \/ r \in {"prep", "cred", "credwait"}) /\ ~clStop => ~token

\* While no database call has failed and nobody has retired the worker, its
\* transport ends only in validation or in the terminal error.
UneventfulInv == faults = 0 /\ c = "none" =>
  /\ ~stopReq /\ ~clStop
  /\ s = "done" /\ r \notin Driving => mem \in {"needs_validation", "error"}

ServingInv == MonitorInv /\ CircuitInv /\ UneventfulInv

\* Every step keeps what the pool relies on.
LEMMA ServingStep ==
  ASSUME "recover" \notin Requests
  PROVE  LifecycleInv /\ ClosingInv(TRUE) /\ ServingInv /\ [Paced(TRUE)]_vars => ServingInv'
  <1> SUFFICES ASSUME PlacesOK, TargetInv, EvidenceInv, OwnershipInv, ClosingInv(TRUE),
                      ServingInv, [Paced(TRUE)]_vars
               PROVE  ServingInv'
    BY DEF LifecycleInv, TypeOK
  <1> USE Transitions, NoWayBack, StatesAre
      DEF PlacesOK, TargetInv, EvidenceInv, OwnershipInv,
          ClosingInv, WhereaboutsInv, CoverInv, CalmInv, SerialInv, RetreatInv, Orderly,
          ServingInv, MonitorInv, CircuitInv, UneventfulInv,
          Driving, life, durable, lockv, flags, conn, run, stop,
          SActive, RActive, REnded, CActive, CEnded, NoTarget, LegacyStatus
  <1>1. CASE SLoad
    BY <1>1 DEF SLoad, FromPersistence
  <1>2. CASE SSet
    <2>1. MonitorInv'
      BY <1>2, StartupTable, StartupOrder DEF SSet, SFinish, Set, SetFails, Rejected,
          ReleaseLock
    <2>2. CircuitInv'
      BY <1>2, StartupTable, StartupOrder DEF SSet, SFinish, Set, SetFails, Rejected,
          ReleaseLock
    <2>3. UneventfulInv'
      BY <1>2, StartupTable, StartupOrder DEF SSet, SFinish, Set, SetFails, Rejected,
          ReleaseLock
    <2>4. QED
      BY Zenon, <2>1, <2>2, <2>3 DEF ServingInv
  <1>3. CASE SEnsure
    <2>1. MonitorInv'
      <3>1. UNCHANGED <<mem, r, rw, rk, m, c, stopReq, clStop>> /\ s \in SActive
        BY <1>3, EnsureOutcomes
      <3>2. QED
        BY <3>1
    <2>2. CircuitInv'
      <3>1. r \notin RActive /\ UNCHANGED r
        BY <1>3, EnsureOutcomes
      <3>2. s \in SActive /\ (s' \in SActive => UNCHANGED flock)
        BY <1>3, EnsureOutcomes DEF SFinish
      <3>3. s' \in {"refreshing", "rechecking", "connecting", "go"} => ~risk /\ UNCHANGED risk
        BY <1>3, EnsureOutcomes DEF SFinish
      <3>4. QED
        BY <3>1, <3>2, <3>3
    <2>3. UneventfulInv'
      BY <1>3, EnsureOutcomes DEF SFinish, ReleaseLock, OpenCircuit
    <2>4. QED
      BY Zenon, <2>1, <2>2, <2>3 DEF ServingInv
  <1>4. CASE SGo
    BY <1>4 DEF SGo, SFinish, ReleaseLock, ClientStart
  <1>5. CASE SFail
    BY <1>5 DEF SFail, Set, SetFails, Rejected, SFinish, ReleaseLock
  <1>6. CASE RTop
    BY <1>6 DEF RTop
  <1>7. CASE ROpen
    BY <1>7 DEF ROpen
  <1>8. CASE RRegister
    BY <1>8 DEF RRegister, CancelMonitor, CancelledWrite
  <1>9. CASE RCheck
    BY <1>9 DEF RCheck
  <1>10. CASE RChoose
    <2>1. MonitorInv'
      <3>1. CASE r = "cc"
        BY <1>10, <3>1, FirstHop DEF RChoose, RAfter
      <3>2. CASE r = "ct"
        BY <1>10, <3>2 DEF RChoose, RAfter, ConnectedHop
      <3>3. CASE r \in {"tf", "disc"}
        BY <1>10, <3>3 DEF RChoose, RAfter, Settled
      <3>4. CASE r \in {"prep", "credwait"}
        BY <1>10, <3>4 DEF RChoose
      <3>5. CASE r = "resume"
        BY <1>10, <3>5 DEF RChoose
      <3>6. QED
        BY <1>10, <3>1, <3>2, <3>3, <3>4, <3>5 DEF RChoose
    <2>2. CircuitInv'
      BY <1>10 DEF RChoose, RAfter, Settled, Linked, ConnectingHop, ConnectedHop,
          RefreshHop, ResumeHop
    <2>3. UneventfulInv'
      BY <1>10 DEF RChoose, RAfter, Settled, Linked, ConnectingHop, ConnectedHop,
          RefreshHop, ResumeHop
    <2>4. QED
      BY Zenon, <2>1, <2>2, <2>3 DEF ServingInv
  <1>11. CASE RSet
    <2>1. MonitorInv'
      BY <1>11 DEF RSet, Set, RAfter
    <2>2. CircuitInv'
      BY <1>11 DEF RSet, Set, RAfter
    <2>3. UneventfulInv'
      BY <1>11 DEF RSet, Set, RAfter
    <2>4. QED
      BY Zenon, <2>1, <2>2, <2>3 DEF ServingInv
  <1>12. CASE RSetFails
    <2>1. MonitorInv'
      <3>1. s \notin SActive /\ UNCHANGED <<mem, s, m, c>> /\ rw' = NoTarget
        BY <1>12 DEF RSetFails, RRaise, SetFails
      <3>2. CASE /\ c = "none" /\ r' = RAfter /\ r \in {"cc", "ct", "tf", "disc"}
                 /\ Rejected(rw) /\ UNCHANGED <<flags, rk>>
        <4>1. rw # NoTarget /\ ~CanTransition(mem, rw)
          BY <1>12, <3>2 DEF RSetFails, Rejected
        <4>2. r # "cc" /\ ~(r = "tf" /\ rk = "auth")
          BY <3>2, <4>1, FirstHop
        <4>3. r' \in {"serve", "check", "fin"} /\ (r' # "fin" => r \in Driving)
          BY <3>2, <4>2 DEF RAfter
        <4>4. QED
          BY <3>1, <3>2, <4>3
      <3>3. CASE r' \in {"check", "disc", "failed"} \/ (r' = "tf" /\ rk' = "net")
        <4>1. stopReq' => stopReq \/ (r = "ct" /\ clStop')
          BY <1>12 DEF RSetFails, RRaise, FailClosed, ClientFailClosed
        <4>2. clStop => clStop'
          BY <1>12 DEF RSetFails, RRaise, FailClosed, ClientFailClosed
        <4>3. r' \notin {"ct", "cc", "open", "prep", "cred", "credwait",
                        "resume", "toNV", "toError"}
          BY <3>3
        <4>4. r \in Driving \/ r = "disc"
          BY <1>12 DEF RSetFails
        <4>5. r' \in Driving => r \in Driving
          BY <1>12, <3>3, <4>4 DEF RSetFails, RRaise, RAfter
        <4>6. QED
          BY <3>1, <3>3, <4>1, <4>2, <4>3, <4>4, <4>5
      <3>4. QED
        BY <1>12, <3>1, <3>2, <3>3 DEF RSetFails, RRaise
    <2>2. CircuitInv'
      <3>1. s \notin SActive /\ UNCHANGED <<s, risk, token>>
        BY <1>12 DEF RSetFails
      <3>2. clStop' \/ UNCHANGED <<flock, clStop, rk>>
        BY <1>12 DEF RSetFails, RRaise, FailClosed, ClientFailClosed
      <3>3. /\ r \in RActive
            /\ \/ clStop' \/ r' = "failed" \/ (r \in Driving /\ r' = "check")
               \/ r \in {"cc", "ct", "tf", "disc"} /\ r' = RAfter
        BY <1>12 DEF RSetFails, RRaise, FailClosed, ClientFailClosed
      <3>4. r \in {"cc", "ct", "tf", "disc"} /\ r' = RAfter =>
              \/ r' \in {"open", "serve", "check"} /\ r \in Driving
              \/ r' = "prep" /\ r = "tf" /\ rk = "auth"
              \/ r' = "fin"
        BY DEF RAfter
      <3>5. QED
        BY <3>1, <3>2, <3>3, <3>4
    <2>3. UneventfulInv'
      <3>1. CASE faults' # faults
        <4>1. faults' # 0
          BY <1>12, <3>1 DEF RSetFails, SetFails
        <4>2. QED
          BY <4>1
      <3>2. CASE faults' = faults
        <4>1. UNCHANGED <<mem, s, c, stopReq, clStop, rend>>
          BY <1>12, <3>2 DEF RSetFails, RRaise, SetFails
        <4>2. r' \in Driving \/ (r = "disc" /\ r' = "fin")
          BY <1>12, <3>2 DEF RSetFails, RRaise, SetFails, RAfter
        <4>3. QED
          BY <3>2, <4>1, <4>2
      <3>3. QED
        BY <3>1, <3>2
    <2>4. QED
      BY Zenon, <2>1, <2>2, <2>3 DEF ServingInv
  <1>13. CASE RRefresh
    <2>1. MonitorInv'
      BY <1>13, RefreshOutcomes DEF OpenCircuit
    <2>2. CircuitInv'
      <3>1. r = "cred" /\ UNCHANGED <<s, flock, clStop, rk>>
        BY <1>13, RefreshOutcomes
      <3>2. r' \in {"disc", "credwait", "toError"} => UNCHANGED <<risk, token>>
        BY <1>13, RefreshOutcomes
      <3>3. r' = "resume" => ~risk'
        BY <1>13, RefreshOutcomes
      <3>4. r' = "toNV" => UNCHANGED token
        BY <1>13, RefreshOutcomes
      <3>5. r' \in {"disc", "credwait", "toError", "resume", "toNV"}
        BY <1>13, RefreshOutcomes
      <3>6. QED
        BY <3>1, <3>2, <3>3, <3>4, <3>5
    <2>3. UneventfulInv'
      <3>1. CASE stopReq
        BY <1>13, <3>1, RefreshOutcomes
      <3>2. CASE ~stopReq
        <4>1. r \in Driving /\ r' \in Driving
          BY <1>13, <3>2, RefreshOutcomes
        <4>2. UNCHANGED <<faults, c, stopReq, clStop, s, rend>>
          BY <1>13, RefreshOutcomes
        <4>3. QED
          BY <4>1, <4>2
      <3>3. QED
        BY <3>1, <3>2
    <2>4. QED
      BY Zenon, <2>1, <2>2, <2>3 DEF ServingInv
  <1>14. CASE RFinish
    <2>1. MonitorInv'
      BY <1>14 DEF RFinish
    <2>2. CircuitInv'
      BY <1>14 DEF RFinish
    <2>3. UneventfulInv'
      BY <1>14 DEF RFinish
    <2>4. QED
      BY Zenon, <2>1, <2>2, <2>3 DEF ServingInv
  <1>15. CASE RServeEnds
    BY <1>15 DEF RServeEnds
  <1>16. CASE MarkReady
    BY <1>16 DEF MarkReady
  <1>17. CASE MPoll
    BY <1>17 DEF MPoll
  <1>18. CASE MPromote
    BY <1>18 DEF MPromote, Set, SetFails, Rejected, FailClosed, ReleaseLock
  <1>19. CASE CStopping
    BY <1>19 DEF CStopping, Set, SetFails
  <1>20. CASE CCancelMonitor
    BY <1>20 DEF CCancelMonitor, CancelMonitor, CancelledWrite
  <1>21. CASE CCancelRun
    BY <1>21 DEF CCancelRun, CancelledWrite
  <1>22. CASE CRunEnded
    BY <1>22 DEF CRunEnded
  <1>23. CASE CEmit
    BY <1>23 DEF CEmit, Set, SetFails, Settled
  <1>24. CASE CRelease
    BY <1>24 DEF CRelease, ReleaseLock
  <1>25. CASE CDisable
    BY <1>25 DEF CDisable, Set, SetFails, Rejected
  <1>26. CASE VBegin
    BY <1>26 DEF VBegin
  <1>27. CASE VRefresh
    BY <1>27, ValidationOutcomes DEF VRefresh, Set, SetFails, Rejected
  <1>28. CASE VCheck
    BY <1>28 DEF VCheck, Set, VGiveUp, SetFails, Rejected, ReleaseLock
  <1>29. CASE VConnect
    BY <1>29 DEF VConnect, Set, VGiveUp, SetFails, Rejected, ReleaseLock, ClientStart
  <1>30. CASE r \notin RActive /\ Start
    BY <1>30 DEF Start
  <1>31. CASE StopCall
    BY <1>31, StartupTable DEF StopCall, SFinish, ReleaseLock, CancelledWrite
  <1>32. CASE r \in REnded /\ (r = "failed" \/ lifeErr) /\ FailClosedCall
    BY <1>32 DEF FailClosedCall, CancelMonitor, FailClosed, ReleaseLock, CancelledWrite
  <1>33. CASE NewWorker
    BY <1>33 DEF NewWorker, Fresh
  <1>34. CASE Crash
    BY <1>34 DEF Crash, Fresh, ReleaseLock
  <1>35. CASE OtherProcess
    BY <1>35 DEF OtherProcess, OpenCircuit
  <1>36. CASE TokenExpires
    BY <1>36 DEF TokenExpires
  <1>37. CASE UNCHANGED vars
    BY <1>37 DEF vars
  <1>38. QED
    BY <1>1, <1>2, <1>3, <1>4, <1>5, <1>6, <1>7, <1>8, <1>9, <1>10, <1>11, <1>12, <1>13,
       <1>14, <1>15, <1>16, <1>17, <1>18, <1>19, <1>20, <1>21, <1>22, <1>23, <1>24,
       <1>25, <1>26, <1>27, <1>28, <1>29, <1>30, <1>31, <1>32, <1>33, <1>34, <1>35,
       <1>36, <1>37
    DEF Paced, Tasks, Startup, Transport, Monitor, Stopping, Recover

-----------------------------------------------------------------------------
(* The pool, until a start meets a run task: generations of the worker.    *)

WorkerInv == LifecycleInv /\ ClosingInv(TRUE) /\ ServingInv

\* No task of the worker is at work, and the lock is not held for it.
Idle  == s \notin SActive /\ r \notin RActive /\ m = "none"
Ended == Idle /\ flock # "self"

\* A worker enters the pool: a new object whose startup has taken the lock.
Entered == Fresh("load") /\ flock' = "self" /\ UNCHANGED <<db, durable, faults>>

\* Which worker the pool has: the current one is not being retired, a command
\* or a shutdown has let go of it, and one that left the pool without a
\* retirement, or will as soon as its startup is observed, has ended.
GenerationInv ==
  /\ cur => c = "none" /\ retire = "none"
  /\ cmd \in Waiting \/ closing => ~cur
  /\ retire = "failed" /\ c = "none" => r \in REnded /\ (r = "failed" \/ lifeErr)
  /\ ~cur /\ retire = "none" /\ c = "none" => Ended
  /\ c \notin {"none"} \cup CEnded => retire # "none"
  /\ sObs /\ s \notin SActive /\ c = "none" /\ (s = "failed" \/ mem = "error") => Ended
  /\ sObs => s # "none"

\* Who will hear of the current worker's end: its startup is observed while it
\* runs, its transport from the moment the startup has been; and the terminal
\* error is not left behind unheard.
ObservedInv ==
  /\ cur /\ ~sObs => s = "done"
  /\ cur /\ r \in RActive /\ ~tObs => sObs /\ s = "done" /\ mem # "error"
  /\ tObs => r # "idle"
  /\ cur /\ ~sObs /\ ~tObs /\ faults = 0 /\ r \notin RActive => mem # "error"

\* A daemon that is shutting down is not inside a command.
ShutdownInv == closing => cmd \notin Waiting

\* The order of workers is that of a process in which no start has met a run
\* task; the rest always holds, and is what the next process starts from.
PoolInv ==
  TypeOK /\ ShutdownInv /\ (~met => WorkerInv /\ GenerationInv /\ ObservedInv)

\* What the pool can rely on when the worker's own tasks, another process or
\* the token's expiry make a step: none of them retires or revives a worker.
Undisturbed ==
  /\ (c = "none") = (c' = "none")
  /\ c \in CEnded => c' = c
  /\ s \notin SActive => s' = s
  /\ s' # "none" \/ s = "none"
  /\ s \notin SActive /\ r \notin RActive => r' = r /\ (lifeErr => lifeErr')
  /\ r # "idle" => r' # "idle"
  /\ s' \in SActive => r' = r
  /\ c = "none" /\ s \in SActive /\ s' \notin SActive =>
       /\ s' \in {"done", "failed"}
       /\ s' = "failed" \/ mem' = "error" => Ended'
       /\ r' \in RActive => s' = "done" /\ mem' # "error"
  /\ c = "none" /\ Idle => Idle' /\ mem' = mem
  /\ flock' = "self" /\ flock # "self" => s \in SActive \/ r \in RActive
  /\ faults' = 0 => faults = 0

\* Every step of the worker's tasks and its surroundings leaves the pool's
\* business alone.
LEMMA TaskStep ==
  ASSUME "recover" \notin Requests
  PROVE  WorkerInv /\ (Tasks \/ OtherProcess \/ TokenExpires) => Undisturbed
  <1> SUFFICES ASSUME PlacesOK, TargetInv, EvidenceInv, OwnershipInv, ClosingInv(TRUE),
                      ServingInv,
                      Tasks \/ OtherProcess \/ TokenExpires
               PROVE  Undisturbed
    BY DEF WorkerInv, LifecycleInv, TypeOK
  <1> USE Transitions, StatesAre
      DEF PlacesOK, TargetInv, EvidenceInv, OwnershipInv, Undisturbed, Idle, Ended,
          ClosingInv, WhereaboutsInv, CoverInv, CalmInv, SerialInv, RetreatInv, Orderly,
          ServingInv, MonitorInv, CircuitInv, UneventfulInv,
          Driving, life, durable, lockv, flags, conn, run, stop,
          SActive, RActive, REnded, CActive, CEnded, NoTarget, LegacyStatus
  <1>1. CASE SLoad
    BY <1>1 DEF SLoad, FromPersistence
  <1>2. CASE SSet
    BY <1>2, StartupTable, StartupOrder DEF SSet, SFinish, Set, SetFails, Rejected,
        ReleaseLock
  <1>3. CASE SEnsure
    <2>1. /\ s = "ensure"
          /\ s' \in {"done", "connecting", "refreshing", "retry", "toError", "toNV"}
          /\ UNCHANGED <<mem, sock, stopReq, clStop, lifeErr, r, rw, rend, m, c, v, faults>>
      BY <1>3, EnsureOutcomes DEF SFinish
    <2>2. flock' = (IF s' = "done" /\ flock = "self" THEN "free" ELSE flock)
      BY <1>3, EnsureOutcomes DEF SFinish, ReleaseLock
    <2>3. QED
      BY <2>1, <2>2
  <1>4. CASE SGo
    BY <1>4 DEF SGo, SFinish, ReleaseLock, ClientStart
  <1>5. CASE SFail
    BY <1>5 DEF SFail, Set, SetFails, Rejected, SFinish, ReleaseLock
  <1>6. CASE RTop
    BY <1>6 DEF RTop
  <1>7. CASE ROpen
    BY <1>7 DEF ROpen
  <1>8. CASE RRegister
    BY <1>8 DEF RRegister, CancelMonitor, CancelledWrite
  <1>9. CASE RCheck
    BY <1>9 DEF RCheck
  <1>10. CASE RChoose
    <2>1. CASE r \in {"cc", "ct"}
      BY <1>10, <2>1 DEF RChoose, RAfter, ConnectingHop, ConnectedHop
    <2>2. CASE r \in {"tf", "disc"}
      BY <1>10, <2>2 DEF RChoose, RAfter, Settled
    <2>3. CASE r \in {"prep", "credwait"}
      BY <1>10, <2>3 DEF RChoose, RefreshHop, Linked
    <2>4. CASE r = "resume"
      BY <1>10, <2>4 DEF RChoose, ResumeHop
    <2>5. QED
      BY <1>10, <2>1, <2>2, <2>3, <2>4 DEF RChoose
  <1>11. CASE RSet
    BY <1>11 DEF RSet, Set, RAfter
  <1>12. CASE RSetFails
    BY <1>12 DEF RSetFails, RRaise, RAfter, SetFails, Rejected, FailClosed,
        ClientFailClosed, ReleaseLock
  <1>13. CASE RRefresh
    <2>1. /\ r = "cred" /\ r' \in {"disc", "resume", "credwait", "toError", "toNV"}
          /\ UNCHANGED <<mem, flock, lifeErr, s, m, c, faults>>
      BY <1>13, RefreshOutcomes
    <2>2. s \notin SActive
      BY <2>1
    <2>3. QED
      BY <2>1, <2>2
  <1>14. CASE RFinish
    BY <1>14 DEF RFinish
  <1>15. CASE RServeEnds
    BY <1>15 DEF RServeEnds
  <1>16. CASE MarkReady
    BY <1>16 DEF MarkReady
  <1>17. CASE MPoll
    BY <1>17 DEF MPoll
  <1>18. CASE MPromote
    BY <1>18 DEF MPromote, Set, SetFails, Rejected, FailClosed, ReleaseLock
  <1>19. CASE CStopping
    BY <1>19 DEF CStopping, Set, SetFails
  <1>20. CASE CCancelMonitor
    BY <1>20 DEF CCancelMonitor, CancelMonitor, CancelledWrite
  <1>21. CASE CCancelRun
    BY <1>21 DEF CCancelRun, CancelledWrite
  <1>22. CASE CRunEnded
    BY <1>22 DEF CRunEnded
  <1>23. CASE CEmit
    BY <1>23 DEF CEmit, Set, SetFails, Settled
  <1>24. CASE CRelease
    BY <1>24 DEF CRelease, ReleaseLock
  <1>25. CASE CDisable
    BY <1>25 DEF CDisable, Set, SetFails, Rejected
  <1>26. CASE VBegin
    BY <1>26 DEF VBegin
  <1>27. CASE VRefresh
    BY <1>27, ValidationOutcomes DEF VRefresh, Set, SetFails, Rejected
  <1>28. CASE VCheck
    BY <1>28 DEF VCheck, Set, VGiveUp, SetFails, Rejected, ReleaseLock
  <1>29. CASE VConnect
    BY <1>29 DEF VConnect, Set, VGiveUp, SetFails, Rejected, ReleaseLock, ClientStart
  <1>30. CASE OtherProcess
    BY <1>30 DEF OtherProcess, OpenCircuit
  <1>31. CASE TokenExpires
    BY <1>31 DEF TokenExpires
  <1>32. QED
    BY <1>1, <1>2, <1>3, <1>4, <1>5, <1>6, <1>7, <1>8, <1>9, <1>10, <1>11, <1>12, <1>13,
       <1>14, <1>15, <1>16, <1>17, <1>18, <1>19, <1>20, <1>21, <1>22, <1>23, <1>24,
       <1>25, <1>26, <1>27, <1>28, <1>29, <1>30, <1>31
    DEF Tasks, Startup, Transport, Monitor, Stopping, Recover

\* A step of the pool is a step of the worker, its cleanup, the entry of a new
\* one, or none of the worker's business.
LEMMA PoolStepIsWorkers ==
  ASSUME [PoolNext]_poolVars
  PROVE  [Next]_vars \/ FailClosedCall \/ Entered
  <1>1. CASE WorkerStep
    BY Zenon, <1>1 DEF WorkerStep, InLoop, Within, Next
  <1>2. CASE StartupObserved \/ TransportObserved \/ RetirementEnds
    BY <1>2 DEF StartupObserved, TransportObserved, RetirementEnds
  <1>3. CASE RetirementRuns
    BY <1>3 DEF RetirementRuns, Next, Owner
  <1>4. CASE CommandBlocked \/ EnsureStopped \/ StopAll \/ DisableAccount
    BY <1>4 DEF CommandBlocked, EnsureStopped, StopAll, DisableAccount
  <1>5. CASE EnsureStarted
    BY Zenon, <1>5 DEF EnsureStarted, StartObserved, Create, Entered, Next, Owner
  <1>6. CASE CommandEnds
    BY Zenon, <1>6 DEF CommandEnds, Create, Entered
  <1>7. CASE Reconcile
    BY Zenon, <1>7 DEF Reconcile, Create, Entered
  <1>8. CASE DaemonExits \/ DaemonCrash
    BY Zenon, <1>8 DEF DaemonExits, DaemonCrash, Next
  <1>9. CASE \E action \in Commands : Submit(action)
    BY <1>9 DEF Submit
  <1>10. CASE UNCHANGED poolVars
    BY <1>10 DEF poolVars
  <1>11. QED
    BY <1>1, <1>2, <1>3, <1>4, <1>5, <1>6, <1>7, <1>8, <1>9, <1>10
    DEF PoolNext, Callbacks, Daemon

\* The pool's memory of a start that met a run task goes with the process only;
\* without one the worker's steps are paced.
LEMMA PoolStepIsPaced ==
  ASSUME [PoolNext]_poolVars, ~met'
  PROVE  /\ met => DaemonExits \/ DaemonCrash
         /\ GenerationInv => [Paced(TRUE)]_vars \/ Entered
  <1>1. CASE WorkerStep
    <2>1. UNCHANGED met
      BY Zenon, <1>1 DEF WorkerStep, InLoop, Within
    <2>2. Paced(TRUE)
      BY Zenon, <1>1 DEF WorkerStep, InLoop, Within, Paced
    <2>3. QED
      BY <2>1, <2>2
  <1>2. CASE StartupObserved \/ TransportObserved \/ RetirementEnds
    <2>1. UNCHANGED <<vars, met>>
      BY <1>2 DEF StartupObserved, TransportObserved, RetirementEnds, control
    <2>2. QED
      BY <2>1
  <1>3. CASE RetirementRuns
    <2>1. c = "none" /\ UNCHANGED met
      BY <1>3 DEF RetirementRuns, StopCall, FailClosedCall, control
    <2>2. QED
      BY <1>3, <2>1 DEF RetirementRuns, GenerationInv, Paced
  <1>4. CASE CommandBlocked \/ EnsureStopped \/ StopAll \/ DisableAccount
    <2>1. UNCHANGED <<vars, met>>
      BY <1>4 DEF CommandBlocked, EnsureStopped, StopAll, DisableAccount
    <2>2. QED
      BY <2>1
  <1>5. CASE EnsureStarted
    <2>1. CASE UNCHANGED <<vars, met>>
      BY <2>1
    <2>2. CASE Create /\ UNCHANGED met
      BY Zenon, <2>2 DEF Create, Entered
    <2>3. CASE StartObserved /\ met' = (met \/ r \in RActive)
      <3>1. Start /\ r \notin RActive /\ ~met
        BY <2>3 DEF StartObserved
      <3>2. QED
        BY <3>1 DEF Paced
    <2>4. QED
      BY Zenon, <1>5, <2>1, <2>2, <2>3 DEF EnsureStarted
  <1>6. CASE CommandEnds \/ Reconcile
    <2>1. UNCHANGED met
      BY <1>6 DEF CommandEnds, Reconcile, control
    <2>2. UNCHANGED vars \/ Entered
      BY Zenon, <1>6 DEF CommandEnds, Reconcile, Create, Entered
    <2>3. QED
      BY <2>1, <2>2
  <1>7. CASE DaemonExits \/ DaemonCrash
    BY <1>7 DEF DaemonExits, DaemonCrash, Paced
  <1>8. CASE \E action \in Commands : Submit(action)
    BY <1>8 DEF Submit
  <1>9. CASE UNCHANGED poolVars
    BY <1>9 DEF poolVars, control
  <1>10. QED
    BY <1>1, <1>2, <1>3, <1>4, <1>5, <1>6, <1>7, <1>8, <1>9
    DEF PoolNext, Callbacks, Daemon

\* A worker that enters the pool satisfies every invariant of a worker, and so
\* does the one a new process would build.
LEMMA EntersWell == TypeOK /\ (Entered \/ Crash) => WorkerInv'
  <1> SUFFICES ASSUME SwitchesOK, PlacesOK, Entered \/ Crash
               PROVE  WorkerInv'
    BY DEF TypeOK
  <1>1. SwitchesOK'
    BY Zenon DEF SwitchesOK, Entered, Crash, Fresh, durable
  <1>2. PlacesOK'
    BY StatesAre DEF PlacesOK, Entered, Crash, ReleaseLock, Fresh, SActive, NoTarget, REnded
  <1>3. TargetInv' /\ EvidenceInv' /\ OwnershipInv'
    BY DEF TargetInv, EvidenceInv, OwnershipInv, Driving, RActive, SActive, NoTarget,
        Entered, Crash, Fresh
  <1>4. ClosingInv(TRUE)'
    BY DEF ClosingInv, WhereaboutsInv, CoverInv, CalmInv, SerialInv, RetreatInv, Driving,
        RActive, REnded, CEnded, NoTarget, Entered, Crash, Fresh
  <1>5. ServingInv'
    BY DEF ServingInv, MonitorInv, CircuitInv, UneventfulInv, Driving, RActive, SActive,
        NoTarget, Entered, Crash, Fresh
  <1>6. QED
    BY <1>1, <1>2, <1>3, <1>4, <1>5 DEF WorkerInv, LifecycleInv, TypeOK

\* Every step of the pool keeps the worker's types, and its invariants as long
\* as no start meets a run task.
LEMMA PoolKeepsWorker ==
  ASSUME "recover" \notin Requests
  PROVE  PoolInv /\ [PoolNext]_poolVars => TypeOK' /\ (~met' => WorkerInv')
  <1> SUFFICES ASSUME PoolInv, [PoolNext]_poolVars
               PROVE  TypeOK' /\ (~met' => WorkerInv')
    OBVIOUS
  <1>1. TypeOK'
    <2>1. CASE Entered
      BY <2>1, EntersWell DEF PoolInv, WorkerInv, LifecycleInv
    <2>2. CASE [Next]_vars \/ FailClosedCall
      BY <2>2, SwitchesStep, PlacesStep DEF PoolInv, TypeOK
    <2>3. QED
      BY <2>1, <2>2, PoolStepIsWorkers
  <1>2. ASSUME ~met' PROVE WorkerInv'
    <2>1. CASE Entered \/ Crash
      BY <2>1, EntersWell DEF PoolInv
    <2>2. CASE ~met /\ [Paced(TRUE)]_vars
      <3>1. WorkerInv
        BY <2>2 DEF PoolInv
      <3>2. [Next]_vars
        BY Zenon, <2>2 DEF Paced, Next, Owner
      <3>3. ClosingInv(TRUE)'
        BY <2>2, <3>1, ClosingStep DEF WorkerInv
      <3>4. QED
        BY <1>1, <2>2, <3>1, <3>2, <3>3, CourseStep, ServingStep DEF WorkerInv, LifecycleInv
    <2>3. met => Crash
      BY <1>2, PoolStepIsPaced DEF DaemonExits, DaemonCrash
    <2>4. ~met => [Paced(TRUE)]_vars \/ Entered
      BY <1>2, PoolStepIsPaced DEF PoolInv
    <2>5. QED
      BY <2>1, <2>2, <2>3, <2>4
  <1>3. QED
    BY <1>1, <1>2

\* Every step of the pool keeps commands and the shutdown apart.
LEMMA PoolKeepsShutdown == ShutdownInv /\ [PoolNext]_poolVars => ShutdownInv'
  <1> SUFFICES ASSUME ShutdownInv, [PoolNext]_poolVars PROVE ShutdownInv'
    OBVIOUS
  <1> USE DEF ShutdownInv, Waiting, Serving
  <1>1. CASE WorkerStep \/ Callbacks \/ Reconcile \/ DisableAccount
    BY Zenon, <1>1 DEF WorkerStep, InLoop, Within, Callbacks, StartupObserved,
        TransportObserved, RetirementRuns, RetirementEnds, Reconcile, DisableAccount, control
  <1>2. CASE CommandBlocked \/ EnsureStarted \/ CommandEnds
    BY <1>2 DEF CommandBlocked, EnsureStarted, CommandEnds
  <1>3. CASE EnsureStopped \/ StopAll
    BY <1>3 DEF EnsureStopped, StopAll
  <1>4. CASE DaemonExits \/ DaemonCrash
    BY <1>4 DEF DaemonExits, DaemonCrash
  <1>5. CASE \E action \in Commands : Submit(action)
    BY <1>5 DEF Submit, Commands
  <1>6. CASE UNCHANGED poolVars
    BY <1>6 DEF poolVars, control
  <1>7. QED
    BY <1>1, <1>2, <1>3, <1>4, <1>5, <1>6 DEF PoolNext, Daemon

\* Every step of the pool keeps its generations apart and its observers in place.
LEMMA PoolKeepsGenerations ==
  ASSUME "recover" \notin Requests
  PROVE  PoolInv /\ [PoolNext]_poolVars /\ ~met' => GenerationInv' /\ ObservedInv'
  <1> SUFFICES ASSUME PoolInv, [PoolNext]_poolVars, ~met'
               PROVE  GenerationInv' /\ ObservedInv'
    OBVIOUS
  <1>0. CASE met
    <2>1. DaemonExits \/ DaemonCrash
      BY <1>0, PoolStepIsPaced
    <2>2. Fresh("none") /\ ReleaseLock /\ cur' = FALSE /\ sObs' = FALSE /\ closing' = FALSE
      BY <2>1 DEF DaemonExits, DaemonCrash, Crash
    <2>3. retire' = "none" /\ tObs' = FALSE /\ cmd' \notin Waiting
      BY <2>1 DEF DaemonExits, DaemonCrash, Drained, Retired, Waiting, PoolInv, ShutdownInv
    <2>4. QED
      BY <2>2, <2>3 DEF GenerationInv, ObservedInv, Fresh, ReleaseLock, Ended, Idle, SActive,
          RActive, CEnded
  <1> SUFFICES ASSUME ~met PROVE GenerationInv' /\ ObservedInv'
    BY <1>0
  <1>a. PlacesOK /\ ClosingInv(TRUE) /\ ServingInv
    BY DEF PoolInv, WorkerInv, LifecycleInv, TypeOK
  <1>b. /\ c = "none" /\ (r = "failed" \/ lifeErr) => s \notin SActive
        /\ c = "none" => "cancelled" \notin {s, r}
        /\ faults = 0 /\ c = "none" => ~stopReq /\ ~lifeErr /\ r # "failed"
        /\ faults = 0 /\ c = "none" /\ s = "done" /\ r \notin RActive => m = "none"
    BY <1>a DEF ClosingInv, WhereaboutsInv, SerialInv, CalmInv, ServingInv, MonitorInv,
                UneventfulInv, Driving
  <1> USE <1>a, <1>b DEF PoolInv, ShutdownInv, GenerationInv, ObservedInv, Idle, Ended,
      Waiting, Serving, Retired,
              poolVars, vars, pool, control, life, durable, lockv, flags, conn, run, stop,
              PlacesOK, SActive, RActive, REnded, CActive, CEnded
  <1>1. CASE WorkerStep
    <2>1. Undisturbed
      BY <1>1, TaskStep DEF WorkerStep, InLoop, Within
    <2>2. UNCHANGED <<cur, retire, sObs, tObs, cmd, closing>>
      BY <1>1 DEF WorkerStep, InLoop, Within
    <2>3. ~(sObs /\ s \notin SActive) \/ UNCHANGED <<mem, s, r, m, c, lifeErr>>
      BY <1>1 DEF WorkerStep, InLoop, Within, OtherProcess, TokenExpires, run, stop, flags
    <2>4. GenerationInv'
      BY <2>1, <2>2, <2>3 DEF Undisturbed
    <2>5. ObservedInv'
      BY <2>1, <2>2, <2>3 DEF Undisturbed
    <2>6. QED
      BY <2>4, <2>5
  <1>2. CASE StartupObserved
    BY <1>2 DEF StartupObserved
  <1>3. CASE TransportObserved
    BY <1>3 DEF TransportObserved, Claim
  <1>4. CASE RetirementRuns
    <2>1. /\ retire # "none" /\ c = "none" /\ c' \in {"stopping", "done"}
          /\ s' \in {s, "cancelled"} /\ UNCHANGED <<r, cur, retire, sObs, tObs, cmd, closing>>
      BY <1>4 DEF RetirementRuns, StopCall, FailClosedCall, SFinish
    <2>2. QED
      BY <2>1
  <1>5. CASE RetirementEnds
    BY <1>5 DEF RetirementEnds
  <1>6. CASE CommandBlocked
    BY <1>6 DEF CommandBlocked
  <1>7. CASE EnsureStarted
    <2>1. cmd \notin Waiting /\ cmd' = "idle" /\ ~closing /\ UNCHANGED closing
      BY <1>7 DEF EnsureStarted
    <2>2. CASE UNCHANGED <<vars, cur, retire, sObs>> /\ (tObs' => tObs \/ r # "idle")
                /\ (tObs => tObs')
      BY <2>1, <2>2
    <2>3. CASE ~cur /\ retire = "none" /\ Create
      BY <2>1, <2>3 DEF Create, Fresh
    <2>4. CASE cur /\ StartObserved /\ met' = (met \/ r \in RActive)
      BY <2>1, <2>4 DEF StartObserved, Start
    <2>5. QED
      <3>1. CASE retire # "none" /\ UNCHANGED <<vars, pool>>
        BY <2>2, <3>1
      <3>2. CASE UNCHANGED <<vars, cur, retire, sObs>>
                  /\ tObs' = (tObs \/ (s \notin SActive /\ mem \notin {"disabled", "error"}
                                         /\ r # "idle"))
        BY Zenon, <2>2, <3>2
      <3>3. QED
        BY Zenon, <1>7, <2>3, <2>4, <3>1, <3>2 DEF EnsureStarted
  <1>8. CASE EnsureStopped
    BY <1>8 DEF EnsureStopped, Claim
  <1>9. CASE CommandEnds
    BY <1>9 DEF CommandEnds, Create, Fresh
  <1>10. CASE DaemonExits
    BY <1>10 DEF DaemonExits, Drained, Crash, Fresh, ReleaseLock
  <1>11. CASE Reconcile
    BY <1>11 DEF Reconcile, Claim, Create, Fresh
  <1>12. CASE \E action \in Commands : Submit(action)
    BY <1>12 DEF Submit, Commands
  <1>13. CASE StopAll
    BY <1>13 DEF StopAll, Claim
  <1>14. CASE DisableAccount
    BY <1>14 DEF DisableAccount
  <1>15. CASE DaemonCrash
    BY <1>15 DEF DaemonCrash, Crash, Fresh, ReleaseLock
  <1>16. CASE UNCHANGED poolVars
    BY <1>16 DEF poolVars
  <1>17. QED
    BY <1>1, <1>2, <1>3, <1>4, <1>5, <1>6, <1>7, <1>8, <1>9, <1>10, <1>11, <1>12, <1>13,
       <1>14, <1>15, <1>16
    DEF PoolNext, Callbacks, Daemon

\* A connection is opened by the run task alone, and with a prepared token.
LEMMA OpensOnlyWithToken ==
  ASSUME [Next]_vars, ~sock, sock'
  PROVE  r = "open" /\ token
  <1>1. CASE ROpen
    BY <1>1 DEF ROpen
  <1>2. CASE Startup
    BY Zenon, <1>2 DEF Startup, SLoad, SSet, SEnsure, SGo, SFail, conn, flags
  <1>3. CASE RTop \/ RRegister \/ RCheck \/ RChoose \/ RSet \/ RRefresh \/ RFinish
             \/ RServeEnds \/ MarkReady
    BY Zenon, <1>3 DEF RTop, RRegister, RCheck, RChoose, RSet, RRefresh, RFinish, RServeEnds,
        MarkReady, conn
  <1>4. CASE RSetFails
    BY Zenon, <1>4 DEF RSetFails, RRaise, FailClosed, ClientFailClosed, conn
  <1>5. CASE Monitor
    BY Zenon, <1>5 DEF Monitor, MPoll, MPromote, FailClosed, conn
  <1>6. CASE Stopping
    BY Zenon, <1>6 DEF Stopping, CStopping, CCancelMonitor, CCancelRun, CRunEnded, CEmit,
        CRelease, CDisable, conn
  <1>7. CASE Recover
    BY Zenon, <1>7 DEF Recover, VBegin, VRefresh, VCheck, VConnect, conn
  <1>8. CASE Start \/ StopCall \/ FailClosedCall \/ NewWorker \/ Crash
    BY Zenon, <1>8 DEF Start, StopCall, FailClosedCall, FailClosed, NewWorker, Crash,
        Fresh, conn
  <1>9. CASE OtherProcess \/ TokenExpires \/ UNCHANGED vars
    BY Zenon, <1>9 DEF OtherProcess, TokenExpires, vars, conn
  <1>10. QED
    BY <1>1, <1>2, <1>3, <1>4, <1>5, <1>6, <1>7, <1>8, <1>9
    DEF Next, Tasks, Owner, Transport

\* The invariant of the pool: with the worker's, that its generations and its
\* observers are in order.
THEOREM PoolInvariant ==
  ASSUME "recover" \notin Requests
  PROVE  PoolSpec => []PoolInv
  <1>1. PoolInit => LifecycleInv
    <2>1. Init => SwitchesOK
      BY Zenon DEF Init, SwitchesOK
    <2>2. Init => PlacesOK /\ TargetInv /\ EvidenceInv /\ OwnershipInv
      BY ConstantsAssumption, StatesAre
      DEF Init, PlacesOK, TargetInv, EvidenceInv, OwnershipInv, Driving,
          SActive, RActive, REnded, CActive, CEnded, NoTarget, LegacyStatus
    <2>3. QED
      BY <2>1, <2>2 DEF PoolInit, LifecycleInv, TypeOK
  <1>2. PoolInit => ClosingInv(TRUE) /\ ServingInv
    BY DEF PoolInit, Init, ClosingInv, WhereaboutsInv, CoverInv, CalmInv, SerialInv,
        RetreatInv,
        Orderly, ServingInv, MonitorInv, CircuitInv, UneventfulInv,
        Driving, SActive, RActive, REnded, CActive, CEnded, NoTarget
  <1>3. PoolInit => ShutdownInv /\ GenerationInv /\ ObservedInv
    BY DEF PoolInit, Init, ShutdownInv, GenerationInv, ObservedInv, Idle, Ended, Waiting,
        SActive, RActive, CEnded
  <1>4. PoolInit => PoolInv
    BY <1>1, <1>2, <1>3 DEF PoolInv, WorkerInv, LifecycleInv
  <1>5. PoolInv /\ [PoolNext]_poolVars => PoolInv'
    BY PoolKeepsWorker, PoolKeepsShutdown, PoolKeepsGenerations DEF PoolInv
  <1>6. QED
    BY <1>4, <1>5, PTL DEF PoolSpec

\* As long as no write and no task of the system has failed and no start command
\* has met a run task that was still ending, a worker whose
\* tasks have all ended does not stay in the pool unobserved: whichever way its
\* startup and its transport ended, some callback has heard of it or will.
THEOREM NoOrphans ==
  ASSUME "recover" \notin Requests
  PROVE  PoolSpec => []NoOrphanWithoutFault
  <1>1. PoolInv => NoOrphanWithoutFault
    <2> SUFFICES ASSUME PoolInv, faults = 0, ~met, cur, ~sObs, ~tObs, r \notin RActive
                 PROVE  mem = "needs_validation"
      BY DEF NoOrphanWithoutFault, NoOrphanedWorker
    <2>1. c = "none" /\ s = "done" /\ mem # "error"
      BY DEF PoolInv, GenerationInv, ObservedInv
    <2>2. QED
      BY <2>1 DEF PoolInv, WorkerInv, ServingInv, UneventfulInv, Driving
  <1>2. QED
    BY <1>1, PoolInvariant, PTL

\* Generations of the worker do not overlap: whatever path the previous one
\* left the pool by, nothing of it is still at work when the next one enters,
\* and nothing is when a daemon that was asked to shut down exits; unless a
\* start command of this process has met a run task that was still ending.
THEOREM GenerationsDoNotOverlap ==
  ASSUME "recover" \notin Requests
  PROVE  PoolSpec => OnlyAMeetingOverlaps
  <1>1. PoolInv /\ [PoolNext]_poolVars
          => [(~cur /\ cur') \/ DaemonExits => Quiet \/ met]_poolVars
    <2> SUFFICES ASSUME PoolInv, PoolNext, (~cur /\ cur') \/ DaemonExits, ~met
                 PROVE  Quiet
      OBVIOUS
    <2>1. ~cur /\ retire = "none" => Quiet
      <3>1. CASE c = "none"
        BY <3>1 DEF PoolInv, GenerationInv, Ended, Idle, Quiet, WorkerInv, ClosingInv,
            WhereaboutsInv, RActive
      <3>2. CASE c # "none"
        <4>1. ~cur /\ retire = "none" => c \in CEnded
          BY <3>2 DEF PoolInv, GenerationInv
        <4>2. v = "none"
          BY DEF PoolInv, WorkerInv, ClosingInv, CoverInv
        <4>3. QED
          BY <4>1, <4>2 DEF PoolInv, WorkerInv, ClosingInv, WhereaboutsInv, RetreatInv,
              Orderly,
              Quiet, CEnded, RActive
      <3>3. QED
        BY <3>1, <3>2
    <2>2. CASE DaemonExits
      BY <2>1, <2>2 DEF DaemonExits, Drained, Retired, PoolInv, GenerationInv
    <2>3. CASE ~cur /\ cur'
      <3>1. retire = "none"
        <4>1. CASE WorkerStep
          BY <2>3, <4>1 DEF WorkerStep, InLoop, Within, pool
        <4>2. CASE Callbacks
          BY <2>3, <4>2 DEF Callbacks, StartupObserved, TransportObserved, RetirementRuns,
              RetirementEnds, Claim, pool
        <4>3. CASE EnsureStarted
          BY <2>3, <4>3 DEF EnsureStarted, StartObserved, pool
        <4>4. CASE CommandEnds
          BY <2>3, <4>4 DEF CommandEnds, Retired
        <4>5. CASE Reconcile
          BY <2>3, <4>5 DEF Reconcile, Claim
        <4>6. CASE CommandBlocked \/ EnsureStopped \/ DaemonExits \/ StopAll
                   \/ DisableAccount \/ DaemonCrash
          BY <2>3, <4>6 DEF CommandBlocked, EnsureStopped, DaemonExits, StopAll,
              DisableAccount,
              DaemonCrash, Claim, pool
        <4>7. CASE \E action \in Commands : Submit(action)
          BY <2>3, <4>7 DEF Submit, pool
        <4>8. QED
          BY <4>1, <4>2, <4>3, <4>4, <4>5, <4>6, <4>7 DEF PoolNext, Daemon
      <3>2. QED
        BY <2>1, <2>3, <3>1
    <2>4. QED
      BY <2>2, <2>3
  <1>2. QED
    BY <1>1, PoolInvariant, PTL DEF PoolSpec, OnlyAMeetingOverlaps

\* While the durable validation circuit is open no connection is opened, unless
\* by a client that has been told to stop: the account that triggered the
\* circuit stops retrying until an operator or `auth refresh` has cleared it
\* (again of a process without such a meeting).
THEOREM CircuitHoldsTransport ==
  ASSUME "recover" \notin Requests
  PROVE  PoolSpec => CircuitStopsTransport
  <1>1. PoolInv /\ [PoolNext]_poolVars => [~sock /\ sock' => ~risk \/ clStop \/ met]_poolVars
    <2> SUFFICES ASSUME PoolInv, [PoolNext]_poolVars, ~sock, sock', ~met
                 PROVE  ~risk \/ clStop
      OBVIOUS
    <2>1. r = "open" /\ token
      <3>1. ~Entered
        BY DEF Entered, Fresh
      <3>2. [Next]_vars
        BY <3>1, PoolStepIsWorkers DEF FailClosedCall, FailClosed
      <3>3. QED
        BY <3>2, OpensOnlyWithToken
    <2>2. QED
      BY <2>1 DEF PoolInv, WorkerInv, ServingInv, CircuitInv, Driving, RActive
  <1>2. QED
    BY <1>1, PoolInvariant, PTL DEF PoolSpec, CircuitStopsTransport
=============================================================================
