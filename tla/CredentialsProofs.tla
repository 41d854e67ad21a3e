------------------------- MODULE CredentialsProofs -------------------------
(***************************************************************************)
(* Theorems about Credentials: types, StoredTogether and RecoveryIsEarned, *)
(* for every set of commands, logins and devices.                          *)
(*                                                                         *)
(* The argument: while no call has lost its lock, at most one caller is in *)
(* a call, so what it has read is still what is stored.  A deletion is the *)
(* exception, for it needs no lock; it leaves nothing behind that the call *)
(* could contradict.                                                       *)
(***************************************************************************)
EXTENDS Credentials, TLAPS

\* Places at which a caller has a device id in hand.
Named == {"keep", "ask", "again", "cookie", "token"}

\* What a caller has in hand, whoever else is about: nothing out of a call, and a
\* device wherever one is about to be used.
Idle == \A p \in Callers : /\ CallAt(p, "idle") => call[p] = Rest
                           /\ call[p].at \in Named => call[p].device # NoDevice

\* StoredTogether of given values.
Together(k, t, d, n, a) ==
  /\ k \in {None, n}
  /\ t # None /\ k # None /\ k \notin Anonymous => t = k
  /\ a \subseteq {d}

\* What a call c knows of the rows, with the lock in its hands: a is asked, n
\* the latest login, d the device stored, u the circuit, g whether granted.
Knows(c, a, n, d, u, g) ==
  /\ c.stale => a = {}
  /\ c.at \in {"device", "keep", "ask", "again", "cookie", "token"} =>
       c.cookie = n /\ n # None
  /\ c.at = "keep" /\ ~c.stale => d = NoDevice
  /\ c.at \in {"ask", "again", "cookie", "token"} /\ ~c.stale => d = c.device /\ d # NoDevice
  /\ c.clears => u \in {"due", "closed"}
  /\ c.clears /\ c.at \in {"cookie", "token", "clear"} => u = "closed" \/ g
  /\ c.at = "clear" => c.clears

Locked == \A p \in Callers : ~CallAt(p, "idle") => holder = p

KnowsAll == \A p \in Callers : Knows(call[p], asked, logins, device, circuit, granted)

\* The inductive invariant.
IInv ==
  /\ CredentialTypeOK /\ Idle
  /\ ~bare => Together(cookie, token, device, logins, asked) /\ Locked /\ KnowsAll

-----------------------------------------------------------------------------
(* Steps of one caller.                                                    *)

Scalars ==
  /\ exists \in BOOLEAN /\ cookie \in Logins \cup {None} /\ token \in Logins \cup {None}
  /\ device \in Devices \cup {NoDevice} /\ circuit \in {"closed", "cooling", "due"}
  /\ holder \in Callers \cup {NoHolder} /\ logins \in Logins \cup {0} /\ asked \subseteq Devices
  /\ granted \in BOOLEAN /\ bare \in BOOLEAN

\* What is at rest is a call, and knows nothing.
LEMMA RestIsCall ==
  /\ Rest \in Call /\ Rest.at = "idle" /\ ~Rest.stale /\ ~Rest.clears
  /\ NoHolder \notin Callers
  BY CredentialAssumption DEF Rest, Call, Callers

\* If one caller moves from one call to another, nobody else is in a call, and
\* what the mover knows then is all there is to know.
LEMMA OneCallerMoves ==
  ASSUME IInv, NEW p \in Callers, NEW c \in Call,
         call' = [call EXCEPT ![p] = c], bare' = bare, Scalars',
         c.at = "idle" => c = Rest, c.at \in Named => c.device # NoDevice,
         ~bare => ~CallAt(p, "idle") \/ holder = NoHolder,
         ~bare /\ c.at # "idle" => holder' = p,
         ~bare => Together(cookie', token', device', logins', asked')
                  /\ Knows(c, asked', logins', device', circuit', granted')
  PROVE  IInv'
<1>1. CredentialTypeOK' BY DEF IInv, CredentialTypeOK, Scalars
<1>2. call'[p] = c /\ \A q \in Callers \ {p} : call'[q] = call[q]
  BY DEF IInv, CredentialTypeOK
<1>3. Idle'
  <2>1. CallAt(p, "idle")' => call'[p] = Rest BY <1>2 DEF CallAt
  <2>2. call'[p].at \in Named => call'[p].device # NoDevice BY <1>2
  <2>3. \A q \in Callers \ {p} : /\ CallAt(q, "idle")' => call'[q] = Rest
                                 /\ call'[q].at \in Named => call'[q].device # NoDevice
    BY <1>2 DEF IInv, Idle, CallAt
  <2> QED BY <2>1, <2>2, <2>3 DEF Idle
<1>4. ASSUME ~bare PROVE Locked' /\ KnowsAll'
  <2>1. \A q \in Callers \ {p} : call[q] = Rest
    BY <1>4, RestIsCall DEF IInv, Locked, Idle, CallAt
  <2>2. \A q \in Callers \ {p} : call'[q].at = "idle" /\ ~call'[q].stale /\ ~call'[q].clears
    BY <1>2, <2>1, RestIsCall
  <2>3. Locked' BY <1>2, <1>4, <2>2 DEF Locked, CallAt
  <2>4. \A q \in Callers \ {p} : Knows(call'[q], asked', logins', device', circuit', granted')
    BY <2>2 DEF Knows
  <2>5. Knows(call'[p], asked', logins', device', circuit', granted') BY <1>2, <1>4
  <2> QED BY <2>3, <2>4, <2>5 DEF KnowsAll
<1> QED BY <1>1, <1>3, <1>4 DEF IInv

\* A caller that ends its call leaves what is stored together.
LEMMA CallerEnds ==
  ASSUME IInv, NEW p \in Callers, CallEnds(p), ~CallAt(p, "idle"), bare' = bare,
         holder' \in Callers \cup {NoHolder} => Scalars',
         ~bare => Together(cookie', token', device', logins', asked')
  PROVE  IInv'
<1>1. holder' \in Callers \cup {NoHolder} BY DEF CallEnds, Release, IInv, CredentialTypeOK
<1>2. call' = [call EXCEPT ![p] = Rest] BY DEF CallEnds, Becomes
<1>3. Knows(Rest, asked', logins', device', circuit', granted') BY RestIsCall DEF Knows
<1>4. Rest.at \notin Named BY RestIsCall DEF Named
<1> QED BY <1>1, <1>2, <1>3, <1>4, RestIsCall, OneCallerMoves

\* A caller goes on to another place with what it has.
LEMMA CallerGoes ==
  ASSUME CredentialTypeOK, NEW p \in Callers,
         NEW place \in {"serving"} \cup Active, CallGoes(p, place)
  PROVE  \E c \in Call : /\ call' = [call EXCEPT ![p] = c]
                         /\ c.at = place /\ c.at # "idle"
                         /\ c.stale = call[p].stale /\ c.clears = call[p].clears
                         /\ c.cookie = call[p].cookie /\ c.device = call[p].device
<1> DEFINE c == [call[p] EXCEPT !.at = place]
<1>1. call[p] \in Call BY DEF CredentialTypeOK
<1>2. c \in Call BY <1>1 DEF Call
<1>3. c.at = place /\ c.stale = call[p].stale /\ c.clears = call[p].clears
      /\ c.cookie = call[p].cookie /\ c.device = call[p].device
  BY <1>1 DEF Call
<1>4. place # "idle" BY DEF Active, Scanning, Exchanging
<1>5. call' = [call EXCEPT ![p] = c] BY <1>1 DEF CallGoes
<1> QED BY <1>2, <1>3, <1>4, <1>5

\* A caller starts over, or goes back to its connection, with empty hands.
LEMMA CallerResumes ==
  ASSUME CredentialTypeOK, NEW p \in Callers, NEW place \in {"inspect", "serving"}, Resumes(p, place)
  PROVE  \E c \in Call : /\ call' = [call EXCEPT ![p] = c]
                         /\ c.at = place /\ c.at # "idle" /\ ~c.stale /\ ~c.clears
<1> DEFINE c == [Rest EXCEPT !.at = place, !.route = call[p].route, !.serves = TRUE]
<1>1. call[p] \in Call BY DEF CredentialTypeOK
<1>2. c \in Call BY <1>1, RestIsCall DEF Call, Active
<1>3. c.at = place /\ c.stale = Rest.stale /\ c.clears = Rest.clears BY DEF Rest
<1>4. call' = [call EXCEPT ![p] = c] BY DEF Resumes, Becomes
<1> QED BY <1>2, <1>3, <1>4, RestIsCall

\* The same when the rows, the circuit and the histories stay as they are.
LEMMA QuietMove ==
  ASSUME IInv, NEW p \in Callers, NEW c \in Call, call' = [call EXCEPT ![p] = c],
         UNCHANGED <<exists, rows, circuit, logins, callHistory>>,
         holder' \in Callers \cup {NoHolder},
         c.at = "idle" => c = Rest, c.at \in Named => c.device # NoDevice,
         ~bare => ~CallAt(p, "idle") \/ holder = NoHolder,
         ~bare /\ c.at # "idle" => holder' = p,
         ~bare => Knows(c, asked, logins, device, circuit, granted)
  PROVE  IInv'
<1>1. Scalars' BY DEF IInv, CredentialTypeOK, Scalars, rows, callHistory
<1>2. bare' = bare BY DEF callHistory
<1>3. ~bare => Together(cookie', token', device', logins', asked')
               /\ Knows(c, asked', logins', device', circuit', granted')
  BY DEF IInv, rows, callHistory
<1> QED BY <1>1, <1>2, <1>3, OneCallerMoves

\* Places at which a caller has read nothing that could be outdated.
Plain == Scanning \cup {"create", "save", "look", "inspect", "load", "mark", "read", "review", "serving"}

LEMMA PlainKnows ==
  ASSUME NEW c \in Call, c.at \in Plain, ~c.stale, ~c.clears
  PROVE  /\ \A a, n, d, u, g : Knows(c, a, n, d, u, g)
         /\ c.at # "idle" /\ c.at \notin Named
  BY DEF Knows, Plain, Scanning, Named

LEMMA QuietEnd ==
  ASSUME IInv, NEW p \in Callers, CallEnds(p), ~CallAt(p, "idle"),
         UNCHANGED <<exists, rows, circuit, logins, callHistory>>
  PROVE  IInv'
<1>1. holder' \in Callers \cup {NoHolder} => Scalars'
  BY DEF IInv, CredentialTypeOK, Scalars, rows, callHistory
<1>2. ~bare => Together(cookie', token', device', logins', asked')
  BY DEF IInv, rows, callHistory
<1> QED BY <1>1, <1>2, CallerEnds DEF callHistory

\* A caller goes on with what it has, and what it has is enough for the next place.
LEMMA QuietGoes ==
  ASSUME IInv, NEW p \in Callers, NEW place \in {"serving"} \cup Active, CallGoes(p, place),
         UNCHANGED <<exists, rows, circuit, holder, logins, callHistory>>,
         ~CallAt(p, "idle"), place \in Plain
  PROVE  IInv'
<1>1. PICK c \in Call : /\ call' = [call EXCEPT ![p] = c]
                        /\ c.at = place /\ c.at # "idle"
                        /\ c.stale = call[p].stale /\ c.clears = call[p].clears
  BY CallerGoes DEF IInv
<1>2. ~bare => Knows(c, asked, logins, device, circuit, granted)
  BY <1>1 DEF IInv, KnowsAll, Knows, Plain, Scanning
<1>3. holder' \in Callers \cup {NoHolder} BY DEF IInv, CredentialTypeOK
<1>4. ~bare => holder' = p BY DEF IInv, Locked
<1>5. c.at \notin Named BY <1>1 DEF Plain, Scanning, Named
<1> QED BY <1>1, <1>2, <1>3, <1>4, <1>5, QuietMove

LEMMA QuietResumes ==
  ASSUME IInv, NEW p \in Callers, NEW place \in {"inspect", "serving"}, Resumes(p, place),
         UNCHANGED <<exists, rows, circuit, logins, callHistory>>, ~CallAt(p, "idle"),
         holder' \in Callers \cup {NoHolder}, ~bare => holder' = p
  PROVE  IInv'
<1>1. PICK c \in Call : /\ call' = [call EXCEPT ![p] = c]
                        /\ c.at = place /\ c.at # "idle" /\ ~c.stale /\ ~c.clears
  BY CallerResumes DEF IInv
<1>2. Knows(c, asked, logins, device, circuit, granted) /\ c.at \notin Named
  BY <1>1, PlainKnows DEF Plain
<1> QED BY <1>1, <1>2, QuietMove

LEMMA QuietGivesUp ==
  ASSUME IInv, NEW p \in Callers, NEW t \in BOOLEAN, GivesUp(p, t), ~CallAt(p, "idle"),
         UNCHANGED <<exists, rows, circuit, logins, callHistory>>
  PROVE  IInv'
<1>1. CASE CallEnds(p) BY <1>1, QuietEnd
<1>2. CASE ~CallEnds(p)
  <2>1. UNCHANGED holder /\ \E place \in {"inspect", "serving"} : Resumes(p, place)
    BY <1>2 DEF GivesUp
  <2>2. holder' \in Callers \cup {NoHolder} BY <2>1 DEF IInv, CredentialTypeOK
  <2>3. ~bare => holder' = p BY <2>1 DEF IInv, Locked
  <2> QED BY <2>1, <2>2, <2>3, QuietResumes
<1> QED BY <1>1, <1>2

-----------------------------------------------------------------------------
(* Each action.                                                            *)

LEMMA BeginsStep ==
  ASSUME IInv, NEW p \in Callers, NEW c \in Call, Begins(p, c), c.at \in Plain, ~c.stale, ~c.clears
  PROVE  IInv'
<1>1. /\ holder = NoHolder /\ holder' = p /\ call' = [call EXCEPT ![p] = c]
      /\ UNCHANGED <<exists, rows, circuit, logins, callHistory>>
  BY DEF Begins, Acquires, Becomes
<1>2. /\ Knows(c, asked, logins, device, circuit, granted)
      /\ c.at # "idle" /\ c.at \notin Named
  BY PlainKnows
<1>3. holder' \in Callers \cup {NoHolder} BY <1>1
<1> QED BY <1>1, <1>2, <1>3, QuietMove

LEMMA BeginStep == ASSUME IInv, NEW p \in Callers, Begin(p) PROVE IInv'
<1>1. CASE ConnectCall(p)
  <2> DEFINE c == [Rest EXCEPT !.at = "inspect", !.serves = TRUE]
  <2>1. c \in Call BY RestIsCall DEF Call, Active
  <2>2. c.at = "inspect" /\ ~c.stale /\ ~c.clears BY DEF Rest
  <2>3. Begins(p, c) BY <1>1 DEF ConnectCall
  <2> HIDE DEF c
  <2> QED BY <2>1, <2>2, <2>3, BeginsStep DEF Plain
<1>2. CASE AuthRefresh(p)
  <2> DEFINE c == [Rest EXCEPT !.at = "look", !.route = "refresh"]
  <2>1. c \in Call BY RestIsCall DEF Call, Active
  <2>2. c.at = "look" /\ ~c.stale /\ ~c.clears BY DEF Rest
  <2>3. Begins(p, c) BY <1>2 DEF AuthRefresh
  <2> HIDE DEF c
  <2> QED BY <2>1, <2>2, <2>3, BeginsStep DEF Plain
<1>3. CASE QrLogin(p)
  <2> DEFINE c == [Rest EXCEPT !.at = "challenge", !.route = "refresh", !.recovers = TRUE]
  <2>1. c \in Call BY RestIsCall DEF Call, Active, Scanning
  <2>2. c.at = "challenge" /\ ~c.stale /\ ~c.clears BY DEF Rest
  <2>3. Begins(p, c) BY <1>3 DEF QrLogin
  <2> HIDE DEF c
  <2> QED BY <2>1, <2>2, <2>3, BeginsStep DEF Plain, Scanning
<1>4. CASE AuthLogin(p)
  <2>1. PICK place \in {"create", "save"} : Begins(p, [Rest EXCEPT !.at = place])
    BY <1>4 DEF AuthLogin
  <2> DEFINE c == [Rest EXCEPT !.at = place]
  <2>2. c \in Call BY RestIsCall DEF Call, Active
  <2>3. c.at = place /\ ~c.stale /\ ~c.clears BY DEF Rest
  <2>4. Begins(p, c) BY <2>1
  <2> HIDE DEF c
  <2> QED BY <2>2, <2>3, <2>4, BeginsStep DEF Plain
<1> QED BY <1>1, <1>2, <1>3, <1>4 DEF Begin

\* A login that is scanned has nothing in hand until it saves its cookie.
LEMMA ScanStep == ASSUME IInv, NEW p \in Callers, Scan(p) PROVE IInv'
<1>1. /\ \/ CallEnds(p)
         \/ \E place \in Scanning \cup {"create"} : CallGoes(p, place) /\ UNCHANGED holder
      /\ call[p].at \in Scanning
      /\ UNCHANGED <<exists, rows, circuit, logins, callHistory>>
  BY DEF Scan, Challenge, Bootstrap, FetchLoginParams, FetchQrCode, Poll, CompleteConfirmed,
         Answered, CallAt, Scanning
<1>2. ~CallAt(p, "idle") BY <1>1 DEF CallAt, Scanning
<1>3. CASE CallEnds(p) BY <1>1, <1>2, <1>3, QuietEnd
<1>4. CASE ~CallEnds(p)
  <2>1. PICK place \in Scanning \cup {"create"} : CallGoes(p, place) /\ UNCHANGED holder
    BY <1>1, <1>4
  <2>2. place \in Active /\ place \in Plain BY DEF Active, Plain
  <2> QED BY <1>1, <1>2, <2>1, <2>2, QuietGoes
<1> QED BY <1>3, <1>4

LEMMA LoginStep == ASSUME IInv, NEW p \in Callers, Login(p) PROVE IInv'
<1>1. CASE Scan(p) BY <1>1, ScanStep
<1>2. CASE Create(p)
  <2>1. "save" \in Active /\ ~CallAt(p, "idle") /\ CallGoes(p, "save") BY <1>2 DEF Active, Create, CallAt
  <2>2. PICK c \in Call : /\ call' = [call EXCEPT ![p] = c]
                          /\ c.at = "save" /\ c.at # "idle"
                          /\ c.stale = call[p].stale /\ c.clears = call[p].clears
    BY <2>1, CallerGoes DEF IInv
  <2>3. Scalars' /\ bare' = bare
    BY <1>2 DEF Create, IInv, CredentialTypeOK, Scalars, rows, callHistory
  <2>4. ~bare => Knows(c, asked', logins', device', circuit', granted')
    BY <1>2, <2>2 DEF Create, IInv, KnowsAll, Knows, rows, callHistory
  <2>5. ~bare => Together(cookie', token', device', logins', asked') /\ holder' = p
    BY <1>2, <2>1 DEF Create, IInv, Locked, rows, callHistory
  <2> QED BY <2>1, <2>2, <2>3, <2>4, <2>5, OneCallerMoves DEF Named
<1>3. CASE Save(p)
  <2>0. ~CallAt(p, "idle") /\ bare' = bare BY <1>3 DEF Save, CallAt, callHistory
  <2>1. CASE ~exists
    BY <1>3, <2>0, <2>1, QuietEnd DEF Save, rows, callHistory
  <2>2. CASE exists
    <3>1. PICK n \in Logins : logins' = n /\ cookie' = n /\ token' = None /\ device' = device
      BY <1>3, <2>2 DEF Save, SaveCookie
    <3>2. holder' \in Callers \cup {NoHolder} => Scalars'
      BY <1>3, <3>1 DEF Save, IInv, CredentialTypeOK, Scalars, callHistory
    <3>3. ~bare => Together(cookie', token', device', logins', asked')
      BY <1>3, <3>1 DEF Save, IInv, Together, callHistory
    <3>4. CASE CallEnds(p) BY <2>0, <3>2, <3>3, <3>4, CallerEnds
    <3>5. CASE CallGoes(p, "inspect") /\ UNCHANGED holder
      <4>1. "inspect" \in Active BY DEF Active
      <4>2. PICK c \in Call : /\ call' = [call EXCEPT ![p] = c]
                              /\ c.at = "inspect" /\ c.at # "idle"
                              /\ c.stale = call[p].stale /\ c.clears = call[p].clears
        BY <3>5, <4>1, CallerGoes DEF IInv
      <4>3. ~bare => Knows(c, asked', logins', device', circuit', granted')
        BY <1>3, <3>1, <4>2 DEF Save, IInv, KnowsAll, Knows, callHistory
      <4>4. Scalars' BY <3>2, <3>5 DEF IInv, CredentialTypeOK
      <4>5. ~bare => holder' = p BY <2>0, <3>5 DEF IInv, Locked
      <4> QED BY <2>0, <3>3, <4>2, <4>3, <4>4, <4>5, OneCallerMoves DEF Named
    <3> QED BY <1>3, <2>2, <3>4, <3>5 DEF Save
  <2> QED BY <2>1, <2>2
<1> QED BY <1>1, <1>2, <1>3 DEF Login

LEMMA SupervisorStep == ASSUME IInv, NEW p \in Callers, Supervisor(p) PROVE IInv'
<1>0. call[p] \in Call BY DEF IInv, CredentialTypeOK
<1>1. CASE Look(p)
  <2>0. ~CallAt(p, "idle") BY <1>1 DEF Look, CallAt
  <2>1. CASE ~exists BY <1>1, <2>0, <2>1, QuietEnd DEF Look
  <2>2. CASE exists
    <3> DEFINE c == [call[p] EXCEPT !.at = "inspect", !.recovers = Required]
    <3>1. c \in Call BY <1>0 DEF Call, Active, Required
    <3>2. c.at = "inspect" /\ c.stale = call[p].stale /\ c.clears = call[p].clears
      BY <1>0 DEF Call
    <3>3. call' = [call EXCEPT ![p] = c] /\ UNCHANGED holder
      BY <1>1, <2>2 DEF Look, Becomes
    <3>4. UNCHANGED <<exists, rows, circuit, logins, callHistory>> BY <1>1 DEF Look
    <3> HIDE DEF c
    <3>5. ~bare => Knows(c, asked, logins, device, circuit, granted) /\ holder' = p
      BY <2>0, <3>2, <3>3 DEF IInv, KnowsAll, Knows, Locked
    <3>6. holder' \in Callers \cup {NoHolder} BY <3>3 DEF IInv, CredentialTypeOK
    <3> QED BY <2>0, <3>1, <3>2, <3>3, <3>4, <3>5, <3>6, QuietMove DEF Named
  <2> QED BY <2>1, <2>2
<1>2. CASE Inspect(p)
  <2>0. ~CallAt(p, "idle") /\ UNCHANGED <<exists, rows, circuit, logins, callHistory>>
    BY <1>2 DEF Inspect, CallAt
  <2>1. CASE CallEnds(p) BY <2>0, <2>1, QuietEnd
  <2>2. CASE UNCHANGED holder /\ CallGoes(p, "read")
    <3>1. "read" \in Active /\ "read" \in Plain BY DEF Active, Exchanging, Plain
    <3> QED BY <2>0, <2>2, <3>1, QuietGoes
  <2>3. CASE /\ ~TurnedDown(call[p]) /\ UNCHANGED holder
             /\ Becomes(p, [call[p] EXCEPT !.at = "load", !.clears = Required])
    <3> DEFINE c == [call[p] EXCEPT !.at = "load", !.clears = Required]
    <3>1. c \in Call BY <1>0 DEF Call, Active, Required
    <3>2. c.at = "load" /\ c.stale = call[p].stale /\ c.clears = (circuit # "closed")
      BY <1>0 DEF Call, Required
    <3>3. call' = [call EXCEPT ![p] = c] /\ UNCHANGED holder BY <2>3 DEF Becomes
    <3> HIDE DEF c
    <3>4. circuit \in {"due", "closed"}
      BY <2>3 DEF TurnedDown, Blocked, Health, Required, Cooling, IInv, CredentialTypeOK
    <3>5. ~bare => Knows(c, asked, logins, device, circuit, granted) /\ holder' = p
      BY <2>0, <3>2, <3>3, <3>4 DEF IInv, KnowsAll, Knows, Locked
    <3>6. holder' \in Callers \cup {NoHolder} BY <3>3 DEF IInv, CredentialTypeOK
    <3> QED BY <2>0, <3>1, <3>2, <3>3, <3>5, <3>6, QuietMove DEF Named
  <2> QED BY <1>2, <2>1, <2>2, <2>3 DEF Inspect
<1>3. CASE Mark(p)
  <2>1. CallEnds(p) /\ ~CallAt(p, "idle") /\ bare' = bare BY <1>3 DEF Mark, CallAt
  <2>2. holder' \in Callers \cup {NoHolder} => Scalars'
    BY <1>3 DEF Mark, IInv, CredentialTypeOK, Scalars, rows
  <2>3. ~bare => Together(cookie', token', device', logins', asked')
    BY <1>3 DEF Mark, IInv, rows
  <2> QED BY <2>1, <2>2, <2>3, CallerEnds
<1>4. CASE Clear(p)
  <2>0. ~CallAt(p, "idle") /\ "review" \in Active /\ CallGoes(p, "review")
    BY <1>4 DEF Clear, CallAt, Active, Exchanging
  <2>1. PICK c \in Call : /\ call' = [call EXCEPT ![p] = c]
                          /\ c.at = "review" /\ c.at # "idle"
                          /\ c.stale = call[p].stale /\ c.clears = call[p].clears
    BY <2>0, CallerGoes DEF IInv
  <2>2. Scalars' /\ bare' = bare
    BY <1>4 DEF Clear, IInv, CredentialTypeOK, Scalars, rows, callHistory
  <2>3. ~bare => holder' = p BY <1>4, <2>0 DEF Clear, IInv, Locked
  <2>4. ~bare => Together(cookie', token', device', logins', asked')
    BY <1>4 DEF Clear, IInv, rows, callHistory
  <2>5. ~bare => Knows(c, asked', logins', device', circuit', granted')
    BY <1>4, <2>1 DEF Clear, IInv, KnowsAll, Knows, rows, callHistory
  <2> QED BY <2>0, <2>1, <2>2, <2>3, <2>4, <2>5, OneCallerMoves DEF Named
<1>5. CASE Review(p)
  <2>0. ~CallAt(p, "idle") /\ UNCHANGED <<exists, rows, circuit, logins, callHistory>>
    BY <1>5 DEF Review, CallAt
  <2>1. CASE CallEnds(p) BY <2>0, <2>1, QuietEnd
  <2>2. CASE Resumes(p, "serving") /\ holder' = p BY <2>0, <2>2, QuietResumes
  <2> QED BY <1>5, <2>1, <2>2 DEF Review
<1> QED BY <1>1, <1>2, <1>3, <1>4, <1>5 DEF Supervisor

LEMMA ReadStep == ASSUME IInv, NEW p \in Callers, ReadPrepared(p) \/ Load(p) PROVE IInv'
<1>0. call[p] \in Call BY DEF IInv, CredentialTypeOK
<1>1. CASE ReadPrepared(p)
  <2>0. ~CallAt(p, "idle") /\ UNCHANGED <<exists, rows, circuit, logins, callHistory>>
    BY <1>1 DEF ReadPrepared, CallAt
  <2>1. CASE GivesUp(p, FALSE) BY <2>0, <2>1, QuietGivesUp
  <2>2. CASE CallGoes(p, "review") /\ UNCHANGED holder
    <3>1. "review" \in Active /\ "review" \in Plain BY DEF Active, Exchanging, Plain
    <3> QED BY <2>0, <2>2, <3>1, QuietGoes
  <2> QED BY <1>1, <2>1, <2>2 DEF ReadPrepared
<1>2. CASE Load(p)
  <2>0. ~CallAt(p, "idle") /\ UNCHANGED <<exists, rows, circuit, logins, callHistory>>
    BY <1>2 DEF Load, CallAt
  <2>1. CASE GivesUp(p, FALSE) BY <2>0, <2>1, QuietGivesUp
  <2>2. CASE cookie # None /\ Becomes(p, [call[p] EXCEPT !.at = "device", !.cookie = cookie])
             /\ UNCHANGED holder
    <3> DEFINE c == [call[p] EXCEPT !.at = "device", !.cookie = cookie]
    <3>1. c \in Call BY <1>0 DEF Call, Active, Exchanging, IInv, CredentialTypeOK
    <3>2. c.at = "device" /\ c.cookie = cookie /\ c.stale = call[p].stale /\ c.clears = call[p].clears
      BY <1>0 DEF Call
    <3>3. call' = [call EXCEPT ![p] = c] /\ UNCHANGED holder BY <2>2 DEF Becomes
    <3> HIDE DEF c
    <3>4. ~bare => cookie = logins BY <2>2 DEF IInv, Together
    <3>5. ~bare => Knows(c, asked, logins, device, circuit, granted) /\ holder' = p
      BY <2>0, <2>2, <3>2, <3>3, <3>4 DEF IInv, KnowsAll, Knows, Locked
    <3>6. holder' \in Callers \cup {NoHolder} BY <3>3 DEF IInv, CredentialTypeOK
    <3> QED BY <2>0, <3>1, <3>2, <3>3, <3>5, <3>6, QuietMove DEF Named
  <2> QED BY <1>2, <2>1, <2>2 DEF Load, Identified
<1> QED BY <1>1, <1>2

LEMMA DeviceStep == ASSUME IInv, NEW p \in Callers, LoadDevice(p) \/ KeepDevice(p) PROVE IInv'
<1>0. call[p] \in Call BY DEF IInv, CredentialTypeOK
<1>1. CASE LoadDevice(p)
  <2>0. ~CallAt(p, "idle") /\ UNCHANGED <<exists, rows, circuit, holder, logins, callHistory>>
    BY <1>1 DEF LoadDevice, CallAt
  <2>1. PICK place \in {"ask", "keep"}, d \in Devices :
          /\ Becomes(p, [call[p] EXCEPT !.at = place, !.device = d])
          /\ place = "ask" => d = device /\ device # NoDevice
          /\ place = "keep" => device = NoDevice
    BY <1>1 DEF LoadDevice, IInv, CredentialTypeOK
  <2> DEFINE c == [call[p] EXCEPT !.at = place, !.device = d]
  <2>2. c \in Call BY <1>0 DEF Call, Active, Exchanging
  <2>3. /\ c.at = place /\ c.device = d /\ c.cookie = call[p].cookie
        /\ c.stale = call[p].stale /\ c.clears = call[p].clears
    BY <1>0 DEF Call
  <2>4. call' = [call EXCEPT ![p] = c] BY <2>1 DEF Becomes
  <2> HIDE DEF c
  <2>5. ~bare => Knows(c, asked, logins, device, circuit, granted)
    <3> SUFFICES ASSUME ~bare PROVE Knows(c, asked, logins, device, circuit, granted) OBVIOUS
    <3>1. Knows(call[p], asked, logins, device, circuit, granted) BY DEF IInv, KnowsAll
    <3>2. call[p].cookie = logins /\ logins # None BY <1>1, <3>1 DEF LoadDevice, CallAt, Knows
    <3>3. call[p].clears => circuit \in {"due", "closed"} BY <3>1 DEF Knows
    <3>4. call[p].stale => asked = {} BY <3>1 DEF Knows
    <3> QED BY <2>1, <2>3, <3>2, <3>3, <3>4 DEF Knows
  <2>6. ~bare => holder' = p BY <2>0 DEF IInv, Locked
  <2>7. holder' \in Callers \cup {NoHolder} BY <2>0 DEF IInv, CredentialTypeOK
  <2>8. c.at # "idle" /\ c.device # NoDevice BY <2>3, CredentialAssumption
  <2> QED BY <2>0, <2>2, <2>4, <2>5, <2>6, <2>7, <2>8, QuietMove
<1>2. CASE KeepDevice(p)
  <2>0. ~CallAt(p, "idle") BY <1>2 DEF KeepDevice, CallAt
  <2>1. CASE ~exists
    <3>1. GivesUp(p, FALSE) BY <1>2, <2>1 DEF KeepDevice
    <3>2. UNCHANGED <<exists, rows, circuit, logins, callHistory>>
      BY <1>2, <2>1 DEF KeepDevice, rows
    <3> QED BY <2>0, <3>1, <3>2, QuietGivesUp
  <2>2. CASE exists
    <3>0. "ask" \in Active /\ CallGoes(p, "ask") /\ UNCHANGED holder
      BY <1>2, <2>2 DEF KeepDevice, Active, Exchanging
    <3>1. PICK c \in Call : /\ call' = [call EXCEPT ![p] = c]
                            /\ c.at = "ask" /\ c.at # "idle"
                            /\ c.stale = call[p].stale /\ c.clears = call[p].clears
                            /\ c.cookie = call[p].cookie /\ c.device = call[p].device
      BY <3>0, CallerGoes DEF IInv
    <3>2. device' = IF device = NoDevice THEN call[p].device ELSE device
      BY <1>2, <2>2 DEF KeepDevice
    <3>3. Scalars' /\ bare' = bare
      <4>1. call[p].device \in Devices \cup {NoDevice} BY <1>0 DEF Call
      <4> QED BY <1>2, <3>0, <3>2, <4>1 DEF KeepDevice, IInv, CredentialTypeOK, Scalars, callHistory
    <3>5. call[p].device # NoDevice BY <1>2 DEF KeepDevice, CallAt, Named, IInv, Idle
    <3>4. ASSUME ~bare
          PROVE  /\ holder' = p
                 /\ Together(cookie', token', device', logins', asked')
                 /\ Knows(c, asked', logins', device', circuit', granted')
      <4>1. Knows(call[p], asked, logins, device, circuit, granted) /\ holder = p
            /\ Together(cookie, token, device, logins, asked)
        BY <2>0, <3>4 DEF IInv, KnowsAll, Locked
      <4>2. call[p].stale => asked = {} BY <4>1 DEF Knows
      <4>3. call[p].cookie = logins /\ logins # None
        BY <1>2, <4>1 DEF KeepDevice, CallAt, Knows
      <4>4. ~call[p].stale => device = NoDevice BY <1>2, <4>1 DEF KeepDevice, CallAt, Knows
      <4>5. call[p].clears => circuit \in {"due", "closed"} BY <4>1 DEF Knows
      <4>6. call[p].device # NoDevice BY <3>5
      <4>7. UNCHANGED <<cookie, token, logins, circuit, asked, granted>>
        BY <1>2 DEF KeepDevice, callHistory
      <4>8. Together(cookie', token', device', logins', asked')
        <5>1. asked \subseteq Devices BY DEF IInv, CredentialTypeOK
        <5>2. device = NoDevice => asked = {} BY <4>1, <5>1, CredentialAssumption DEF Together
        <5>3. asked \subseteq {device'} BY <3>2, <4>1, <5>2 DEF Together
        <5> QED BY <4>1, <4>7, <5>3 DEF Together
      <4>9. Knows(c, asked', logins', device', circuit', granted')
        BY <3>1, <3>2, <4>2, <4>3, <4>4, <4>5, <4>6, <4>7 DEF Knows
      <4> QED BY <3>0, <4>1, <4>8, <4>9
    <3> QED BY <2>0, <3>1, <3>3, <3>4, <3>5, OneCallerMoves
  <2> QED BY <2>1, <2>2
<1> QED BY <1>1, <1>2

\* A request names the device that is stored, if the account is still the same.
LEMMA AskStep == ASSUME IInv, NEW p \in Callers, Ask(p) PROVE IInv'
<1>0. call[p] \in Call BY DEF IInv, CredentialTypeOK
<1>1. ~CallAt(p, "idle") /\ UNCHANGED <<exists, cookie, device, token, circuit, logins, bare>>
  BY DEF Ask, CallAt, rows
<1>11. call[p].at \in {"ask", "again"} BY DEF Ask
<1>10. call[p].device # NoDevice BY <1>11 DEF Named, IInv, Idle
<1>2. granted' \in BOOLEAN /\ asked' \subseteq Devices
  <2>1. granted' \in {TRUE, granted} BY DEF Ask
  <2>2. granted' \in BOOLEAN BY <2>1 DEF IInv, CredentialTypeOK
  <2>3. call[p].device \in Devices /\ asked \subseteq Devices
    BY <1>0, <1>10 DEF Call, IInv, CredentialTypeOK
  <2>4. asked' \subseteq Devices BY <2>3 DEF Ask
  <2> QED BY <2>2, <2>4
<1>3. holder' \in Callers \cup {NoHolder} => Scalars'
  BY <1>1, <1>2 DEF IInv, CredentialTypeOK, Scalars
<1>4. ASSUME ~bare
      PROVE  /\ holder = p /\ Together(cookie', token', device', logins', asked')
             /\ call[p].stale => asked' = {}
             /\ call[p].cookie = logins' /\ logins' # None
             /\ ~call[p].stale => device' = call[p].device /\ device' # NoDevice
             /\ call[p].clears => circuit' \in {"due", "closed"}
  <2>1. Knows(call[p], asked, logins, device, circuit, granted) /\ holder = p
        /\ Together(cookie, token, device, logins, asked)
    BY <1>1, <1>4 DEF IInv, KnowsAll, Locked
  <2>2. call[p].at \in {"ask", "again"} BY DEF Ask
  <2>3. call[p].stale => asked = {} BY <2>1 DEF Knows
  <2>4. call[p].cookie = logins /\ logins # None BY <2>1, <2>2 DEF Knows
  <2>5. ~call[p].stale => device = call[p].device /\ device # NoDevice BY <2>1, <2>2 DEF Knows
  <2>6. call[p].clears => circuit \in {"due", "closed"} BY <2>1 DEF Knows
  <2>7. asked' = IF call[p].stale THEN asked ELSE asked \cup {call[p].device} BY DEF Ask
  <2>8. Together(cookie', token', device', logins', asked')
    BY <1>1, <2>1, <2>3, <2>5, <2>7 DEF Together
  <2> QED BY <1>1, <2>1, <2>3, <2>4, <2>5, <2>6, <2>7, <2>8
<1>5. ASSUME NEW r \in BOOLEAN, NEW place \in {"again", "cookie", "token"},
             Becomes(p, [call[p] EXCEPT !.at = place, !.renewed = r]), UNCHANGED holder,
             place # "again" => granted'
      PROVE  IInv'
  <2> DEFINE c == [call[p] EXCEPT !.at = place, !.renewed = r]
  <2>1. c \in Call BY <1>0 DEF Call, Active, Exchanging
  <2>2. /\ c.at = place /\ c.device = call[p].device /\ c.cookie = call[p].cookie
        /\ c.stale = call[p].stale /\ c.clears = call[p].clears
    BY <1>0 DEF Call
  <2>3. call' = [call EXCEPT ![p] = c] BY <1>5 DEF Becomes
  <2> HIDE DEF c
  <2>4. ~bare => Knows(c, asked', logins', device', circuit', granted')
    BY <1>4, <1>5, <2>2 DEF Knows
  <2>5. Scalars' BY <1>3, <1>5 DEF IInv, CredentialTypeOK
  <2> QED BY <1>1, <1>4, <1>5, <1>10, <2>1, <2>2, <2>3, <2>4, <2>5, OneCallerMoves
<1>6. ASSUME NEW r \in BOOLEAN, granted' = TRUE, UNCHANGED holder,
             Becomes(p, [call[p] EXCEPT !.at = IF r THEN "cookie" ELSE "token", !.renewed = r])
      PROVE  IInv'
  <2>1. CASE r BY <1>5, <1>6, <2>1
  <2>2. CASE ~r BY <1>5, <1>6, <2>2
  <2> QED BY <2>1, <2>2
<1>7. CASE Becomes(p, [call[p] EXCEPT !.at = "again", !.renewed = TRUE]) /\ UNCHANGED holder
  BY <1>5, <1>7
<1>8. CASE CallGoes(p, "mark") /\ UNCHANGED holder
  <2>0. "mark" \in Active BY DEF Active
  <2>1. PICK c \in Call : /\ call' = [call EXCEPT ![p] = c]
                          /\ c.at = "mark" /\ c.at # "idle"
                          /\ c.stale = call[p].stale /\ c.clears = call[p].clears
    BY <1>8, <2>0, CallerGoes DEF IInv
  <2>2. ~bare => Knows(c, asked', logins', device', circuit', granted')
    BY <1>4, <2>1 DEF Knows
  <2>3. Scalars' BY <1>3, <1>8 DEF IInv, CredentialTypeOK
  <2> QED BY <1>1, <1>4, <1>8, <2>1, <2>2, <2>3, OneCallerMoves DEF Named
<1>9. CASE \E transient \in BOOLEAN : GivesUp(p, transient)
  <2>1. CASE CallEnds(p) BY <1>1, <1>3, <1>4, <2>1, CallerEnds
  <2>2. CASE ~CallEnds(p)
    <3>1. PICK place \in {"inspect", "serving"} : Resumes(p, place) /\ UNCHANGED holder
      BY <1>9, <2>2 DEF GivesUp
    <3>2. PICK c \in Call : /\ call' = [call EXCEPT ![p] = c]
                            /\ c.at = place /\ c.at # "idle" /\ ~c.stale /\ ~c.clears
      BY <3>1, CallerResumes DEF IInv
    <3>3. Knows(c, asked', logins', device', circuit', granted') /\ c.at \notin Named
      BY <3>2, PlainKnows DEF Plain
    <3>4. Scalars' BY <1>3, <3>1 DEF IInv, CredentialTypeOK
    <3> QED BY <1>1, <1>4, <3>1, <3>2, <3>3, <3>4, OneCallerMoves
  <2> QED BY <2>1, <2>2
<1>12. CASE ~BackendFails(p)
  <2>1. PICK answer \in Answers :
          /\ UNCHANGED holder
          /\ \/ /\ granted' = TRUE
                /\ Becomes(p, [call[p] EXCEPT
                     !.at = IF call[p].renewed \/ answer.renewed THEN "cookie" ELSE "token",
                     !.renewed = call[p].renewed \/ answer.renewed])
             \/ Becomes(p, [call[p] EXCEPT !.at = "again", !.renewed = TRUE])
    BY <1>12 DEF Ask
  <2> DEFINE r == call[p].renewed \/ answer.renewed
  <2>2. r \in BOOLEAN BY <1>0, <2>1 DEF Call, Answers
  <2>3. \/ granted' = TRUE /\ Becomes(p, [call[p] EXCEPT !.at = IF r THEN "cookie" ELSE "token",
                                                         !.renewed = r])
        \/ Becomes(p, [call[p] EXCEPT !.at = "again", !.renewed = TRUE])
    BY <2>1
  <2> HIDE DEF r
  <2> QED BY <1>6, <1>7, <2>1, <2>2, <2>3
<1>13. CASE BackendFails(p)
  <2>1. CASE CallGoes(p, "mark") /\ UNCHANGED holder BY <1>8, <2>1
  <2>2. CASE ~(CallGoes(p, "mark") /\ UNCHANGED holder)
    <3>1. PICK failure \in Failures : GivesUp(p, failure = "network_error")
      BY <1>13, <2>2 DEF BackendFails
    <3>2. (failure = "network_error") \in BOOLEAN OBVIOUS
    <3> QED BY <1>9, <3>1, <3>2
  <2> QED BY <2>1, <2>2
<1> QED BY <1>12, <1>13

LEMMA StoreStep == ASSUME IInv, NEW p \in Callers, StoreCookie(p) \/ StoreToken(p) PROVE IInv'
<1>0. call[p] \in Call /\ call[p].cookie \in Logins \cup {None}
      /\ call[p].device \in Devices \cup {NoDevice}
  BY DEF IInv, CredentialTypeOK, Call
<1>1. ~CallAt(p, "idle") /\ UNCHANGED <<exists, circuit, logins, callHistory>> /\ call[p].at \in {"cookie", "token"}
  BY DEF StoreCookie, StoreToken, CallAt
<1>2. ASSUME ~bare
      PROVE  /\ holder = p /\ Together(cookie, token, device, logins, asked)
             /\ call[p].stale => asked = {}
             /\ call[p].cookie = logins /\ logins # None
             /\ ~call[p].stale => device = call[p].device /\ device # NoDevice
             /\ call[p].clears => circuit \in {"due", "closed"}
             /\ call[p].clears => circuit = "closed" \/ granted
  <2>1. Knows(call[p], asked, logins, device, circuit, granted) /\ holder = p
        /\ Together(cookie, token, device, logins, asked)
    BY <1>1, <1>2 DEF IInv, KnowsAll, Locked
  <2> QED BY <1>1, <2>1 DEF Knows
<1>3. call[p].device # NoDevice BY <1>1 DEF IInv, Idle, Named
<1>4. CASE StoreCookie(p)
  <2>0. "token" \in Active /\ CallGoes(p, "token") /\ UNCHANGED holder
    BY <1>4 DEF StoreCookie, Active, Exchanging
  <2>1. PICK c \in Call : /\ call' = [call EXCEPT ![p] = c]
                          /\ c.at = "token" /\ c.at # "idle"
                          /\ c.stale = call[p].stale /\ c.clears = call[p].clears
                          /\ c.cookie = call[p].cookie /\ c.device = call[p].device
    BY <2>0, CallerGoes DEF IInv
  <2>2. UNCHANGED rows \/ (cookie' = call[p].cookie /\ token' = None /\ UNCHANGED device)
    <3>1. exists => cookie' = call[p].cookie /\ token' = None /\ UNCHANGED device
      BY <1>4 DEF StoreCookie, SaveCookie
    <3>2. ~exists => UNCHANGED rows BY <1>4 DEF StoreCookie
    <3> QED BY <3>1, <3>2, Zenon
  <2>3. Scalars'
    BY <1>0, <1>1, <2>0, <2>2 DEF IInv, CredentialTypeOK, Scalars, rows, callHistory
  <2>4. ~bare => Together(cookie', token', device', logins', asked')
    BY <1>1, <1>2, <2>2 DEF Together, rows, callHistory
  <2>5. ~bare => Knows(c, asked', logins', device', circuit', granted')
    BY <1>1, <1>2, <2>1, <2>2 DEF Knows, rows, callHistory
  <2> QED BY <1>1, <1>2, <1>3, <2>0, <2>1, <2>3, <2>4, <2>5, OneCallerMoves DEF callHistory
<1>5. CASE StoreToken(p) /\ ~exists
  <2>1. GivesUp(p, FALSE) /\ UNCHANGED rows BY <1>5 DEF StoreToken, rows
  <2> QED BY <1>1, <2>1, QuietGivesUp
<1>6. CASE StoreToken(p) /\ exists
  <2>0. PICK place \in {"clear", "review"} :
          CallGoes(p, place) /\ (place = "clear" => call[p].clears)
    BY <1>6 DEF StoreToken
  <2>1. place \in Active BY DEF Active, Exchanging
  <2>2. PICK c \in Call : /\ call' = [call EXCEPT ![p] = c]
                          /\ c.at = place /\ c.at # "idle"
                          /\ c.stale = call[p].stale /\ c.clears = call[p].clears
    BY <2>0, <2>1, CallerGoes DEF IInv
  <2>3. token' = call[p].cookie /\ device' = call[p].device /\ cookie' = cookie /\ holder' = holder
    BY <1>6 DEF StoreToken
  <2>4. Scalars' BY <1>0, <1>1, <2>3 DEF IInv, CredentialTypeOK, Scalars, callHistory
  <2>5. ~bare => Together(cookie', token', device', logins', asked')
    BY <1>1, <1>2, <2>3 DEF Together, callHistory
  <2>6. ~bare => Knows(c, asked', logins', device', circuit', granted')
    BY <1>1, <1>2, <2>0, <2>2 DEF Knows, callHistory
  <2>7. c.at \notin Named BY <2>2 DEF Named
  <2> QED BY <1>1, <1>2, <2>2, <2>3, <2>4, <2>5, <2>6, <2>7, OneCallerMoves DEF callHistory
<1> QED BY <1>4, <1>5, <1>6

LEMMA ServingStep == ASSUME IInv, NEW p \in Callers, Serving(p) \/ Abort(p) PROVE IInv'
<1>1. ~CallAt(p, "idle") /\ UNCHANGED <<exists, rows, circuit, logins, callHistory>>
  BY DEF Serving, Abort, CallAt, Active, Scanning, Exchanging
<1>2. CASE CallEnds(p) BY <1>1, <1>2, QuietEnd
<1>3. CASE /\ UNCHANGED holder
           /\ Becomes(p, [Rest EXCEPT !.at = "inspect", !.route = "refresh", !.serves = TRUE])
  <2> DEFINE c == [Rest EXCEPT !.at = "inspect", !.route = "refresh", !.serves = TRUE]
  <2>1. c \in Call BY RestIsCall DEF Call, Active
  <2>2. c.at = "inspect" /\ ~c.stale /\ ~c.clears BY DEF Rest
  <2>3. call' = [call EXCEPT ![p] = c] BY <1>3 DEF Becomes
  <2> HIDE DEF c
  <2>4. Knows(c, asked, logins, device, circuit, granted) /\ c.at # "idle" /\ c.at \notin Named
    BY <2>1, <2>2, PlainKnows DEF Plain
  <2>5. holder' \in Callers \cup {NoHolder} BY <1>3 DEF IInv, CredentialTypeOK
  <2>6. ~bare => holder' = p BY <1>1, <1>3 DEF IInv, Locked
  <2> QED BY <1>1, <2>1, <2>3, <2>4, <2>5, <2>6, QuietMove
<1> QED BY <1>2, <1>3 DEF Serving, Abort

\* A deletion takes what is stored, and leaves every call with nothing to contradict.
LEMMA DeleteStep == ASSUME IInv, Delete PROVE IInv'
<1>1. \A p \in Callers : call'[p] = [call[p] EXCEPT !.stale = call[p].at \in Active]
  BY DEF Delete
<1>2. ASSUME NEW p \in Callers
      PROVE  /\ call'[p] \in Call /\ call'[p].at = call[p].at
             /\ call'[p].stale = (call[p].at \in Active)
             /\ call'[p].cookie = call[p].cookie /\ call'[p].device = call[p].device
             /\ call'[p].clears = call[p].clears
  <2>1. call[p] \in Call BY DEF IInv, CredentialTypeOK
  <2>4. CASE call[p].at \in Active
    <3>1. (call[p].at \in Active) = TRUE BY <2>4, Zenon
    <3>2. call'[p] = [call[p] EXCEPT !.stale = TRUE] BY <1>1, <3>1, Zenon
    <3> QED BY <2>1, <3>1, <3>2 DEF Call
  <2>5. CASE call[p].at \notin Active
    <3>1. (call[p].at \in Active) = FALSE BY <2>5
    <3>2. call'[p] = [call[p] EXCEPT !.stale = FALSE] BY <1>1, <3>1, Zenon
    <3> QED BY <2>1, <3>1, <3>2 DEF Call
  <2> QED BY <2>4, <2>5
<1>3. CredentialTypeOK'
  <2>1. call' \in [Callers -> Call] BY <1>2 DEF Delete
  <2> QED BY <2>1 DEF Delete, IInv, CredentialTypeOK
<1>4. Idle'
  <2>1. ASSUME NEW p \in Callers, CallAt(p, "idle")' PROVE call'[p] = Rest
    <3>1. call[p] = Rest BY <1>2, <2>1 DEF IInv, Idle, CallAt
    <3>2. Rest.at \notin Active BY RestIsCall DEF Active, Scanning, Exchanging
    <3>4. (call[p].at \in Active) = FALSE BY <3>1, <3>2
    <3>3. call'[p] = [Rest EXCEPT !.stale = FALSE] BY <1>1, <3>1, <3>4, Zenon
    <3> QED BY <3>3 DEF Rest
  <2>2. ASSUME NEW p \in Callers, call'[p].at \in Named PROVE call'[p].device # NoDevice
    BY <1>2, <2>2 DEF IInv, Idle
  <2> QED BY <2>1, <2>2 DEF Idle
<1>5. ASSUME ~bare
      PROVE  Together(cookie', token', device', logins', asked') /\ Locked' /\ KnowsAll'
  <2>1. Together(cookie', token', device', logins', asked') BY DEF Delete, Together
  <2>2. Locked' BY <1>2, <1>5 DEF Delete, IInv, Locked, CallAt
  <2>3. ASSUME NEW p \in Callers
        PROVE  Knows(call'[p], asked', logins', device', circuit', granted')
    <3>1. Knows(call[p], asked, logins, device, circuit, granted) BY <1>5 DEF IInv, KnowsAll
    <3>2. {"keep", "ask", "again", "cookie", "token"} \subseteq Active BY DEF Active, Exchanging
    <3>3. asked' = {} /\ circuit' = "closed" /\ logins' = logins BY DEF Delete
    <3> QED BY <1>2, <3>1, <3>2, <3>3 DEF Knows
  <2> QED BY <2>1, <2>2, <2>3 DEF KnowsAll
<1> QED BY <1>3, <1>4, <1>5 DEF IInv, Delete

\* What happens around the calls.
LEMMA AroundStep ==
  ASSUME IInv, LoseLock \/ CreateAccount \/ TokenExpires \/ CooldownPasses \/ UNCHANGED credentialVars
  PROVE  IInv'
<1>1. CASE LoseLock
  <2>1. bare' /\ UNCHANGED <<exists, cookie, device, token, circuit, call, logins, asked, granted>>
        /\ holder' \in Callers \cup {NoHolder} /\ bare' \in BOOLEAN
    BY <1>1 DEF LoseLock, rows
  <2>2. CredentialTypeOK' BY <2>1 DEF IInv, CredentialTypeOK
  <2>3. Idle' BY <2>1 DEF IInv, Idle, CallAt
  <2> QED BY <2>1, <2>2, <2>3 DEF IInv
<1>2. CASE CreateAccount \/ TokenExpires \/ CooldownPasses \/ UNCHANGED credentialVars
  <2>1. /\ UNCHANGED <<cookie, device, holder, call, logins, asked, granted, bare>>
        /\ exists' \in {exists, TRUE} /\ token' \in {token, None}
        /\ circuit' = circuit \/ (circuit = "cooling" /\ circuit' = "due")
    BY <1>2 DEF CreateAccount, TokenExpires, CooldownPasses, credentialVars, rows, callHistory
  <2>2. CredentialTypeOK'
    <3>1. exists' \in BOOLEAN /\ token' \in Logins \cup {None} /\ circuit' \in {"closed", "cooling", "due"}
      BY <2>1 DEF IInv, CredentialTypeOK
    <3> QED BY <2>1, <3>1 DEF IInv, CredentialTypeOK
  <2>3. Idle' BY <2>1 DEF IInv, Idle, CallAt
  <2>4. ASSUME ~bare
        PROVE  Together(cookie', token', device', logins', asked') /\ Locked' /\ KnowsAll'
    <3>1. Together(cookie', token', device', logins', asked') BY <2>1, <2>4 DEF IInv, Together
    <3>2. Locked' BY <2>1, <2>4 DEF IInv, Locked, CallAt
    <3>3. ASSUME NEW p \in Callers
          PROVE  Knows(call'[p], asked', logins', device', circuit', granted')
      <4>1. Knows(call[p], asked, logins, device, circuit, granted) BY <2>4 DEF IInv, KnowsAll
      <4>2. CASE circuit' = circuit BY <2>1, <4>1, <4>2
      <4>3. CASE circuit = "cooling" /\ circuit' = "due" BY <2>1, <4>1, <4>3 DEF Knows
      <4> QED BY <2>1, <4>2, <4>3
    <3> QED BY <3>1, <3>2, <3>3 DEF KnowsAll
  <2> QED BY <2>1, <2>2, <2>3, <2>4 DEF IInv
<1> QED BY <1>1, <1>2

LEMMA NextStep == IInv /\ [CredentialNext]_credentialVars => IInv'
<1> SUFFICES ASSUME IInv, [CredentialNext]_credentialVars PROVE IInv' OBVIOUS
<1>1. ASSUME NEW p \in Callers,
             Begin(p) \/ Login(p) \/ Supervisor(p) \/ Exchange(p) \/ Serving(p) \/ Abort(p)
      PROVE  IInv'
  <2>1. CASE Begin(p) BY <2>1, BeginStep
  <2>2. CASE Login(p) BY <2>2, LoginStep
  <2>3. CASE Supervisor(p) BY <2>3, SupervisorStep
  <2>4. CASE Exchange(p) BY <2>4, ReadStep, DeviceStep, AskStep, StoreStep DEF Exchange
  <2>5. CASE Serving(p) \/ Abort(p) BY <2>5, ServingStep
  <2> QED BY <1>1, <2>1, <2>2, <2>3, <2>4, <2>5
<1>2. CASE Delete BY <1>2, DeleteStep
<1>3. CASE LoseLock \/ CreateAccount \/ TokenExpires \/ CooldownPasses \/ UNCHANGED credentialVars
  BY <1>3, AroundStep
<1> QED BY <1>1, <1>2, <1>3 DEF CredentialNext

LEMMA InitInv == CredentialInit => IInv
<1> SUFFICES ASSUME CredentialInit PROVE IInv OBVIOUS
<1>1. \A p \in Callers : call[p] = Rest BY DEF CredentialInit
<1>2. CredentialTypeOK
  <2>1. call \in [Callers -> Call] BY RestIsCall DEF CredentialInit
  <2> QED BY <2>1, CredentialAssumption DEF CredentialInit, CredentialTypeOK
<1>3. Idle BY <1>1, RestIsCall DEF Idle, Named
<1>4. Together(cookie, token, device, logins, asked) BY DEF CredentialInit, Together, None
<1>5. Locked BY <1>1, RestIsCall DEF Locked, CallAt
<1>6. KnowsAll BY <1>1, RestIsCall DEF KnowsAll, Knows
<1> QED BY <1>2, <1>3, <1>4, <1>5, <1>6 DEF IInv

\* While no call has lost its lock, whoever is in a call holds it, and what it
\* has read of the cookie, the device and the circuit is what is stored.
THEOREM CredentialInvariant == CredentialSpec => []IInv
  BY InitInv, NextStep, PTL DEF CredentialSpec

\* Type correctness of the credentials and of every caller.
THEOREM CredentialTypes == CredentialSpec => []CredentialTypeOK
<1>1. IInv => CredentialTypeOK BY DEF IInv
<1> QED BY <1>1, CredentialInvariant, PTL

\* Wherever a call was cancelled or died, what is stored belongs together: for
\* every number of commands, logins and devices.
THEOREM StoredStaysTogether == CredentialSpec => []StoredTogether
<1>1. IInv => StoredTogether BY DEF IInv, Together, StoredTogether, Prepared, Identified
<1> QED BY <1>1, CredentialInvariant, PTL

\* Only a call that found the cooldown over closes the circuit, and only with a
\* token that was granted since: the circuit cannot have opened anew in between,
\* for that too takes the lock.
THEOREM RecoveriesAreEarned == CredentialSpec => RecoveryIsEarned
<1>1. IInv /\ [CredentialNext]_credentialVars =>
        (circuit # "closed" /\ circuit' = "closed" /\ exists' /\ ~bare => circuit = "due" /\ granted)
  <2> SUFFICES ASSUME IInv, [CredentialNext]_credentialVars, circuit # "closed", circuit' = "closed", exists', ~bare
               PROVE  circuit = "due" /\ granted
    OBVIOUS
  <2>1. PICK p \in Callers : Clear(p)
    <3>1. ASSUME NEW p \in Callers, Begin(p) \/ Login(p) \/ Serving(p) \/ Abort(p) PROVE FALSE
      BY <3>1 DEF Begin, ConnectCall, AuthRefresh, QrLogin, AuthLogin, Begins, Login, Create, Save, Scan,
                  Challenge, Bootstrap, FetchLoginParams, FetchQrCode, Poll, CompleteConfirmed, Answered,
                  Serving, Abort
    <3>2. ASSUME NEW p \in Callers, Exchange(p) PROVE FALSE
      BY <3>2 DEF Exchange, ReadPrepared, Load, LoadDevice, KeepDevice, Ask, StoreCookie, StoreToken
    <3>3. ASSUME NEW p \in Callers, Supervisor(p) PROVE Clear(p)
      BY <3>3 DEF Supervisor, Look, Inspect, Mark, Review
    <3>4. ~(LoseLock \/ Delete \/ CreateAccount \/ TokenExpires \/ CooldownPasses \/ UNCHANGED credentialVars)
      BY DEF LoseLock, Delete, CreateAccount, TokenExpires, CooldownPasses, credentialVars
    <3> QED BY <3>1, <3>2, <3>3, <3>4 DEF CredentialNext
  <2>2. Knows(call[p], asked, logins, device, circuit, granted) /\ call[p].at = "clear"
    BY <2>1 DEF IInv, KnowsAll, Clear, CallAt
  <2> QED BY <2>2 DEF Knows
<1> QED BY <1>1, CredentialInvariant, PTL DEF CredentialSpec, RecoveryIsEarned
=============================================================================
