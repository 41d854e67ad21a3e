---------------------------- MODULE Credentials ----------------------------
(***************************************************************************)
(* One account's cookie, token and device id, and whoever changes them:    *)
(* application/session (supervisor, policy, qr_login) over                 *)
(* protocol/ws_auth.py and protocol/mtop/signer.py, under the account's    *)
(* file lock.  The callers are the daemon's worker and the commands: auth  *)
(* login, refresh and qr-login, the API's login, and the commands that     *)
(* connect for themselves.                                                 *)
(*                                                                         *)
(* A session with the database is a step, and so is a request to the       *)
(* platform: a caller may be cancelled or die between any two.  A cookie   *)
(* is known by the login it derives from, a token by the cookie that       *)
(* bought it.  The supervisor's asyncio lock is not seen here: a worker's  *)
(* startup and its run task never exchange at once.                        *)
(***************************************************************************)
EXTENDS Naturals

CONSTANTS
  Commands,    \* processes besides the daemon
  Daemon,      \* the account's worker in the daemon
  NoHolder,
  Anonymous,   \* logins whose cookie carries no unb
  Devices,     \* bound: device ids that may be generated
  NoDevice,
  MaxLogins    \* bound

ASSUME CredentialAssumption ==
  /\ Daemon \notin Commands /\ NoHolder \notin Commands \cup {Daemon}
  /\ NoDevice \notin Devices /\ MaxLogins \in Nat

Callers == Commands \cup {Daemon}
Logins  == 1..MaxLogins
None    == 0

VARIABLES
  exists,    \* the account has a row
  cookie,    \* its newest cookie, by login; None without one
  device,    \* ws_credentials.device_id, NoDevice without a row
  token,     \* the usable token, by the cookie that bought it; None if there is none
  circuit,   \* the validation circuit: "closed", "cooling", "due"
  holder,    \* who has the account's file lock
  call,      \* per caller, what it is in the middle of
  logins,    \* logins made so far
  asked,     \* history: devices named in token requests of this account row
  granted,   \* history: the platform has granted a token since the circuit opened
  bare       \* history: a caller has lost the lock in the middle of a call

rows           == <<cookie, device, token>>
callHistory    == <<asked, granted, bare>>
credentialVars == <<exists, rows, circuit, holder, call, logins, callHistory>>

Exchanging == {"read", "device", "keep", "ask", "again", "cookie", "token", "clear", "review"}
Scanning   == {"challenge", "bootstrap", "params", "code", "scan", "confirmed"}
Active     == {"create", "save", "look", "inspect", "load", "mark"} \cup Scanning \cup Exchanging

\* A caller's route through the supervisor, whether it connects afterwards, and
\* what it has read: its cookie, its device id, whether the platform renewed
\* the cookie, and whether success is to close the circuit.
Rest == [at |-> "idle", route |-> "ensure", recovers |-> FALSE, serves |-> FALSE, cookie |-> None,
         device |-> NoDevice, renewed |-> FALSE, clears |-> FALSE, stale |-> FALSE]

\* The newest cookie names its user.
Identified == cookie # None /\ cookie \notin Anonymous

\* What a connection can use without an exchange.
Prepared == token # None /\ Identified

\* The validation gate.
Required == circuit # "closed"
Cooling  == circuit = "cooling"

CallAt(p, place)   == call[p].at = place
Becomes(p, c)      == call' = [call EXCEPT ![p] = c]
CallGoes(p, place) == call' = [call EXCEPT ![p].at = place]

Release(p) == holder' = IF holder = p THEN NoHolder ELSE holder

\* The command exits, the worker's startup or run task ends: the lock goes back.
CallEnds(p) == Becomes(p, Rest) /\ Release(p)

-----------------------------------------------------------------------------
(* Beginnings.  A lock that is taken turns the caller away.                *)

Acquires(p) == CallAt(p, "idle") /\ holder = NoHolder /\ holder' = p

Begins(p, c) ==
  /\ Acquires(p) /\ Becomes(p, c)
  /\ UNCHANGED <<exists, rows, circuit, logins, callHistory>>

\* A worker's startup, and the commands that connect for themselves.
ConnectCall(p) == Begins(p, [Rest EXCEPT !.at = "inspect", !.serves = TRUE])

AuthRefresh(p) == p # Daemon /\ Begins(p, [Rest EXCEPT !.at = "look", !.route = "refresh"])

QrLogin(p) ==
  p # Daemon /\ Begins(p, [Rest EXCEPT !.at = "challenge", !.route = "refresh", !.recovers = TRUE])

\* auth login creates a missing account first, the API does not.
AuthLogin(p) ==
  /\ p # Daemon
  /\ \E place \in {"create", "save"} : Begins(p, [Rest EXCEPT !.at = place])

-----------------------------------------------------------------------------
(* Logins.                                                                 *)

\* A request of a scanned login, tried again until the attempts are used up:
\* its answer leads on to one of these places, or ends the login.
Answered(p, places) ==
  /\ \/ \E place \in places : CallGoes(p, place) /\ UNCHANGED holder
     \/ CallEnds(p)
  /\ UNCHANGED <<exists, rows, circuit, logins, callHistory>>

\* QrLoginApplication.start turns away an account that is wanted running.
Challenge(p) ==
  /\ CallAt(p, "challenge")
  /\ \/ CallGoes(p, "bootstrap") /\ UNCHANGED holder
     \/ exists /\ CallEnds(p)
  /\ UNCHANGED <<exists, rows, circuit, logins, callHistory>>

Bootstrap(p)        == CallAt(p, "bootstrap") /\ Answered(p, {"params"})
FetchLoginParams(p) == CallAt(p, "params") /\ Answered(p, {"code"})
FetchQrCode(p)      == CallAt(p, "code") /\ Answered(p, {"scan"})

\* The phone has not confirmed yet, or it has; or the code expires, is refused
\* or wants verification, or the time is up.
Poll(p) == CallAt(p, "scan") /\ Answered(p, {"scan", "confirmed"})

\* A confirmed login without an identity is worth nothing.
CompleteConfirmed(p) ==
  /\ CallAt(p, "confirmed")
  /\ \/ CallGoes(p, "create") /\ UNCHANGED holder
     \/ CallEnds(p)
  /\ UNCHANGED <<exists, rows, circuit, logins, callHistory>>

Scan(p) ==
  \/ Challenge(p) \/ Bootstrap(p) \/ FetchLoginParams(p) \/ FetchQrCode(p)
  \/ Poll(p) \/ CompleteConfirmed(p)

Create(p) ==
  /\ CallAt(p, "create") /\ CallGoes(p, "save") /\ exists' = TRUE
  /\ UNCHANGED <<rows, circuit, holder, logins, callHistory>>

\* CookieSigner.save_cookie: a newer cookie invalidates the token and keeps the
\* device id.
SaveCookie(c) == cookie' = c /\ token' = None /\ UNCHANGED device

\* A scanned login goes on to exchange its cookie, a pasted one is done.
Save(p) ==
  /\ CallAt(p, "save")
  /\ \/ /\ exists /\ \E n \in Logins :
             n > logins /\ (call[p].recovers => n \notin Anonymous) /\ logins' = n /\ SaveCookie(n)
        /\ \/ call[p].recovers /\ CallGoes(p, "inspect") /\ UNCHANGED holder
           \/ ~call[p].recovers /\ CallEnds(p)
     \/ ~exists /\ CallEnds(p) /\ UNCHANGED <<rows, logins>>
  /\ UNCHANGED <<exists, circuit, callHistory>>

-----------------------------------------------------------------------------
(* The supervisor.                                                         *)

\* auth refresh looks at the account, and recovers what needs validation.
Look(p) ==
  /\ CallAt(p, "look")
  /\ IF exists
     THEN /\ Becomes(p, [call[p] EXCEPT !.at = "inspect", !.recovers = Required])
          /\ UNCHANGED holder
     ELSE CallEnds(p)
  /\ UNCHANGED <<exists, rows, circuit, logins, callHistory>>

\* CredentialPolicy.health, as far as anyone is turned down for it.
Health ==
  CASE Required                                   -> "needs_validation"
    [] ~Required /\ cookie = None                  -> "missing"
    [] ~Required /\ cookie # None /\ ~Identified   -> "unusable"
    [] ~Required /\ Identified                     -> "usable"

\* _blocked_result.
Blocked == Health \in {"needs_validation", "missing", "unusable"}

\* Slip: an explicit recovery does not wait for the cooldown.
TurnedDownHot(c) == Blocked /\ ~(Required /\ c.route = "refresh" /\ c.recovers)

\* Who is not let through: everybody while validation is required, except an
\* explicit recovery after the cooldown; and a cookie missing or without identity.
TurnedDown(c) == Blocked /\ ~(Required /\ c.route = "refresh" /\ c.recovers /\ ~Cooling)

\* ensure and refresh: read the health, then exchange, or find nothing to do.  A
\* usable token near its expiry is exchanged.
Inspect(p) ==
  /\ CallAt(p, "inspect")
  /\ \/ TurnedDown(call[p]) /\ CallEnds(p)
     \/ /\ ~TurnedDown(call[p]) /\ UNCHANGED holder
        /\ \/ Becomes(p, [call[p] EXCEPT !.at = "load", !.clears = Required])
           \/ call[p].route = "ensure" /\ token # None /\ CallGoes(p, "read")
  /\ UNCHANGED <<exists, rows, circuit, logins, callHistory>>

Resumes(p, place) ==
  Becomes(p, [Rest EXCEPT !.at = place, !.route = call[p].route, !.serves = TRUE])

\* A transient failure is repeated by a worker, and left to its transport by a
\* command that is connected; others end the call.
GivesUp(p, transient) ==
  \/ CallEnds(p)
  \/ /\ transient /\ call[p].serves /\ UNCHANGED holder
     /\ \/ p = Daemon /\ Resumes(p, "inspect")
        \/ p # Daemon /\ call[p].route = "refresh" /\ Resumes(p, "serving")

\* The platform wants a human: the circuit opens, or its cooldown starts anew.
Mark(p) ==
  /\ CallAt(p, "mark") /\ CallEnds(p)
  /\ IF exists THEN circuit' = "cooling" /\ granted' = FALSE ELSE UNCHANGED <<circuit, granted>>
  /\ UNCHANGED <<exists, rows, logins, asked, bare>>

Clear(p) ==
  /\ CallAt(p, "clear") /\ CallGoes(p, "review")
  /\ circuit' = IF exists THEN "closed" ELSE circuit
  /\ UNCHANGED <<exists, rows, holder, logins, callHistory>>

\* The health is read again; who connects takes the lock if it was lost.
Review(p) ==
  /\ CallAt(p, "review")
  /\ \/ /\ ~Required /\ call[p].serves /\ holder \in {p, NoHolder}
        /\ Resumes(p, "serving") /\ holder' = p
     \/ (Required \/ ~call[p].serves \/ holder \notin {p, NoHolder}) /\ CallEnds(p)
  /\ UNCHANGED <<exists, rows, circuit, logins, callHistory>>

-----------------------------------------------------------------------------
(* WsTokenProvider.get_credentials.                                        *)

\* Without force_refresh: what is prepared, or an authentication failure.
ReadPrepared(p) ==
  /\ CallAt(p, "read")
  /\ \/ Prepared /\ CallGoes(p, "review") /\ UNCHANGED holder
     \/ ~Prepared /\ GivesUp(p, FALSE)
  /\ UNCHANGED <<exists, rows, circuit, logins, callHistory>>

\* With force_refresh: the steps of one exchange.

Load(p) ==
  /\ CallAt(p, "load")
  /\ \/ Identified /\ Becomes(p, [call[p] EXCEPT !.at = "device", !.cookie = cookie]) /\ UNCHANGED holder
     \/ ~Identified /\ GivesUp(p, FALSE)
  /\ UNCHANGED <<exists, rows, circuit, logins, callHistory>>

\* Slip: the device id is written with the token, after the exchange.
LoadDeviceUnkept(p) ==
  /\ CallAt(p, "device")
  /\ \/ device # NoDevice /\ Becomes(p, [call[p] EXCEPT !.at = "ask", !.device = device])
     \/ device = NoDevice /\ \E d \in Devices \ asked :
          Becomes(p, [call[p] EXCEPT !.at = "ask", !.device = d])
  /\ UNCHANGED <<exists, rows, circuit, holder, logins, callHistory>>

LoadDevice(p) ==
  /\ CallAt(p, "device")
  /\ \/ device # NoDevice /\ Becomes(p, [call[p] EXCEPT !.at = "ask", !.device = device])
     \/ device = NoDevice /\ \E d \in Devices \ asked :
          Becomes(p, [call[p] EXCEPT !.at = "keep", !.device = d])
  /\ UNCHANGED <<exists, rows, circuit, holder, logins, callHistory>>

\* The new id is stored before it is used, unless a row has appeared meanwhile.
KeepDevice(p) ==
  /\ CallAt(p, "keep")
  /\ IF exists
     THEN /\ device' = IF device = NoDevice THEN call[p].device ELSE device
          /\ CallGoes(p, "ask") /\ UNCHANGED holder
     ELSE GivesUp(p, FALSE) /\ UNCHANGED device
  /\ UNCHANGED <<exists, cookie, token, circuit, logins, callHistory>>

\* How a failed exchange is reported.
Failures == {"needs_validation", "network_error", "other"}

\* The platform wants a human, or the call is given up.
BackendFails(p) ==
  \E failure \in Failures :
    \/ failure = "needs_validation" /\ CallGoes(p, "mark") /\ UNCHANGED holder
    \/ failure # "needs_validation" /\ GivesUp(p, failure = "network_error")

\* What a token request may bring: a token, and a renewed signing cookie.
Answers == [token : BOOLEAN, renewed : BOOLEAN]

\* The token request.  Without a token but with a renewed signing cookie it is
\* sent once more.
Ask(p) ==
  /\ call[p].at \in {"ask", "again"}
  /\ asked' = IF call[p].stale THEN asked ELSE asked \cup {call[p].device}
  /\ \/ \E answer \in Answers :
           /\ UNCHANGED holder
           /\ LET renewed == call[p].renewed \/ answer.renewed IN
                \/ /\ answer.token /\ granted' = TRUE
                   /\ Becomes(p, [call[p] EXCEPT !.at = IF renewed THEN "cookie" ELSE "token",
                                                 !.renewed = renewed])
                \/ /\ ~answer.token /\ CallAt(p, "ask") /\ answer.renewed /\ UNCHANGED granted
                   /\ Becomes(p, [call[p] EXCEPT !.at = "again", !.renewed = TRUE])
     \/ BackendFails(p) /\ UNCHANGED granted
  /\ UNCHANGED <<exists, rows, circuit, logins, bare>>

\* A cookie that cannot be saved is not missed here, but at the next step.
StoreCookie(p) ==
  /\ CallAt(p, "cookie") /\ CallGoes(p, "token")
  /\ IF exists THEN SaveCookie(call[p].cookie) ELSE UNCHANGED rows
  /\ UNCHANGED <<exists, circuit, holder, logins, callHistory>>

StoreToken(p) ==
  /\ CallAt(p, "token")
  /\ IF exists
     THEN /\ token' = call[p].cookie /\ device' = call[p].device
          /\ CallGoes(p, IF call[p].clears THEN "clear" ELSE "review") /\ UNCHANGED holder
     ELSE GivesUp(p, FALSE) /\ UNCHANGED <<token, device>>
  /\ UNCHANGED <<exists, cookie, circuit, logins, callHistory>>

-----------------------------------------------------------------------------
(* Around the calls.                                                       *)

\* A connection attempt finds nothing it can use and asks for a refresh; or it ends.
Serving(p) ==
  /\ CallAt(p, "serving")
  /\ \/ /\ ~Prepared /\ UNCHANGED holder
        /\ Becomes(p, [Rest EXCEPT !.at = "inspect", !.route = "refresh", !.serves = TRUE])
     \/ CallEnds(p)
  /\ UNCHANGED <<exists, rows, circuit, logins, callHistory>>

\* A stop cancels the call, or its process dies; both give the lock back.
Abort(p) ==
  /\ call[p].at \in Active /\ CallEnds(p)
  /\ UNCHANGED <<exists, rows, circuit, logins, callHistory>>

\* The first run task of a restarted worker ends, and its finally gives back
\* the reservation that the second startup relies on.
LoseLock ==
  /\ holder = Daemon /\ call[Daemon].serves /\ call[Daemon].route = "ensure"
  /\ call[Daemon].at \in Active
  /\ holder' = NoHolder /\ bare' = TRUE
  /\ UNCHANGED <<exists, rows, circuit, call, logins, asked, granted>>

\* The API deletes an account without the lock, and its rows go with it.
Delete ==
  /\ exists /\ exists' = FALSE
  /\ cookie' = None /\ device' = NoDevice /\ token' = None /\ circuit' = "closed"
  /\ asked' = {} /\ call' = [p \in Callers |-> [call[p] EXCEPT !.stale = call[p].at \in Active]]
  /\ UNCHANGED <<holder, logins, granted, bare>>

CreateAccount ==
  /\ ~exists /\ exists' = TRUE
  /\ UNCHANGED <<rows, circuit, holder, call, logins, callHistory>>

TokenExpires ==
  /\ token # None /\ token' = None
  /\ UNCHANGED <<exists, cookie, device, circuit, holder, call, logins, callHistory>>

CooldownPasses ==
  /\ circuit = "cooling" /\ circuit' = "due"
  /\ UNCHANGED <<exists, rows, holder, call, logins, callHistory>>

CredentialInit ==
  /\ exists = FALSE /\ cookie = None /\ device = NoDevice /\ token = None
  /\ circuit = "closed" /\ holder = NoHolder /\ call = [p \in Callers |-> Rest]
  /\ logins = 0 /\ asked = {} /\ granted = FALSE /\ bare = FALSE

Begin(p)      == ConnectCall(p) \/ AuthRefresh(p) \/ QrLogin(p) \/ AuthLogin(p)
Login(p)      == Scan(p) \/ Create(p) \/ Save(p)
Supervisor(p) == Look(p) \/ Inspect(p) \/ Mark(p) \/ Clear(p) \/ Review(p)
Exchange(p)   == ReadPrepared(p) \/ Load(p) \/ LoadDevice(p) \/ KeepDevice(p) \/ Ask(p) \/ StoreCookie(p) \/ StoreToken(p)

CredentialNext ==
  \/ \E p \in Callers : Begin(p) \/ Login(p) \/ Supervisor(p) \/ Exchange(p) \/ Serving(p) \/ Abort(p)
  \/ LoseLock \/ Delete \/ CreateAccount \/ TokenExpires \/ CooldownPasses

CredentialSpec == CredentialInit /\ [][CredentialNext]_credentialVars

-----------------------------------------------------------------------------
(* Properties.                                                             *)

Call == [at : {"idle", "serving"} \cup Active, route : {"ensure", "refresh"},
         recovers : BOOLEAN, serves : BOOLEAN, cookie : Logins \cup {None},
         device : Devices \cup {NoDevice}, renewed : BOOLEAN, clears : BOOLEAN, stale : BOOLEAN]

\* The type invariant.
CredentialTypeOK ==
  /\ exists \in BOOLEAN /\ cookie \in Logins \cup {None} /\ token \in Logins \cup {None}
  /\ device \in Devices \cup {NoDevice} /\ circuit \in {"closed", "cooling", "due"}
  /\ holder \in Callers \cup {NoHolder} /\ call \in [Callers -> Call]
  /\ logins \in Logins \cup {0} /\ asked \subseteq Devices
  /\ granted \in BOOLEAN /\ bare \in BOOLEAN

\* What is stored belongs together, wherever calls were cancelled or died, as
\* long as no call lost its lock: the newest cookie derives from the latest
\* login, what a connection may use was bought with that cookie, and the
\* platform has been shown one device for the account.
StoredTogether ==
  ~bare =>
    /\ cookie \in {None, logins}
    /\ Prepared => token = cookie
    /\ asked \subseteq {device}

\* A circuit is closed, other than with its account, only after its latest
\* cooldown and after the platform has granted a token since it opened.
RecoveryIsEarned ==
  [][circuit # "closed" /\ circuit' = "closed" /\ exists' /\ ~bare
       => circuit = "due" /\ granted]_credentialVars
=============================================================================
