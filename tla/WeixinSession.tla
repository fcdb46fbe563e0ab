----------------------------- MODULE WeixinSession -----------------------------
(* The installed Weixin provider of packages/opl-channel-weixin: attachment to *)
(* a host, QR login, logout, and the connection state it projects. A login     *)
(* owns at most one transport (a WeixinChannelProvider; see WeixinTransport),  *)
(* here reduced to the part of its lifecycle the session drives.               *)
(*                                                                             *)
(* A step is the synchronous code between two awaits. logout() and stop() are  *)
(* records of what they still await; nothing in the code serialises them. The  *)
(* event loop runs every released promise job before the next network answer   *)
(* or timer: those steps are guarded by Settled.                               *)
EXTENDS Integers, FiniteSets

CONSTANTS
    Logins,       \* the login attempts the host makes, each used once
    Calls,        \* the logout()/stop() calls, each used once
    MaxStarts,    \* bound: start() calls
    None,         \* no login (null in the code)
    HostCalls     \* when the host may call: "events", when no promise job is
                  \* due; "jobs", also between two promise jobs of the provider

ASSUME LoginsAssumption == IsFiniteSet(Logins)
ASSUME CallsAssumption == IsFiniteSet(Calls)
ASSUME MaxStartsAssumption == MaxStarts \in Nat
ASSUME NoneAssumption == None \notin Logins
ASSUME HostCallsAssumption == HostCalls \in {"events", "jobs"}

VARIABLES
    hostLifecycle, callback,
    revision,        \* contributionRevision
    state,           \* contributionState
    qr,              \* contributionQr, as the login that presented it
    reason,          \* contributionReason
    loginTask,       \* loginTask and loginAbortController: one login or None
    loginAbort,
    session,         \* sessionDisposable and sessionHandle: one login or None
    login,           \* per login: pc, revision, aborted, timedOut
    transport,       \* per login: the lifecycle of its channel provider
    call,            \* per logout()/stop(): pc, kind and what it awaits
    starts           \* start() calls so far

host       == <<hostLifecycle, callback, starts>>
projection == <<state, qr, reason>>
slots      == <<loginTask, loginAbort, session>>
vars       == <<host, revision, projection, slots, login, transport, call>>

HostStates == {"created", "running", "stopping", "stopped"}
States == {"disconnected", "connecting", "qr_ready", "qr_scanned", "connected",
           "attention"}
Reasons == {"none", "qr_expired", "aborted", "login_failed"}
LoginPcs == {"idle", "code", "polling", "confirmed", "starting", "discarding",
             "succeeded", "failed", "settled", "done"}
CallPcs == {"idle", "login", "dispose", "stopped", "done"}
NoCall == [pc |-> "idle", kind |-> "logout", awaits |-> None]
NoLogin == [pc |-> "idle", rev |-> 0, aborted |-> FALSE, timedOut |-> FALSE,
            error |-> "none"]

Init ==
    /\ hostLifecycle = "created" /\ callback = FALSE /\ starts = 0
    /\ revision = 0
    /\ state = "disconnected" /\ qr = None /\ reason = "none"
    /\ loginTask = None /\ loginAbort = None /\ session = None
    /\ login = [l \in Logins |-> NoLogin]
    /\ transport = [l \in Logins |-> "none"]
    /\ call = [c \in Calls |-> NoCall]

InFlight(c) == call[c].pc \notin {"idle", "done"}
Underway(l) == login[l].pc \notin {"idle", "done"}

\* The awaited promise of c has settled, and the code after it may run.
Released(c) ==
    /\ call[c].pc = "login" => login[call[c].awaits].pc = "done"
    /\ call[c].pc = "dispose" =>
          \A l \in Logins : call[c].awaits = l => transport[l] = "stopped"

LoginReleased(l) ==
    \/ login[l].pc \in {"confirmed", "starting", "succeeded", "failed", "settled"}
    \/ login[l].pc = "discarding" /\ transport[l] = "stopped"

\* No promise job is due: an event may be dispatched.
Settled == /\ \A c \in Calls : InFlight(c) => ~Released(c)
           /\ \A l \in Logins : ~LoginReleased(l)

MayCall == HostCalls = "events" => Settled

\* Bug for mutation: challenge and reason swapped.
SwappedProjection(s, q, r) == state' = s /\ qr' = r /\ reason' = q

Project(s, q, r) == state' = s /\ qr' = q /\ reason' = r
Current(l) == login[l].rev = revision
Goto(l, pc) == login' = [login EXCEPT ![l].pc = pc]
Fail(l, error) == login' = [login EXCEPT ![l].pc = "failed", ![l].error = error]

-----------------------------------------------------------------------------
(* Attachment                                                                  *)

Start ==
    /\ MayCall
    /\ hostLifecycle \in {"created", "stopped"} /\ starts < MaxStarts
    /\ hostLifecycle' = "running" /\ callback' = TRUE /\ starts' = starts + 1
    /\ UNCHANGED <<revision, projection, slots, login, transport, call>>

-----------------------------------------------------------------------------
(* loginWithQr(), also as the contribution action weixin-connect               *)

Attached == hostLifecycle = "running" /\ callback
\* Bug for mutation: a login under way does not refuse another.
IgnoresLoginTask == session = None

Connectable == session = None /\ loginTask = None

\* Bug for mutation: the revision is captured before it is incremented.
StaleRevision == revision

OwnRevision == revision + 1

Login(l) ==
    /\ MayCall
    /\ login[l].pc = "idle" /\ Attached /\ Connectable
    /\ loginTask' = l /\ loginAbort' = l
    /\ revision' = revision + 1
    /\ login' = [login EXCEPT ![l].pc = "code", ![l].rev = OwnRevision]
    /\ Project("connecting", None, "none")
    /\ UNCHANGED <<host, session, transport, call>>

\* getBotQrCode resolves; onQrCode projects the challenge of a current login.
QrCode(l) ==
    /\ Settled
    /\ login[l].pc = "code"
    /\ Goto(l, "polling")
    /\ IF Current(l) THEN state' = "qr_ready" /\ qr' = l
                     ELSE UNCHANGED <<state, qr>>
    /\ UNCHANGED <<host, revision, reason, slots, transport, call>>

\* A status poll answers "scanned"; any other non-final status changes nothing.
Scanned(l) ==
    /\ Settled
    /\ login[l].pc = "polling" /\ Current(l) /\ state # "qr_scanned"
    /\ state' = "qr_scanned"
    /\ UNCHANGED <<host, revision, qr, reason, slots, login, transport, call>>

Confirmed(l) ==
    /\ Settled
    /\ login[l].pc = "polling"
    /\ Goto(l, "confirmed")
    /\ UNCHANGED <<host, revision, projection, slots, transport, call>>

\* The challenge lifetime passes: readContribution and the deadline see it.
TimePasses(l) ==
    /\ Settled
    /\ login[l].pc = "polling" /\ ~login[l].timedOut
    /\ login' = [login EXCEPT ![l].timedOut = TRUE]
    /\ UNCHANGED <<host, revision, projection, slots, transport, call>>

\* A request fails, the challenge fails or expires (at the server, or at the
\* loop's deadline), or the abort rejects the request or the sleep.
LoginFails(l) ==
    /\ Settled
    /\ login[l].pc \in {"code", "polling"}
    /\ \/ login[l].aborted /\ Fail(l, "aborted")
       \/ login[l].pc = "polling" /\ Fail(l, "qr_expired")
       \/ Fail(l, "login_failed")
    /\ UNCHANGED <<host, revision, projection, slots, transport, call>>

\* performLogin after the credentials: the provider is made and started, unless
\* the login was aborted or the host detached meanwhile. Its constructor rejects
\* bad poll options.
StartTransport(l) ==
    /\ login[l].pc = "confirmed"
    /\ IF login[l].aborted \/ ~Attached
       THEN Fail(l, "aborted") /\ UNCHANGED transport
       ELSE \/ Fail(l, "login_failed") /\ UNCHANGED transport
            \/ transport' = [transport EXCEPT ![l] = "running"] /\ Goto(l, "starting")
    /\ UNCHANGED <<host, revision, projection, slots, call>>

\* Bug for mutation: the detached login just throws.
ForgetsToDispose(l) == UNCHANGED transport

Dispose(l) == transport' = [transport EXCEPT ![l] = "stopping"]

\* performLogin after start(): adopt the transport as the session, or dispose it.
AdoptTransport(l) ==
    /\ login[l].pc = "starting"
    /\ IF login[l].aborted \/ hostLifecycle # "running"
       THEN /\ Dispose(l)
            /\ Goto(l, "discarding")
            /\ UNCHANGED session
       ELSE /\ session' = l
            /\ Goto(l, "succeeded")
            /\ UNCHANGED transport
    /\ UNCHANGED <<host, revision, projection, loginTask, loginAbort, call>>

Discarded(l) ==
    /\ login[l].pc = "discarding" /\ transport[l] = "stopped"
    /\ Fail(l, "aborted")
    /\ UNCHANGED <<host, revision, projection, slots, transport, call>>

\* The handlers of the login promise, silent for a login that is not current.
LoginSettles(l) ==
    /\ login[l].pc \in {"succeeded", "failed"}
    /\ Goto(l, "settled")
    /\ IF ~Current(l) THEN UNCHANGED projection
       ELSE IF login[l].pc = "succeeded" THEN Project("connected", None, "none")
       ELSE Project("attention", None, login[l].error)
    /\ UNCHANGED <<host, revision, slots, transport, call>>

\* Bug for mutation: then() instead of finally(), so a failed login is never cleared.
ClearsSuccess(l) == login[l].pc = "settled" /\ login[l].error = "none"

Clears(l) == login[l].pc = "settled"

\* The finally handler.
LoginCleared(l) ==
    /\ Clears(l)
    /\ Goto(l, "done")
    /\ loginTask' = IF loginTask = l THEN None ELSE loginTask
    /\ loginAbort' = IF loginAbort = l THEN None ELSE loginAbort
    /\ UNCHANGED <<host, revision, projection, session, transport, call>>

\* The caller's own signal (options.qr.signal), bound until the finally handler.
ExternalAbort(l) ==
    /\ Underway(l) /\ ~login[l].aborted
    /\ login' = [login EXCEPT ![l].aborted = TRUE]
    /\ UNCHANGED <<host, revision, projection, slots, transport, call>>

\* External: a transport being disposed reaches its own stopped state.
TransportStops(l) ==
    /\ Settled /\ transport[l] = "stopping"
    /\ transport' = [transport EXCEPT ![l] = "stopped"]
    /\ UNCHANGED <<host, revision, projection, slots, login, call>>

-----------------------------------------------------------------------------
(* logout(), also as weixin-disconnect, and stop(), which awaits a logout      *)

\* disposeSession: the session is let go before its disposal is awaited.
DisposeSession(c, kind) ==
    /\ session' = None
    /\ transport' = IF session = None THEN transport
                    ELSE [transport EXCEPT ![session] = "stopping"]
    /\ call' = [call EXCEPT ![c] = [pc |-> "dispose", kind |-> kind,
                                    awaits |-> session]]

AwaitsLogin == loginTask # None

Logout(c, kind) ==
    /\ revision' = revision + 1
    /\ login' = IF loginAbort = None THEN login
                ELSE [login EXCEPT ![loginAbort].aborted = TRUE]
    /\ IF AwaitsLogin
       THEN /\ call' = [call EXCEPT ![c] = [pc |-> "login", kind |-> kind,
                                            awaits |-> loginTask]]
            /\ UNCHANGED <<session, transport>>
       ELSE DisposeSession(c, kind)
    /\ UNCHANGED <<callback, starts, projection, loginTask, loginAbort>>

CallLogout(c) ==
    /\ MayCall /\ call[c].pc = "idle"
    /\ Logout(c, "logout")
    /\ UNCHANGED hostLifecycle

CallStop(c) ==
    /\ MayCall /\ call[c].pc = "idle"
    /\ hostLifecycle \in {"running", "stopping"}
    /\ hostLifecycle' = "stopping"
    /\ Logout(c, "stop")

\* stop() before any start, or again after the end.
StopReturns(c) ==
    /\ MayCall /\ call[c].pc = "idle"
    /\ hostLifecycle \in {"created", "stopped"}
    /\ hostLifecycle' = "stopped"
    /\ call' = [call EXCEPT ![c].pc = "done", ![c].kind = "stop"]
    /\ UNCHANGED <<callback, starts, revision, projection, slots, login, transport>>

\* The login promise has settled; its finally handler was registered first.
LogoutAfterLogin(c) ==
    /\ call[c].pc = "login" /\ Released(c)
    /\ DisposeSession(c, call[c].kind)
    /\ UNCHANGED <<host, revision, projection, loginTask, loginAbort, login>>

\* Bug for mutation: the QR challenge stays projected.
KeepsChallenge == state' = "disconnected" /\ UNCHANGED <<qr, reason>>

Disconnect == Project("disconnected", None, "none")

LogoutEnds(c) ==
    /\ call[c].pc = "dispose" /\ Released(c)
    /\ Disconnect
    /\ call' = [call EXCEPT ![c].pc = IF call[c].kind = "stop" THEN "stopped"
                                                              ELSE "done"]
    /\ UNCHANGED <<host, revision, slots, login, transport>>

StopEnds(c) ==
    /\ call[c].pc = "stopped"
    /\ callback' = FALSE /\ hostLifecycle' = "stopped"
    /\ call' = [call EXCEPT ![c].pc = "done"]
    /\ UNCHANGED <<starts, revision, projection, slots, login, transport>>

-----------------------------------------------------------------------------
(* readContribution: reading a challenge past its lifetime withdraws it        *)
ReadExpired ==
    /\ state = "qr_ready" /\ qr # None /\ login[qr].timedOut
    /\ Project("attention", None, "qr_expired")
    /\ UNCHANGED <<host, revision, slots, login, transport, call>>

\* The one command a reader is offered.
Offered == IF state \in {"connected", "connecting", "qr_ready", "qr_scanned"}
           THEN "disconnect" ELSE "connect"

-----------------------------------------------------------------------------
LoginStep(l) ==
    \/ QrCode(l) \/ Scanned(l) \/ Confirmed(l) \/ LoginFails(l)
    \/ StartTransport(l) \/ AdoptTransport(l) \/ Discarded(l)
    \/ LoginSettles(l) \/ LoginCleared(l)

CallStep(c) == LogoutAfterLogin(c) \/ LogoutEnds(c) \/ StopEnds(c)

Next ==
    \/ Start \/ ReadExpired
    \/ \E l \in Logins : \/ Login(l) \/ LoginStep(l) \/ TimePasses(l)
                         \/ ExternalAbort(l) \/ TransportStops(l)
    \/ \E c \in Calls : CallLogout(c) \/ CallStop(c) \/ StopReturns(c) \/ CallStep(c)

Spec == Init /\ [][Next]_vars

\* The clock runs, a login past its deadline or aborted gives up (every request
\* of the QR protocol has a timeout), promises settle and disposals end.
Continues(l) == login[l].pc # "polling" /\ LoginStep(l)
GivesUp(l) == /\ login[l].pc = "polling" /\ (login[l].timedOut \/ login[l].aborted)
              /\ LoginFails(l)
Fairness ==
    /\ \A l \in Logins : /\ WF_vars(Continues(l)) /\ WF_vars(TimePasses(l))
                         /\ WF_vars(GivesUp(l)) /\ WF_vars(TransportStops(l))
    /\ \A c \in Calls : WF_vars(CallStep(c))

FairSpec == Spec /\ Fairness

-----------------------------------------------------------------------------
(* Properties                                                                  *)

TransportStates == {"none", "running", "stopping", "stopped"}
LoginRecords == [pc : LoginPcs, rev : Nat, aborted : BOOLEAN, timedOut : BOOLEAN,
                 error : Reasons]
CallRecords == [pc : CallPcs, kind : {"logout", "stop"}, awaits : Logins \cup {None}]

TypeOK ==
    /\ hostLifecycle \in HostStates /\ callback \in BOOLEAN
    /\ starts \in Nat /\ revision \in Nat
    /\ state \in States /\ reason \in Reasons
    /\ qr \in Logins \cup {None} /\ session \in Logins \cup {None}
    /\ loginTask \in Logins \cup {None} /\ loginAbort \in Logins \cup {None}
    /\ login \in [Logins -> LoginRecords]
    /\ transport \in [Logins -> TransportStates]
    /\ call \in [Calls -> CallRecords]

\* A running transport can always be reached by a later logout or stop: it is
\* the session, or its login is about to adopt or discard it. No interleaving
\* of logins, logouts, stops and reattachments leaks one.
NoOrphanTransport ==
    \A l \in Logins : transport[l] = "running" =>
        session = l \/ login[l].pc = "starting"

\* One login is under way at a time and one transport runs at a time, though
\* loginWithQr checks only two slots that other continuations clear.
OneConnection ==
    \A l, k \in Logins : l # k =>
        /\ ~(Underway(l) /\ Underway(k))
        /\ ~(transport[l] = "running" /\ transport[k] = "running")

\* A login that a logout has superseded can still win its race and become the
\* session, but then a logout() that will dispose it is waiting for it.
RevokedSessionIsClosing ==
    \A l \in Logins : session = l /\ ~Current(l) =>
        \E c \in Calls : call[c].pc = "login" /\ call[c].awaits = l

\* What the host is shown is backed by something live, or a logout() that will
\* correct it has not returned: connected by a session, progress and a QR
\* challenge by the current login.
ProjectionIsBacked ==
    \/ \E c \in Calls : InFlight(c)
    \/ /\ state = "connected" => session # None
       /\ state \in {"connecting", "qr_ready", "qr_scanned"} \/ qr # None =>
             \E l \in Logins : Underway(l) /\ Current(l)

\* Nothing outlives the attachment (README: "QR challenges, login progress, and
\* the active account remain in memory and disappear on expiry, logout, or Host
\* teardown").
StoppedHasNoAccount ==
    hostLifecycle = "stopped" =>
        /\ session = None /\ qr = None
        /\ \A l \in Logins : ~Underway(l) /\ transport[l] # "running"

\* With an active session and nothing in flight the controller reports it as
\* connected, and so offers to disconnect it.
ActiveSessionIsShown ==
    session # None /\ loginTask = None /\ (\A c \in Calls : ~InFlight(c)) =>
        state = "connected" /\ Offered = "disconnect"

\* Every logout() and stop() returns, whatever login or transport it awaits.
CallsReturn == \A c \in Calls : InFlight(c) ~> call[c].pc = "done"

\* No login stays under way for ever, and its progress is not shown for ever.
LoginsEnd ==
    /\ \A l \in Logins : Underway(l) ~> login[l].pc = "done"
    /\ state \in {"connecting", "qr_ready", "qr_scanned"} ~>
          state \in {"disconnected", "connected", "attention"}
=============================================================================
