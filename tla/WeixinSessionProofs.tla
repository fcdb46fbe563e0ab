-------------------------- MODULE WeixinSessionProofs --------------------------
(* Proofs about the installed Weixin provider, for any number of logins and of *)
(* overlapping logout()/stop() calls, and for every HostCalls discipline.      *)
EXTENDS WeixinSession, TLAPS

LoginsTyped == login \in [Logins -> LoginRecords]
CallsTyped == call \in [Calls -> CallRecords]

\* Moving a login to another point of performLogin keeps its record well formed.
LEMMA GotoTyped ==
    ASSUME LoginsTyped, NEW l \in Logins, NEW p \in LoginPcs, Goto(l, p)
    PROVE  LoginsTyped'
<1>1. [login[l] EXCEPT !.pc = p] \in LoginRecords
  BY DEF LoginsTyped, LoginRecords
<1> QED
  BY <1>1 DEF LoginsTyped, Goto

\* So does a rejection of the login promise.
LEMMA FailTyped ==
    ASSUME LoginsTyped, NEW l \in Logins, NEW e \in Reasons, Fail(l, e)
    PROVE  LoginsTyped'
<1>1. [login[l] EXCEPT !.pc = "failed", !.error = e] \in LoginRecords
  BY DEF LoginsTyped, LoginRecords, LoginPcs
<1> QED
  BY <1>1 DEF LoginsTyped, Fail

\* Aborting a login, and its deadline passing, touch one flag of its record.
LEMMA FlagsTyped ==
    ASSUME LoginsTyped, NEW l \in Logins
    PROVE  /\ [login EXCEPT ![l].aborted = TRUE] \in [Logins -> LoginRecords]
           /\ [login EXCEPT ![l].timedOut = TRUE] \in [Logins -> LoginRecords]
<1>1. /\ [login[l] EXCEPT !.aborted = TRUE] \in LoginRecords
      /\ [login[l] EXCEPT !.timedOut = TRUE] \in LoginRecords
  BY DEF LoginsTyped, LoginRecords
<1> QED
  BY <1>1 DEF LoginsTyped

\* A logout()/stop() call that moves on keeps its record well formed.
LEMMA CallTyped ==
    ASSUME CallsTyped, NEW c \in Calls, NEW r \in CallRecords
    PROVE  [call EXCEPT ![c] = r] \in [Calls -> CallRecords]
BY DEF CallsTyped

\* The fields of a provider that nobody has started are well typed.
LEMMA TypeInit == Init => TypeOK
<1> USE DEF HostStates, States, Reasons, TransportStates
<1>1. NoLogin \in LoginRecords /\ NoCall \in CallRecords
  BY DEF NoLogin, NoCall, LoginRecords, CallRecords, LoginPcs, CallPcs
<1> SUFFICES ASSUME Init PROVE TypeOK
  OBVIOUS
<1>2. login \in [Logins -> LoginRecords] /\ call \in [Calls -> CallRecords]
  BY <1>1 DEF Init
<1>3. callback \in BOOLEAN
  BY Zenon DEF Init
<1> QED
  BY <1>2, <1>3 DEF Init, TypeOK

\* Every step keeps the types.
LEMMA TypeNext == TypeOK /\ [Next]_vars => TypeOK'
<1> USE DEF HostStates, States, Reasons, TransportStates
<1> SUFFICES ASSUME TypeOK, [Next]_vars PROVE TypeOK'
  OBVIOUS
<1> USE DEF TypeOK, Project, Disconnect, Dispose, host, slots, projection
<1>0. LoginsTyped /\ CallsTyped
  BY DEF LoginsTyped, CallsTyped
<1>1. CASE Start
  BY <1>1 DEF Start
<1>2. CASE ReadExpired
  BY <1>2 DEF ReadExpired
<1>3. ASSUME NEW l \in Logins, Login(l) PROVE TypeOK'
  <2>0. ASSUME NEW r \in Nat
        PROVE  [login[l] EXCEPT !.pc = "code", !.rev = r] \in LoginRecords
    BY DEF LoginRecords, LoginPcs
  <2>1. [login[l] EXCEPT !.pc = "code", !.rev = revision + 1] \in LoginRecords
    <3>1. revision + 1 \in Nat
      OBVIOUS
    <3> QED
      BY <2>0, <3>1, Zenon
  <2>2. login' \in [Logins -> LoginRecords]
    BY <1>3, <2>1 DEF Login, OwnRevision
  <2> QED
    BY <1>3, <2>2 DEF Login
<1>4. ASSUME NEW l \in Logins, QrCode(l) PROVE TypeOK'
  <2>1. login' \in [Logins -> LoginRecords]
    BY <1>4, <1>0, GotoTyped DEF QrCode, LoginPcs, LoginsTyped
  <2> QED
    BY <1>4, <2>1 DEF QrCode
<1>5. ASSUME NEW l \in Logins, Scanned(l) PROVE TypeOK'
  BY <1>5 DEF Scanned
<1>6. ASSUME NEW l \in Logins, Confirmed(l) PROVE TypeOK'
  <2>1. login' \in [Logins -> LoginRecords]
    BY <1>6, <1>0, GotoTyped DEF Confirmed, LoginPcs, LoginsTyped
  <2> QED
    BY <1>6, <2>1 DEF Confirmed
<1>7. ASSUME NEW l \in Logins, TimePasses(l) PROVE TypeOK'
  <2>1. login' \in [Logins -> LoginRecords]
    BY <1>7, <1>0, FlagsTyped DEF TimePasses, LoginPcs, LoginsTyped
  <2> QED
    BY <1>7, <2>1 DEF TimePasses
<1>8. ASSUME NEW l \in Logins, LoginFails(l) PROVE TypeOK'
  <2>1. login' \in [Logins -> LoginRecords]
    BY <1>8, <1>0, FailTyped DEF LoginFails, LoginPcs, LoginsTyped
  <2> QED
    BY <1>8, <2>1 DEF LoginFails
<1>9. ASSUME NEW l \in Logins, StartTransport(l) PROVE TypeOK'
  <2>1. login' \in [Logins -> LoginRecords]
    BY <1>9, <1>0, GotoTyped, FailTyped DEF StartTransport, LoginPcs, LoginsTyped
  <2> QED
    BY <1>9, <2>1 DEF StartTransport
<1>10. ASSUME NEW l \in Logins, AdoptTransport(l) PROVE TypeOK'
  <2>1. login' \in [Logins -> LoginRecords]
    BY <1>10, <1>0, GotoTyped DEF AdoptTransport, LoginPcs, LoginsTyped
  <2> QED
    BY <1>10, <2>1 DEF AdoptTransport
<1>11. ASSUME NEW l \in Logins, Discarded(l) PROVE TypeOK'
  <2>1. login' \in [Logins -> LoginRecords]
    BY <1>11, <1>0, FailTyped DEF Discarded, LoginPcs, LoginsTyped
  <2> QED
    BY <1>11, <2>1 DEF Discarded
<1>12. ASSUME NEW l \in Logins, LoginSettles(l) PROVE TypeOK'
  <2>1. login' \in [Logins -> LoginRecords]
    BY <1>12, <1>0, GotoTyped DEF LoginSettles, LoginPcs, LoginsTyped
  <2>2. login[l].error \in Reasons
    BY DEF LoginRecords
  <2> QED
    BY <1>12, <2>1, <2>2 DEF LoginSettles
<1>13. ASSUME NEW l \in Logins, LoginCleared(l) PROVE TypeOK'
  <2>1. login' \in [Logins -> LoginRecords]
    BY <1>13, <1>0, GotoTyped DEF LoginCleared, LoginPcs, LoginsTyped
  <2> QED
    BY <1>13, <2>1 DEF LoginCleared
<1>14. ASSUME NEW l \in Logins, ExternalAbort(l) PROVE TypeOK'
  <2>1. login' \in [Logins -> LoginRecords]
    BY <1>14, <1>0, FlagsTyped DEF ExternalAbort, LoginPcs, LoginsTyped
  <2> QED
    BY <1>14, <2>1 DEF ExternalAbort
<1>15. ASSUME NEW l \in Logins, TransportStops(l) PROVE TypeOK'
  BY <1>15 DEF TransportStops
<1>16. ASSUME NEW c \in Calls, NEW k \in {"logout", "stop"}, DisposeSession(c, k)
       PROVE  /\ session' \in Logins \cup {None}
              /\ transport' \in [Logins -> TransportStates]
              /\ call' \in [Calls -> CallRecords]
  <2>1. [pc |-> "dispose", kind |-> k, awaits |-> session] \in CallRecords
    BY DEF CallRecords, CallPcs
  <2>2. call' \in [Calls -> CallRecords]
    BY <1>16, <1>0, <2>1, CallTyped DEF DisposeSession
  <2> QED
    BY <1>16, <2>2 DEF DisposeSession
<1>17. ASSUME NEW c \in Calls, NEW k \in {"logout", "stop"}, Logout(c, k)
       PROVE  /\ revision' \in Nat
              /\ session' \in Logins \cup {None}
              /\ login' \in [Logins -> LoginRecords]
              /\ transport' \in [Logins -> TransportStates]
              /\ call' \in [Calls -> CallRecords]
  <2>1. login' \in [Logins -> LoginRecords]
    BY <1>17, <1>0, FlagsTyped DEF Logout
  <2>2. [pc |-> "login", kind |-> k, awaits |-> loginTask] \in CallRecords
    BY DEF CallRecords, CallPcs
  <2>3. CASE AwaitsLogin
    <3>1. call' \in [Calls -> CallRecords]
      BY <1>17, <1>0, <2>2, <2>3, CallTyped DEF Logout
    <3> QED
      BY <1>17, <2>1, <2>3, <3>1 DEF Logout
  <2>4. CASE ~AwaitsLogin
    BY <1>17, <2>1, <2>4, <1>16 DEF Logout
  <2> QED
    BY <2>3, <2>4
<1>18. ASSUME NEW c \in Calls, CallLogout(c) PROVE TypeOK'
  <2>1. Logout(c, "logout") /\ hostLifecycle' \in HostStates
    BY <1>18 DEF CallLogout
  <2>2. UNCHANGED <<callback, starts, projection, loginTask, loginAbort>>
    BY <2>1 DEF Logout
  <2> QED
    BY <2>1, <2>2, <1>17
<1>19. ASSUME NEW c \in Calls, CallStop(c) PROVE TypeOK'
  <2>1. Logout(c, "stop") /\ hostLifecycle' \in HostStates
    BY <1>19 DEF CallStop
  <2>2. UNCHANGED <<callback, starts, projection, loginTask, loginAbort>>
    BY <2>1 DEF Logout
  <2> QED
    BY <2>1, <2>2, <1>17
<1>20. ASSUME NEW c \in Calls, StopReturns(c) PROVE TypeOK'
  <2>1. [call[c] EXCEPT !.pc = "done", !.kind = "stop"] \in CallRecords
    BY DEF CallRecords, CallPcs
  <2>2. call' \in [Calls -> CallRecords]
    BY <1>20, <1>0, <2>1, CallTyped DEF StopReturns
  <2> QED
    BY <1>20, <2>2 DEF StopReturns
<1>21. ASSUME NEW c \in Calls, LogoutAfterLogin(c) PROVE TypeOK'
  <2>1. call[c].kind \in {"logout", "stop"}
    BY DEF CallRecords
  <2> QED
    BY <1>21, <2>1, <1>16 DEF LogoutAfterLogin
<1>22. ASSUME NEW c \in Calls, LogoutEnds(c) PROVE TypeOK'
  <2>1. /\ [call[c] EXCEPT !.pc = "done"] \in CallRecords
        /\ [call[c] EXCEPT !.pc = "stopped"] \in CallRecords
    BY DEF CallRecords, CallPcs
  <2>2. call' \in [Calls -> CallRecords]
    BY <1>22, <1>0, <2>1, CallTyped DEF LogoutEnds
  <2> QED
    BY <1>22, <2>2 DEF LogoutEnds
<1>23. ASSUME NEW c \in Calls, StopEnds(c) PROVE TypeOK'
  <2>1. [call[c] EXCEPT !.pc = "done"] \in CallRecords
    BY DEF CallRecords, CallPcs
  <2>2. call' \in [Calls -> CallRecords]
    BY <1>23, <1>0, <2>1, CallTyped DEF StopEnds
  <2> QED
    BY <1>23, <2>2 DEF StopEnds
<1>24. CASE UNCHANGED vars
  BY <1>24 DEF vars
<1> QED
  BY <1>1, <1>2, <1>3, <1>4, <1>5, <1>6, <1>7, <1>8, <1>9, <1>10, <1>11,
     <1>12, <1>13, <1>14, <1>15, <1>18, <1>19, <1>20, <1>21, <1>22, <1>23,
     <1>24
     DEF Next, LoginStep, CallStep

\* Every variable keeps its type: promise jobs of any interleaving leave the
\* slots of WeixinInstalledChannelProvider well formed.
THEOREM TypeCorrect == Spec => []TypeOK
BY TypeInit, TypeNext, PTL DEF Spec

-----------------------------------------------------------------------------
(* What makes the slots of the provider enough to find every transport: a      *)
(* login under way holds both login slots; while it has not settled, the       *)
(* session slot is empty or its own; and a login that a logout superseded has  *)
(* been aborted.                                                               *)

SlotsHeld ==
    /\ \A l \in Logins : Underway(l) => loginTask = l /\ loginAbort = l
    /\ loginTask # None => Underway(loginTask)

SessionIsOwn ==
    \A l \in Logins :
        /\ Underway(l) => session \in {None, l}
        /\ login[l].pc \in {"code", "polling", "confirmed", "starting"} => session = None

SupersededIsAborted ==
    \A l \in Logins : Underway(l) /\ login[l].rev # revision => login[l].aborted = TRUE

IInv == /\ TypeOK /\ SlotsHeld /\ SessionIsOwn /\ SupersededIsAborted
        /\ NoOrphanTransport /\ RevokedSessionIsClosing

\* The invariant holds of a provider that nobody has started.
LEMMA InitIInv == Init => IInv
<1> SUFFICES ASSUME Init PROVE IInv
  OBVIOUS
<1>1. TypeOK
  BY TypeInit
<1>2. \A l \in Logins : login[l].pc = "idle" /\ transport[l] = "none"
  BY DEF Init, NoLogin
<1> QED
  BY <1>1, <1>2, NoneAssumption DEF Init, IInv, SlotsHeld, SessionIsOwn, SupersededIsAborted, Underway,
     NoOrphanTransport, RevokedSessionIsClosing

\* Every step keeps the invariant.
LEMMA NextIInv == IInv /\ [Next]_vars => IInv'
<1> SUFFICES ASSUME IInv, [Next]_vars PROVE IInv'
  OBVIOUS
<1>0. TypeOK'
  BY TypeNext DEF IInv
<1> DEFINE Kept == /\ SlotsHeld' /\ SessionIsOwn' /\ SupersededIsAborted'
                   /\ NoOrphanTransport' /\ RevokedSessionIsClosing'
<1> USE NoneAssumption
<1> USE DEF IInv, TypeOK, SlotsHeld, SessionIsOwn, SupersededIsAborted, Underway, Current,
        NoOrphanTransport, RevokedSessionIsClosing, host, slots, projection, Goto, Fail,
        Project, Dispose, Disconnect, LoginRecords, CallRecords
<1>1. ASSUME Start PROVE Kept
  BY <1>1 DEF Start
<1>2. ASSUME ReadExpired PROVE Kept
  BY <1>2 DEF ReadExpired
<1>3. ASSUME NEW l \in Logins, Login(l) PROVE Kept
  BY <1>3 DEF Login, OwnRevision, Connectable
<1>4. ASSUME NEW l \in Logins, QrCode(l) PROVE Kept
  BY <1>4 DEF QrCode
<1>5. ASSUME NEW l \in Logins, Scanned(l) PROVE Kept
  BY <1>5 DEF Scanned
<1>6. ASSUME NEW l \in Logins, Confirmed(l) PROVE Kept
  BY <1>6 DEF Confirmed
<1>7. ASSUME NEW l \in Logins, TimePasses(l) PROVE Kept
  BY <1>7 DEF TimePasses
<1>8. ASSUME NEW l \in Logins, LoginFails(l) PROVE Kept
  BY <1>8 DEF LoginFails
<1>9. ASSUME NEW l \in Logins, StartTransport(l) PROVE Kept
  BY <1>9 DEF StartTransport
<1>10. ASSUME NEW l \in Logins, AdoptTransport(l) PROVE Kept
  BY <1>10 DEF AdoptTransport
<1>11. ASSUME NEW l \in Logins, Discarded(l) PROVE Kept
  BY <1>11 DEF Discarded
<1>12. ASSUME NEW l \in Logins, LoginSettles(l) PROVE Kept
  BY <1>12 DEF LoginSettles
<1>13. ASSUME NEW l \in Logins, LoginCleared(l) PROVE Kept
  BY <1>13 DEF LoginCleared, Clears
<1>14. ASSUME NEW l \in Logins, ExternalAbort(l) PROVE Kept
  BY <1>14 DEF ExternalAbort
<1>15. ASSUME NEW l \in Logins, TransportStops(l) PROVE Kept
  BY <1>15 DEF TransportStops
<1>16. ASSUME NEW c \in Calls, NEW k \in {"logout", "stop"}, call[c].pc = "idle",
           Logout(c, k) PROVE Kept
  BY <1>16 DEF Logout, AwaitsLogin, DisposeSession
<1>17. ASSUME NEW c \in Calls, CallLogout(c) PROVE Kept
  BY <1>17, <1>16 DEF CallLogout
<1>18. ASSUME NEW c \in Calls, CallStop(c) PROVE Kept
  BY <1>18, <1>16 DEF CallStop
<1>19. ASSUME NEW c \in Calls, StopReturns(c) PROVE Kept
  BY <1>19 DEF StopReturns
<1>20. ASSUME NEW c \in Calls, LogoutAfterLogin(c) PROVE Kept
  BY <1>20 DEF LogoutAfterLogin, DisposeSession
<1>21. ASSUME NEW c \in Calls, LogoutEnds(c) PROVE Kept
  BY <1>21 DEF LogoutEnds
<1>22. ASSUME NEW c \in Calls, StopEnds(c) PROVE Kept
  BY <1>22 DEF StopEnds
<1>23. ASSUME UNCHANGED vars PROVE Kept
  BY <1>23 DEF vars
<1> HIDE DEF IInv, TypeOK
<1> QED
  BY <1>0, <1>1, <1>2, <1>3, <1>4, <1>5, <1>6, <1>7, <1>8, <1>9, <1>10,
     <1>11, <1>12, <1>13, <1>14, <1>15, <1>17, <1>18, <1>19, <1>20, <1>21,
     <1>22, <1>23
     DEF Next, LoginStep, CallStep, IInv

\* Whatever logins, logouts, stops and reattachments overlap, no transport runs
\* that the provider could not dispose (performLogin, disposeSession).
THEOREM NoOrphan == Spec => []NoOrphanTransport
<1>1. IInv => NoOrphanTransport
  BY DEF IInv
<1> QED
  BY InitIInv, NextIInv, <1>1, PTL DEF Spec

\* One login is under way and one transport runs at a time (loginWithQr).
THEOREM SingleConnection == Spec => []OneConnection
<1>1. IInv => OneConnection
  BY NoneAssumption DEF IInv, OneConnection, SlotsHeld, SessionIsOwn,
     NoOrphanTransport, Underway
<1> QED
  BY InitIInv, NextIInv, <1>1, PTL DEF Spec

\* A session that outlived its revision is being closed by a logout().
THEOREM RevokedIsClosing == Spec => []RevokedSessionIsClosing
<1>1. IInv => RevokedSessionIsClosing
  BY DEF IInv
<1> QED
  BY InitIInv, NextIInv, <1>1, PTL DEF Spec
-----------------------------------------------------------------------------
(* What makes the projection true once no logout() is on its way to correct it: *)
(* a login that was adopted is still the session when its handlers run; a login *)
(* that has settled shows no progress; and a logout() whose login has settled   *)
(* goes on before a newer login gets past its first request.                    *)

Progress == {"connecting", "qr_ready", "qr_scanned"}
Backed ==
    /\ state = "connected" => session # None
    /\ state \in Progress \/ qr # None => \E l \in Logins : Underway(l) /\ Current(l)
Closing == \E c \in Calls : call[c].pc \in {"login", "dispose"}

AdoptedIsHeld == \A l \in Logins : login[l].pc = "succeeded" => session = l

SettledIsShown ==
    \A l \in Logins :
        /\ login[l].rev <= revision
        /\ login[l].pc = "settled" /\ Current(l) => state \notin Progress /\ qr = None

LogoutGoesFirst ==
    \A c \in Calls : call[c].pc = "login" =>
        /\ call[c].awaits \in Logins
        /\ login[call[c].awaits].pc = "done" =>
             \A l \in Logins : Underway(l) => login[l].pc = "code"

ShownInv == (Closing \/ Backed) /\ AdoptedIsHeld /\ SettledIsShown /\ LogoutGoesFirst

\* Before anybody has started the provider it shows nothing.
LEMMA InitShown == Init => ShownInv
BY NoneAssumption DEF Init, NoLogin, NoCall, ShownInv, Closing, Backed, Progress, AdoptedIsHeld,
   SettledIsShown, LogoutGoesFirst, Underway, Current

\* A login that is past its first request when no promise job is due has no
\* logout() waiting for a login that has settled.
LEMMA NobodyGoesFirst ==
  ASSUME LogoutGoesFirst, Settled
  PROVE  \A c \in Calls : call[c].pc = "login" => login[call[c].awaits].pc # "done"
BY DEF LogoutGoesFirst, Settled, Released, InFlight

\* Every step keeps what is shown true.
LEMMA NextShown == IInv /\ ShownInv /\ [Next]_vars => ShownInv'
<1> SUFFICES ASSUME IInv, ShownInv, [Next]_vars PROVE ShownInv'
  OBVIOUS
<1> USE NoneAssumption, NobodyGoesFirst
<1> USE DEF IInv, TypeOK, SlotsHeld, SessionIsOwn, Underway, Current, ShownInv, Closing, Backed,
        Progress, AdoptedIsHeld, SettledIsShown, LogoutGoesFirst,
        host, slots, projection, Goto, Fail, Project, Dispose, Disconnect,
        LoginRecords, CallRecords
<1>1. CASE Start
  BY <1>1 DEF Start
<1>2. CASE ReadExpired
  BY <1>2 DEF ReadExpired
<1>3. ASSUME NEW l \in Logins, Login(l) PROVE ShownInv'
  BY <1>3 DEF Login, OwnRevision, Connectable
<1>4. ASSUME NEW l \in Logins, QrCode(l) PROVE ShownInv'
  <2>1. Closing' \/ Backed'
    BY <1>4 DEF QrCode
  <2>2. AdoptedIsHeld'
    BY <1>4 DEF QrCode
  <2>3. SettledIsShown'
    BY <1>4 DEF QrCode
  <2>4. LogoutGoesFirst'
    BY <1>4 DEF QrCode
  <2> QED
    BY <2>1, <2>2, <2>3, <2>4
<1>5. ASSUME NEW l \in Logins, Scanned(l) PROVE ShownInv'
  BY <1>5 DEF Scanned
<1>6. ASSUME NEW l \in Logins, Confirmed(l) PROVE ShownInv'
  BY <1>6 DEF Confirmed
<1>7. ASSUME NEW l \in Logins, TimePasses(l) PROVE ShownInv'
  BY <1>7 DEF TimePasses
<1>8. ASSUME NEW l \in Logins, LoginFails(l) PROVE ShownInv'
  <2>1. Closing' \/ Backed'
    BY <1>8 DEF LoginFails
  <2>2. AdoptedIsHeld'
    BY <1>8 DEF LoginFails
  <2>3. SettledIsShown'
    BY <1>8 DEF LoginFails
  <2>4. LogoutGoesFirst'
    BY <1>8 DEF LoginFails
  <2> QED
    BY <2>1, <2>2, <2>3, <2>4
<1>9. ASSUME NEW l \in Logins, StartTransport(l) PROVE ShownInv'
  <2>1. Closing' \/ Backed'
    BY <1>9 DEF StartTransport
  <2>2. AdoptedIsHeld'
    BY <1>9 DEF StartTransport
  <2>3. SettledIsShown'
    BY <1>9 DEF StartTransport
  <2>4. LogoutGoesFirst'
    BY <1>9 DEF StartTransport
  <2> QED
    BY <2>1, <2>2, <2>3, <2>4
<1>10. ASSUME NEW l \in Logins, AdoptTransport(l) PROVE ShownInv'
  <2>1. Closing' \/ Backed'
    BY <1>10 DEF AdoptTransport
  <2>2. AdoptedIsHeld'
    BY <1>10 DEF AdoptTransport
  <2>3. SettledIsShown'
    BY <1>10 DEF AdoptTransport
  <2>4. LogoutGoesFirst'
    BY <1>10 DEF AdoptTransport
  <2> QED
    BY <2>1, <2>2, <2>3, <2>4
<1>11. ASSUME NEW l \in Logins, Discarded(l) PROVE ShownInv'
  BY <1>11 DEF Discarded
<1>12. ASSUME NEW l \in Logins, LoginSettles(l) PROVE ShownInv'
  BY <1>12 DEF LoginSettles
<1>13. ASSUME NEW l \in Logins, LoginCleared(l) PROVE ShownInv'
  BY <1>13 DEF LoginCleared, Clears
<1>14. ASSUME NEW l \in Logins, ExternalAbort(l) PROVE ShownInv'
  BY <1>14 DEF ExternalAbort
<1>15. ASSUME NEW l \in Logins, TransportStops(l) PROVE ShownInv'
  BY <1>15 DEF TransportStops
<1>16. ASSUME NEW c \in Calls, NEW k \in {"logout", "stop"}, Logout(c, k) PROVE ShownInv'
  BY <1>16 DEF Logout, AwaitsLogin, DisposeSession
<1>17. ASSUME NEW c \in Calls, CallLogout(c) \/ CallStop(c) PROVE ShownInv'
  BY <1>16, <1>17 DEF CallLogout, CallStop
<1>18. ASSUME NEW c \in Calls, StopReturns(c) PROVE ShownInv'
  BY <1>18 DEF StopReturns
<1>19. ASSUME NEW c \in Calls, LogoutAfterLogin(c) PROVE ShownInv'
  BY <1>19 DEF LogoutAfterLogin, DisposeSession, Released
<1>20. ASSUME NEW c \in Calls, LogoutEnds(c) PROVE ShownInv'
  BY <1>20 DEF LogoutEnds
<1>21. ASSUME NEW c \in Calls, StopEnds(c) PROVE ShownInv'
  BY <1>21 DEF StopEnds
<1>22. CASE UNCHANGED vars
  BY <1>22 DEF vars
<1> HIDE DEF IInv, TypeOK, ShownInv
<1> QED
  BY <1>1, <1>2, <1>3, <1>4, <1>5, <1>6, <1>7, <1>8, <1>9, <1>10, <1>11, <1>12, <1>13, <1>14,
     <1>15, <1>17, <1>18, <1>19, <1>20, <1>21, <1>22
     DEF Next, LoginStep, CallStep

\* What the host is shown is true, or a logout() that will correct it has not
\* returned (projectConnected, readContribution), whatever logins, logouts, stops
\* and reattachments overlap, also when the host calls between two promise jobs.
THEOREM ShownIsBacked == Spec => []ProjectionIsBacked
<1>1. ShownInv => ProjectionIsBacked
  BY DEF ShownInv, Closing, Backed, Progress, ProjectionIsBacked, InFlight
<1> QED
  BY InitIInv, NextIInv, InitShown, NextShown, <1>1, PTL DEF Spec
=============================================================================
