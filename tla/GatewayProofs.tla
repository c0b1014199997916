--------------------------- MODULE GatewayProofs ---------------------------
(***************************************************************************)
(* What TLAPS proves of the HTTP side: the cookie jars keep in step with   *)
(* the sessions, and the guards and the event bus do what they should, for *)
(* any number of requests, clients, users and event handlers, and every    *)
(* way to configure the module.                                            *)
(***************************************************************************)
EXTENDS Gateway, FilteringProofs

Past(r) == pc[r] \in {"emit", "await", "answered", "received", "lost"}

-----------------------------------------------------------------------------
(* The invariant.                                                          *)

\* What a request carries its client had received by then.
Sending == \A r \in Requests : pc[r] # "idle" =>
    LET q == req[r] IN
    /\ q \in Call
    /\ q.bearer # None => q.bearer \in JwtsOf(q.client)
    /\ q.echo # None => q.echo \in CsrfTokensOf(q.client)
    /\ q.cookie # None =>
          /\ ~options.prefix /\ q.endpoint = "refresh"
          /\ pc[q.cookie] = "received" /\ req[q.cookie].client = q.client
          /\ setCookie[q.cookie] = q.cookie

\* A session has a user, and its cookie is set by the request that opened it,
\* unless the save threw.
Opened == \A r \in Requests :
    /\ life[r] = "unissued" <=> grant[r] = None
    /\ life[r] # "unissued" /\ r \notin torn <=> setCookie[r] = r
    /\ r \in torn => status[r] = "error" /\ pc[r] \in {"answered", "received", "lost"}
    /\ setCookie[r] \in {None, "clear", r}
    /\ setCookie[r] # None => Past(r)

\* A cookie in a jar came with an answer that this client received.
Jars == \A c \in Clients : jar[c] # None =>
    pc[jar[c]] = "received" /\ req[jar[c]].client = c /\ setCookie[jar[c]] = jar[c]

\* A used session was the cookie of a refresh; one that answered with success
\* set another cookie, which replaces the old one for good when it is received.
Uses ==
    /\ \A i \in Requests : life[i] = "used" => \E q \in Requests : spent[q] = i
    /\ \A q \in Requests : spent[q] # None =>
          /\ pc[q] = "rotate" \/ Past(q)
          /\ req[q].cookie = spent[q]
          /\ status[q] = "ok" \/ pc[q] \in {"emit", "await"} => setCookie[q] = q
          /\ pc[q] = "received" /\ status[q] = "ok" => jar[req[q].client] # spent[q]
    /\ \A q \in Requests : pc[q] = "rotate" => spent[q] # None

\* Success is answered only at the end, and handlers run only once called.
Statuses == \A r \in Requests :
    /\ pc[r] \in {"answered", "received", "lost"} => status[r] \in {"ok", "error"}
    /\ status[r] = "ok" => pc[r] \in {"answered", "received", "lost"} /\ running[r] = {}
    /\ pc[r] \in {"idle", "sent", "handler", "rotate", "emit"} => running[r] = {}

\* What the guards found stays so while the handler runs.
Admitted == \A r \in Requests : Running(r) => Guards(r) /\ user[r] \in Identify(r)

GInv == ServiceType /\ Sending /\ Opened /\ Jars /\ Uses /\ Statuses /\ Admitted

-----------------------------------------------------------------------------
USE NoneAssumption, HostAssumption
USE DEF sessions, exchange, cookies, vars, Past, Running

LEMMA Starts == ASSUME Init PROVE GInv
<1> USE DEF Init, Tokens!Init
<1>1. ServiceType BY DEF ServiceType, Lives
<1>2. Sending /\ Statuses /\ Jars /\ Admitted BY DEF Sending, Statuses, Jars, Admitted
<1>3. Opened /\ Uses BY DEF Opened, Uses
<1> QED BY <1>1, <1>2, <1>3 DEF GInv

\* The guards let a request in or turn it away.
LEMMA GuardSteps ==
    ASSUME GInv, NEW r \in Requests,
           Admit(r) \/ Refuse(r)
    PROVE  GInv'
<1> USE DEF Admit, Refuse, Respond
<1>1. ServiceType'
  BY DEF GInv, ServiceType, Lives, Sending, Call, Jwt, Identify, HasJwt,
     JwtsOf, Received
<1>2. Sending' /\ Opened' /\ Jars' /\ Uses'
  BY DEF GInv, ServiceType, Sending, Opened, Jars, Uses, Call, JwtsOf,
     CsrfTokensOf, Received
<1>3. Statuses' /\ Admitted'
  BY DEF GInv, ServiceType, Statuses, Admitted, Sending, Opened, Guards,
     Identify, HasJwt, VerifyAccess, JwtAuthGuard, GlobalAuthGuard,
     RouteGuard, CsrfGuard, MayExpire, JwtsOf, Received, Call, Jwt
<1> QED BY <1>1, <1>2, <1>3 DEF GInv

\* Handlers that leave sessions and cookies as they are.
LEMMA PlainSteps ==
    ASSUME GInv, NEW r \in Requests,
           NoSession(r) \/ Serve(r) \/ Decline(r) \/ Throw(r)
    PROVE  GInv'
<1> USE DEF NoSession, At, Respond, Serve, Conclude, EventOf, Decline, Throw
<1>1. ServiceType'
  BY DEF GInv, ServiceType, Lives
<1>2. Sending' /\ Jars'
  BY DEF GInv, ServiceType, Sending, Opened, Jars, Uses, Call, JwtsOf,
     CsrfTokensOf, Received
<1>3. Opened'
  BY DEF GInv, ServiceType, Lives, Sending, Opened, Call
<1>4. Uses'
  BY DEF GInv, ServiceType, Lives, Uses
<1>5. Statuses' /\ Admitted'
  BY DEF GInv, ServiceType, Statuses, Admitted, Sending, Opened, Guards,
     Identify, HasJwt, VerifyAccess, JwtAuthGuard, GlobalAuthGuard,
     RouteGuard, CsrfGuard, MayExpire, JwtsOf, Received, Call, Jwt
<1> QED BY <1>1, <1>2, <1>3, <1>4, <1>5 DEF GInv

\* The event bus.
LEMMA BusSteps ==
    ASSUME GInv, NEW r \in Requests,
           EmitCalls(r) \/ Settle(r)
    PROVE  GInv'
<1> USE DEF EmitCalls, Respond, Settle, Fulfil, RejectPromise
<1>1. ServiceType'
  BY DEF GInv, ServiceType, Lives
<1>2. Sending' /\ Opened' /\ Jars' /\ Uses'
  BY DEF GInv, ServiceType, Sending, Opened, Jars, Uses, Call, JwtsOf,
     CsrfTokensOf, Received
<1>3. Statuses' /\ Admitted'
  BY DEF GInv, ServiceType, Statuses, Admitted, Sending, Opened, Guards,
     Identify, HasJwt, VerifyAccess, JwtAuthGuard, GlobalAuthGuard,
     RouteGuard, CsrfGuard, MayExpire, JwtsOf, Received, Call, Jwt
<1> QED BY <1>1, <1>2, <1>3 DEF GInv

\* Revocations.
LEMMA VoidSteps ==
    ASSUME GInv, NEW r \in Requests,
           Reuse(r) \/ Reset(r)
    PROVE  GInv'
<1> USE DEF Reuse, At, Respond, Tokens!Void, SessionsOf, Reset, Conclude,
       EventOf
<1>1. ServiceType'
  BY DEF GInv, ServiceType, Lives
<1>2. Sending' /\ Jars'
  BY DEF GInv, ServiceType, Sending, Opened, Jars, Uses, Call, JwtsOf,
     CsrfTokensOf, Received
<1>3. Opened'
  BY DEF GInv, ServiceType, Lives, Sending, Opened, Call
<1>4. Uses'
  BY DEF GInv, ServiceType, Lives, Uses
<1>5. Statuses' /\ Admitted'
  BY DEF GInv, ServiceType, Statuses, Admitted, Sending, Opened, Guards,
     Identify, HasJwt, VerifyAccess, JwtAuthGuard, GlobalAuthGuard,
     RouteGuard, CsrfGuard, MayExpire, JwtsOf, Received, Call, Jwt
<1> QED BY <1>1, <1>2, <1>3, <1>4, <1>5 DEF GInv

\* Logout, which no cookie reaches.
LEMMA LogoutStep ==
    ASSUME GInv, NEW r \in Requests,
           Logout(r)
    PROVE  GInv'
<1> USE DEF Logout, At, Conclude, Respond, EventOf, Tokens!Spend
<1>1. ServiceType'
  BY DEF GInv, ServiceType, Lives, Sending, Call, Jwt, Identify, HasJwt,
     JwtsOf, Received
<1>2. Sending' /\ Opened' /\ Jars' /\ Uses'
  BY DEF GInv, ServiceType, Sending, Opened, Jars, Uses, Call, JwtsOf,
     CsrfTokensOf, Received
<1>3. Statuses'
  BY DEF GInv, ServiceType, Statuses
<1>4. Admitted'
  BY DEF GInv, ServiceType, Admitted, Sending, Opened, Guards, Identify,
     HasJwt, VerifyAccess, JwtAuthGuard, GlobalAuthGuard, RouteGuard,
     CsrfGuard, MayExpire, JwtsOf, Received, Call, Jwt
<1> QED BY <1>1, <1>2, <1>3, <1>4 DEF GInv

\* Sessions that are opened.
LEMMA SignInStep ==
    ASSUME GInv, NEW r \in Requests,
           SignIn(r)
    PROVE  GInv'
<1> USE DEF SignIn, At, Open, SetRefreshCookie, Conclude, Respond,
       Tokens!Issue, EventOf
<1>1. ServiceType'
  BY DEF GInv, ServiceType, Lives
<1>2. Sending' /\ Opened' /\ Jars' /\ Uses'
  BY DEF GInv, ServiceType, Sending, Opened, Jars, Uses, Call, JwtsOf,
     CsrfTokensOf, Received
<1>3. Statuses'
  BY DEF GInv, ServiceType, Statuses
<1>4. Admitted'
  BY DEF GInv, ServiceType, Admitted, Sending, Opened, Guards, Identify,
     HasJwt, VerifyAccess, JwtAuthGuard, GlobalAuthGuard, RouteGuard,
     CsrfGuard, MayExpire, JwtsOf, Received, Call, Jwt
<1> QED BY <1>1, <1>2, <1>3, <1>4 DEF GInv

\* Answers that arrive and answers that do not.
LEMMA AnswerSteps ==
    ASSUME GInv, NEW r \in Requests,
           Receive(r) \/ Lose(r)
    PROVE  GInv'
<1> USE DEF Receive, Lose
<1>1. ServiceType'
  BY DEF GInv, ServiceType, Lives
<1>2. Sending' /\ Opened' /\ Jars' /\ Uses'
  BY DEF GInv, ServiceType, Sending, Opened, Jars, Uses, Call, JwtsOf,
     CsrfTokensOf, Received
<1>3. Statuses' /\ Admitted'
  BY DEF GInv, ServiceType, Statuses, Admitted, Sending, Opened, Guards,
     Identify, HasJwt, VerifyAccess, JwtAuthGuard, GlobalAuthGuard,
     RouteGuard, CsrfGuard, MayExpire, JwtsOf, Received, Call, Jwt
<1> QED BY <1>1, <1>2, <1>3 DEF GInv


\* What a request carries is what its client had when it sent it.
LEMMA SendStep ==
    ASSUME GInv, NEW r \in Requests, Send(r)
    PROVE  GInv'
<1> USE DEF Send, CookieApplies
<1>1. req'[r] \in Call /\ req' = [req EXCEPT ![r] = req'[r]]
  BY DEF GInv, ServiceType, Call, JwtsOf, Jwt, CsrfTokensOf, Received
<1>2. ServiceType'
  BY <1>1 DEF GInv, ServiceType, Lives
<1>3. \A c \in Clients : Received(c)' = Received(c)
  BY DEF GInv, ServiceType, Received
<1>4. Sending'
  <2>1. ASSUME NEW q \in Requests, q # r, pc[q] # "idle"
        PROVE  req'[q] = req[q] /\ pc'[q] = pc[q]
    BY <2>1 DEF GInv, ServiceType
  <2>2. req'[r].cookie # None =>
          /\ ~options.prefix /\ req'[r].endpoint = "refresh"
          /\ req'[r].cookie = jar[req'[r].client]
    BY DEF GInv, ServiceType
  <2>3. \A c \in Clients : JwtsOf(c)' = JwtsOf(c) /\ CsrfTokensOf(c)' = CsrfTokensOf(c)
    BY <1>3 DEF GInv, ServiceType, JwtsOf, CsrfTokensOf, Received
  <2>4. /\ req'[r].bearer # None => req'[r].bearer \in JwtsOf(req'[r].client)
        /\ req'[r].echo # None => req'[r].echo \in CsrfTokensOf(req'[r].client)
    BY DEF GInv, ServiceType
  <2> QED
    BY <1>1, <2>1, <2>2, <2>3, <2>4 DEF GInv, ServiceType, Sending, Jars, Call
<1>5. Opened' /\ Jars' /\ Uses'
  BY DEF GInv, ServiceType, Opened, Jars, Uses, Sending
<1>6. Statuses' /\ Admitted'
  BY DEF GInv, ServiceType, Statuses, Admitted, Guards, Identify, HasJwt, VerifyAccess,
     JwtAuthGuard, GlobalAuthGuard, RouteGuard, CsrfGuard, MayExpire
<1> QED BY <1>2, <1>4, <1>5, <1>6 DEF GInv

\* A refresh spends the session of its cookie ...
LEMMA RotateStep ==
    ASSUME GInv, NEW r \in Requests, Rotate(r)
    PROVE  GInv'
<1> USE DEF Rotate, At, Tokens!Spend
<1>1. req[r].cookie \in Requests
  BY DEF GInv, ServiceType, Sending, Call
<1>2. ServiceType'
  BY <1>1 DEF GInv, ServiceType, Lives
<1>3. Sending' /\ Opened' /\ Jars'
  BY <1>1 DEF GInv, ServiceType, Lives, Sending, Opened, Jars, JwtsOf, CsrfTokensOf, Received
<1>4. Uses'
  <2>1. \A i \in Requests : life'[i] = "used" => \E q \in Requests : spent'[q] = i
    BY <1>1 DEF GInv, ServiceType, Uses
  <2> QED BY <1>1, <2>1 DEF GInv, ServiceType, Uses, Statuses
<1>5. Statuses' /\ Admitted'
  BY DEF GInv, ServiceType, Statuses, Admitted, Guards, Identify, HasJwt, VerifyAccess,
     JwtAuthGuard, GlobalAuthGuard, RouteGuard, CsrfGuard, MayExpire
<1> QED BY <1>2, <1>3, <1>4, <1>5 DEF GInv

\* ... and opens another for the same user.
LEMMA RotatedStep ==
    ASSUME GInv, NEW r \in Requests, Rotated(r)
    PROVE  GInv'
<1> USE DEF Rotated, Open, SetRefreshCookie, Tokens!Issue
<1>1. req[r].cookie \in Requests /\ grant[req[r].cookie] \in Users
  BY DEF GInv, ServiceType, Sending, Opened, Uses, Call
<1>2. /\ pc' = [pc EXCEPT ![r] = pc'[r]] /\ pc'[r] \in {"emit", "answered"}
      /\ status' = [status EXCEPT ![r] = status'[r]]
      /\ \/ pc'[r] = "emit" /\ status'[r] = status[r]
         \/ pc'[r] = "answered" /\ status'[r] \in {"ok", "error"}
      /\ \/ setCookie' = [setCookie EXCEPT ![r] = r] /\ torn' = torn
         \/ /\ pc'[r] = "answered" /\ status'[r] = "error"
            /\ setCookie' = setCookie /\ torn' = torn \cup {r}
  <2>1. CASE SetRefreshCookie(r) /\ Conclude(r) /\ UNCHANGED torn
    <3>1. CASE req[r].endpoint \in DOMAIN EventOf
      BY <2>1, <3>1 DEF GInv, ServiceType, Conclude
    <3>2. CASE req[r].endpoint \notin DOMAIN EventOf
      BY <2>1, <3>2 DEF GInv, ServiceType, Conclude, Respond
    <3> QED BY <3>1, <3>2
  <2>2. CASE Respond(r, "error") /\ torn' = torn \cup {r} /\ UNCHANGED setCookie
    BY <2>2 DEF GInv, ServiceType, Respond
  <2> QED BY <2>1, <2>2
<1>3. ServiceType'
  BY <1>1, <1>2 DEF GInv, ServiceType, Lives
<1>4. Sending' /\ Jars'
  BY <1>2 DEF GInv, ServiceType, Sending, Opened, Jars, Call, JwtsOf, CsrfTokensOf, Received
<1>5. Opened'
  BY <1>1, <1>2 DEF GInv, ServiceType, Opened
<1>6. Uses'
  BY <1>1, <1>2 DEF GInv, ServiceType, Sending, Opened, Jars, Uses, Call
<1>7. Statuses'
  BY <1>2 DEF GInv, ServiceType, Statuses
<1>8. Admitted'
  BY <1>2 DEF GInv, ServiceType, Admitted, Sending, Opened, Guards, Identify, HasJwt,
     VerifyAccess, JwtAuthGuard, GlobalAuthGuard, RouteGuard, CsrfGuard, MayExpire,
     JwtsOf, Received, Call, Jwt
<1> QED BY <1>3, <1>4, <1>5, <1>6, <1>7, <1>8 DEF GInv

\* Subscriptions, cookies that run out, and nothing at all.
LEMMA QuietSteps ==
    ASSUME GInv,
           \/ \E c \in Clients : Forget(c)
           \/ \E e \in Watched, h \in Handlers : On(e, h) \/ Off(e, h)
           \/ RemoveAll
           \/ UNCHANGED vars
    PROVE  GInv'
<1>1. /\ UNCHANGED <<options, sessions, exchange, csrfJar>>
      /\ jar' = jar \/ \E c \in Clients : jar' = [jar EXCEPT ![c] = None]
  BY DEF Forget, On, Off, RemoveAll
<1>2. ServiceType' /\ Statuses'
  BY <1>1 DEF GInv, ServiceType, Statuses
<1>3. Sending' /\ Opened'
  BY <1>1 DEF GInv, Sending, Opened, JwtsOf, CsrfTokensOf, Received
<1>4. Jars' /\ Uses'
  BY <1>1 DEF GInv, ServiceType, Sending, Jars, Uses, Call
<1>5. Admitted'
  BY <1>1 DEF GInv, Admitted, Guards, Identify, HasJwt, VerifyAccess, JwtAuthGuard,
     GlobalAuthGuard, RouteGuard, CsrfGuard, MayExpire
<1> QED BY <1>2, <1>3, <1>4, <1>5 DEF GInv

\* The invariant is kept by every step of clients, server and host.
THEOREM GatewayInvariant == Spec => []GInv
<1>1. GInv /\ [Next]_vars => GInv'
  BY GuardSteps, PlainSteps, BusSteps, VoidSteps, LogoutStep, SignInStep, AnswerSteps,
     SendStep, RotateStep, RotatedStep, QuietSteps DEF Next
<1> QED BY Starts, <1>1, PTL DEF Spec

\* The bus holds functions the host subscribed: what off leaves is a list of them.
LEMMA BusChanges ==
    ASSUME TypeOK, NEW e \in Watched, NEW h \in Handlers, On(e, h) \/ Off(e, h)
    PROVE  handlers' \in [Events -> Seq(Handlers)]
<1>1. e \in Events /\ handlers[e] \in Seq(Handlers)
  BY DEF TypeOK
<1>2. Only(handlers[e], Handlers \ {h}) \in Seq(Handlers)
  <2>1. Only(handlers[e], Handlers \ {h}) \in Seq(Handlers \cap (Handlers \ {h}))
    BY <1>1, OnlyType
  <2> QED BY <2>1
<1>3. CASE On(e, h)
  BY <1>1, <1>3 DEF On, TypeOK
<1>4. CASE Off(e, h)
  BY <1>1, <1>2, <1>4 DEF Off, TypeOK
<1> QED BY <1>3, <1>4

\* Every variable has the values the module names; the event bus, too.
THEOREM TypeCorrect == Spec => []TypeOK
<1>1. Init => TypeOK
  <2> SUFFICES ASSUME Init PROVE TypeOK
    OBVIOUS
  <2>1. <<>> \in Seq(Handlers)
    OBVIOUS
  <2> QED BY <2>1, Starts DEF GInv, TypeOK, Init
<1>2. GInv' /\ TypeOK /\ [Next]_vars => TypeOK'
  <2> SUFFICES ASSUME GInv', TypeOK, [Next]_vars
               PROVE  handlers' \in [Events -> Seq(Handlers)]
    BY DEF GInv, TypeOK
  <2>1. ASSUME NEW e \in Watched, NEW h \in Handlers, On(e, h) \/ Off(e, h)
        PROVE  handlers' \in [Events -> Seq(Handlers)]
    BY <2>1, BusChanges
  <2>2. CASE RemoveAll
    <3>1. <<>> \in Seq(Handlers)
      OBVIOUS
    <3> QED BY <2>2, <3>1 DEF RemoveAll
  <2>3. CASE \E r \in Requests :
               \/ Send(r) \/ Receive(r) \/ Lose(r)
               \/ Admit(r) \/ Refuse(r)
               \/ SignIn(r) \/ Rotate(r) \/ Rotated(r) \/ Reuse(r) \/ NoSession(r)
               \/ Logout(r) \/ Reset(r) \/ Serve(r) \/ Decline(r) \/ Throw(r)
               \/ EmitCalls(r) \/ Settle(r)
    <3>1. UNCHANGED handlers
      BY <2>3 DEF Send, Receive, Lose, Admit, Refuse, SignIn, Rotate, Rotated, Open,
         Reuse, NoSession, Logout, Reset, Serve, Decline, Throw, EmitCalls, Settle,
         Fulfil, RejectPromise
    <3> QED BY <3>1 DEF TypeOK
  <2>4. CASE (\E c \in Clients : Forget(c)) \/ UNCHANGED vars
    BY <2>4 DEF Forget, TypeOK
  <2> QED BY <2>1, <2>2, <2>3, <2>4 DEF Next
<1> QED BY GatewayInvariant, <1>1, <1>2, PTL DEF Spec

-----------------------------------------------------------------------------
(* What follows from it.                                                   *)

\* A session's cookie goes out with the answer, whatever the event handlers do; only
\* a save that threw leaves a session without one, and its answer is an error.
THEOREM SessionsReachClients == Spec => []SessionReachesClient
<1>1. GInv => SessionReachesClient
  BY DEF GInv, Opened, SessionReachesClient
<1> QED BY GatewayInvariant, <1>1, PTL

\* A client presents a used-up token only while the refresh that used it up is
\* unanswered, or if its answer was lost or an error.
THEOREM CookiesFollow == Spec => []CookieFollowsSession
<1>1. GInv => CookieFollowsSession
  <2> SUFFICES ASSUME GInv, NEW c \in Clients, jar[c] # None, life[jar[c]] = "used"
               PROVE  \E q \in Requests :
                         spent[q] = jar[c] /\ (pc[q] # "received" \/ status[q] = "error")
    BY DEF CookieFollowsSession
  <2>1. jar[c] \in Requests /\ req[jar[c]].client = c
    BY DEF GInv, ServiceType, Jars
  <2>2. PICK q \in Requests : spent[q] = jar[c]
    BY <2>1 DEF GInv, Uses
  <2>3. /\ req[q].cookie = jar[c] /\ pc[q] # "idle"
        /\ pc[q] = "received" /\ status[q] = "ok" => jar[req[q].client] # jar[c]
    BY <2>1, <2>2 DEF GInv, Uses
  <2>4. req[q].client = c
    BY <2>1, <2>3 DEF GInv, Sending
  <2>5. pc[q] = "received" => status[q] \in {"ok", "error"}
    BY DEF GInv, Statuses
  <2> QED BY <2>2, <2>3, <2>4, <2>5 DEF GInv, ServiceType
<1> QED BY GatewayInvariant, <1>1, PTL

\* An answer of success, though not every error, has waited for every event handler
\* that was called.
THEOREM SuccessAwaitsHandlers == Spec => []HandlersFinish
<1>1. GInv => HandlersFinish
  BY DEF GInv, Statuses, HandlersFinish
<1> QED BY GatewayInvariant, <1>1, PTL

\* The protected handlers run for the user of an access token of this client.
THEOREM RoutesAreProtected == Spec => []ProtectedRoutes
<1>1. GInv => ProtectedRoutes
  <2> SUFFICES ASSUME GInv, NEW r \in Requests, Running(r),
                      req[r].endpoint \in {"me", "logout", "setup", "verify2fa"}
               PROVE  /\ user[r] # None
                      /\ \E q \in Received(req[r].client) :
                            /\ grant[q] = user[r]
                            /\ req[r].bearer = [by |-> q, typ |-> "access"]
    BY DEF ProtectedRoutes
  <2>1. req[r].endpoint \in Guarded /\ req[r].endpoint \notin Public
    BY DEF Guarded, Public
  <2>2. HasJwt(r) /\ user[r] = grant[req[r].bearer.by]
    BY <2>1 DEF GInv, Admitted, Guards, RouteGuard, JwtAuthGuard, Identify, MayExpire
  <2>3. req[r].bearer \in JwtsOf(req[r].client) /\ req[r].bearer.typ = "access"
    BY <2>2 DEF GInv, Sending, HasJwt, VerifyAccess
  <2>4. PICK q \in Received(req[r].client) :
          grant[q] # None /\ req[r].bearer = [by |-> q, typ |-> "access"]
    BY <2>3 DEF JwtsOf
  <2> QED BY <2>2, <2>4
<1> QED BY GatewayInvariant, <1>1, PTL
=============================================================================
