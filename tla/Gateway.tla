------------------------------ MODULE Gateway ------------------------------
(***************************************************************************)
(* The HTTP side of the module: the clients' cookie jars, the guards in    *)
(* front of the handlers, the controllers and the event bus, and answers   *)
(* that arrive late, out of order or never.  What the use cases do to      *)
(* refresh sessions is taken from TokenLifecycle, which the service is     *)
(* shown to implement; a session is named by the request that opened it.   *)
(* The host application's own part is its event handlers and two routes of *)
(* its own behind OptionalAuthGuard.                                       *)
(***************************************************************************)
EXTENDS FiniteSets, Filtering

CONSTANTS
    Requests, Clients, Users, None,
    Endpoints,      \* the routes clients call, a subset of Routes
    Configurations, \* how the host sets up the module, a subset of Setups
    Handlers,       \* the functions the host subscribes to events ...
    Watched,        \* ... and the events it subscribes them to
    MaxSubs         \* bound on the subscriptions of an event (none in the code)

VARIABLES
    options,        \* this server's setup
    life, spent,    \* the refresh sessions, as TokenLifecycle has them
    grant,          \* the user the tokens signed by a request name
    torn,           \* history: requests whose save took place and then threw
    req, pc,        \* each request as the client sent it, and how far it is
    user,           \* request.user, set by the guards
    setCookie,      \* the response's refreshToken cookie: a session, "clear", None
    status,         \* the response's status
    running,        \* the event handlers it has called that have not settled
    handlers,       \* AuthEventBus.handlers
    jar, csrfJar    \* the refreshToken and csrf-token cookies of each client

sessions  == <<life, spent, grant, torn>>
exchange  == <<req, pc, user, setCookie, status, running>>
cookies   == <<jar, csrfJar>>
vars      == <<options, sessions, exchange, handlers, cookies>>

Tokens == INSTANCE TokenLifecycle

-----------------------------------------------------------------------------
(* The routes and their decorators.                                        *)

\* Two routes of the host behind OptionalAuthGuard, one of them also @Public.
Optional  == {"optional", "publicOptional"}
Public    == {"register", "login", "complete", "refresh", "forgot", "reset",
              "sendMagic", "verifyMagic", "health", "csrf", "publicOptional"}
\* @UseGuards(JwtAuthGuard)
WrongGuarded == {"setup", "verify2fa", "me"}
Guarded   == {"logout", "setup", "verify2fa", "me"}
Routes    == Public \cup Guarded \cup Optional
Safe      == {"me", "health", "csrf"} \cup Optional
Throttled == Routes \ ({"refresh", "health", "csrf"} \cup Optional)

\* The event a route emits when its use case is done.
EventOf == [login |-> "loggedIn", complete |-> "loggedIn", logout |-> "loggedOut",
            register |-> "registered", reset |-> "passwordReset",
            sendMagic |-> "magicLinkSent", verify2fa |-> "twoFactorEnabled"]
Events == {EventOf[e] : e \in DOMAIN EventOf}

\* csrf.enabled, globals.authGuard, rateLimit.enabled, healthCheck.enabled, and
\* whether the host calls setGlobalPrefix as the example applications do.
Setups == [csrf : BOOLEAN, authGuard : BOOLEAN, rateLimit : BOOLEAN,
           health : BOOLEAN, prefix : BOOLEAN]

\* The refresh cookie has path /auth/refresh: that is where it is sent, and
\* nowhere if the routes are under a prefix.
CookieApplies(e) == e = "refresh" /\ ~options.prefix

Jwt == [by : Requests, typ : {"access", "refresh"}]
Call == [client : Clients, endpoint : Endpoints, bearer : Jwt \cup {None},
         cookie : Requests \cup {None}, csrf : Requests \cup {None},
         echo : Requests \cup {None}, held : Requests \cup {None}]
Lives == {"unissued", "live", "used", "void"}

ASSUME HostAssumption ==
    Configurations \subseteq Setups /\ Watched \subseteq Events
ASSUME NoneAssumption ==
    None \notin Requests \cup Users \cup {"ok", "clear"} /\ "clear" \notin Requests

ServiceType ==
    /\ options \in Configurations
    /\ life \in [Requests -> Lives]
    /\ spent \in [Requests -> Requests \cup {None}]
    /\ grant \in [Requests -> Users \cup {None}]
    /\ torn \subseteq Requests
    /\ req \in [Requests -> Call \cup {None}]
    /\ pc \in [Requests -> {"idle", "sent", "handler", "rotate", "emit", "await",
                            "answered", "received", "lost"}]
    /\ user \in [Requests -> Users \cup {None}]
    /\ setCookie \in [Requests -> Requests \cup {"clear", None}]
    /\ status \in [Requests -> {None, "ok", "error"}]
    /\ running \in [Requests -> SUBSET Nat]
    /\ jar \in [Clients -> Requests \cup {None}]
    /\ csrfJar \in [Clients -> Requests \cup {None}]

TypeOK == ServiceType /\ handlers \in [Events -> Seq(Handlers)]

Init ==
    /\ options \in Configurations
    /\ Tokens!Init
    /\ grant = [r \in Requests |-> None]
    /\ torn = {}
    /\ req = [r \in Requests |-> None]
    /\ pc = [r \in Requests |-> "idle"]
    /\ user = [r \in Requests |-> None]
    /\ setCookie = [r \in Requests |-> None]
    /\ status = [r \in Requests |-> None]
    /\ running = [r \in Requests |-> {}]
    /\ handlers = [e \in Events |-> <<>>]
    /\ jar = [c \in Clients |-> None]
    /\ csrfJar = [c \in Clients |-> None]

-----------------------------------------------------------------------------
(* The client.                                                             *)

Received(c) == {q \in Requests : pc[q] = "received" /\ req[q].client = c}

\* The JWTs a client has got: access tokens in answers, refresh tokens in cookies.
JwtsOf(c) ==
    {[by |-> q, typ |-> "access"] :
        q \in {p \in Received(c) : status[p] = "ok" /\ grant[p] # None}}
    \cup {[by |-> q, typ |-> "refresh"] :
        q \in {p \in Received(c) : setCookie[p] = p}}

\* The tokens GET /auth/csrf answered it with, in any of its tabs.
CsrfTokensOf(c) == {q \in Received(c) : req[q].endpoint = "csrf" /\ status[q] = "ok"}

\* It calls a route, with or without a bearer token and a CSRF header; its
\* cookies are added by their paths.
Send(r) ==
    /\ pc[r] = "idle"
    /\ \E c \in Clients, e \in Endpoints :
       \E bearer \in JwtsOf(c) \cup {None}, echo \in CsrfTokensOf(c) \cup {None} :
          req' = [req EXCEPT ![r] =
                    [client |-> c, endpoint |-> e, bearer |-> bearer,
                     cookie |-> IF CookieApplies(e) THEN jar[c] ELSE None,
                     csrf |-> csrfJar[c], echo |-> echo, held |-> jar[c]]]
    /\ pc' = [pc EXCEPT ![r] = "sent"]
    /\ UNCHANGED <<options, sessions, user, setCookie, status, running,
                   handlers, cookies>>

\* The response arrives and its Set-Cookie is applied, whatever its status ...
Receive(r) ==
    /\ pc[r] = "answered"
    /\ pc' = [pc EXCEPT ![r] = "received"]
    /\ LET c == req[r].client IN
       /\ jar' = CASE setCookie[r] = None -> jar
                   [] setCookie[r] = "clear" -> [jar EXCEPT ![c] = None]
                   [] OTHER -> [jar EXCEPT ![c] = setCookie[r]]
       /\ csrfJar' = IF req[r].endpoint = "csrf" /\ status[r] = "ok"
                     THEN [csrfJar EXCEPT ![c] = r] ELSE csrfJar
    /\ UNCHANGED <<options, sessions, req, user, setCookie, status, running,
                   handlers>>

\* ... or never does.
Lose(r) ==
    /\ pc[r] = "answered"
    /\ pc' = [pc EXCEPT ![r] = "lost"]
    /\ UNCHANGED <<options, sessions, req, user, setCookie, status, running,
                   handlers, cookies>>

\* The refresh cookie's maxAge runs out.
Forget(c) ==
    /\ jar[c] # None
    /\ jar' = [jar EXCEPT ![c] = None]
    /\ UNCHANGED <<options, sessions, exchange, handlers, csrfJar>>

-----------------------------------------------------------------------------
(* The guards, in Nest's order: global ones, then the controller's, then   *)
(* the handler's.                                                          *)

\* JwtTokenService.verifyAccessToken: the signature under the access secret and
\* the typ claim.  When a token expires is left open (Refuse).
VerifyAccess(token) == token.typ = "access"

HasJwt(r) == req[r].bearer # None /\ VerifyAccess(req[r].bearer)

JwtAuthGuard(r)    == req[r].endpoint \in Public \/ HasJwt(r)
GlobalAuthGuard(r) == options.authGuard => JwtAuthGuard(r)
RouteGuard(r)      == req[r].endpoint \in Guarded => JwtAuthGuard(r)

CsrfGuard(r) ==
    ~options.csrf \/ req[r].endpoint \in Safe
    \/ (req[r].echo # None /\ req[r].echo = req[r].csrf)

\* @nestjs/throttler counts, and the clock runs: whom they turn away is open.
MayThrottle(r) == options.rateLimit /\ req[r].endpoint \in Throttled
MayExpire(r) ==
    req[r].endpoint \in Guarded \/ (options.authGuard /\ req[r].endpoint \notin Public)

\* request.user: set by whichever JwtAuthGuard runs on a route that is not
\* public; OptionalAuthGuard turns a refusal (an expired token) into no user.
Identify(r) ==
    IF /\ req[r].endpoint \notin Public /\ HasJwt(r)
       /\ options.authGuard \/ req[r].endpoint \in Guarded \cup Optional
    THEN {grant[req[r].bearer.by]} \cup IF MayExpire(r) THEN {} ELSE {None}
    ELSE {None}

Guards(r) == GlobalAuthGuard(r) /\ CsrfGuard(r) /\ RouteGuard(r)

WrongAdmit(r) ==
    /\ pc[r] = "sent" /\ Guards(r)
    /\ user' = [user EXCEPT ![r] = req[r].bearer]
    /\ pc' = [pc EXCEPT ![r] = "handler"]
    /\ UNCHANGED <<options, sessions, req, setCookie, status, running,
                   handlers, cookies>>
Admit(r) ==
    /\ pc[r] = "sent" /\ Guards(r)
    /\ \E u \in Identify(r) : user' = [user EXCEPT ![r] = u]
    /\ pc' = [pc EXCEPT ![r] = "handler"]
    /\ UNCHANGED <<options, sessions, req, setCookie, status, running,
                   handlers, cookies>>

\* The response is written; the cookie is what the handler has set so far.
Respond(r, result) ==
    /\ pc' = [pc EXCEPT ![r] = "answered"]
    /\ status' = [status EXCEPT ![r] = result]

Refuse(r) ==
    /\ pc[r] = "sent" /\ (~Guards(r) \/ MayThrottle(r) \/ MayExpire(r))
    /\ Respond(r, "error")
    /\ UNCHANGED <<options, sessions, req, user, setCookie, running,
                   handlers, cookies>>

-----------------------------------------------------------------------------
(* The controllers.                                                        *)

At(r, endpoints) == pc[r] = "handler" /\ req[r].endpoint \in endpoints

\* After the use case: emit, on the routes that do, then answer.
Conclude(r) ==
    IF req[r].endpoint \in DOMAIN EventOf
    THEN pc' = [pc EXCEPT ![r] = "emit"] /\ UNCHANGED status
    ELSE Respond(r, "ok")

\* setRefreshCookie.  (Wrong: only once the request has nothing left to await.)
WrongSetRefreshCookie(r) ==
    setCookie' = IF req[r].endpoint \in DOMAIN EventOf THEN setCookie
                 ELSE [setCookie EXCEPT ![r] = r]
SetRefreshCookie(r) == setCookie' = [setCookie EXCEPT ![r] = r]

\* The tokens of a new session are signed and its record saved, the last call of
\* the use case: the controller then sets the cookie, or the call throws although
\* the record is there.
Open(r, u) ==
    /\ Tokens!Issue(r)
    /\ grant' = [grant EXCEPT ![r] = u]
    /\ \/ SetRefreshCookie(r) /\ Conclude(r) /\ UNCHANGED torn
       \/ Respond(r, "error") /\ torn' = torn \cup {r} /\ UNCHANGED setCookie
    /\ UNCHANGED <<options, req, user, running, handlers, cookies>>

SignIn(r) ==
    /\ At(r, {"login", "complete", "verifyMagic"})
    /\ \E u \in Users : Open(r, u)

SessionsOf(u) == {q \in Requests : grant[q] = u}

\* POST /auth/refresh on a live session, which is spent before the new one is
\* opened; on a used one, which revokes them all; and on none.
Rotate(r) ==
    /\ At(r, {"refresh"}) /\ req[r].cookie # None
    /\ Tokens!Spend(r, req[r].cookie)
    /\ pc' = [pc EXCEPT ![r] = "rotate"]
    /\ UNCHANGED <<options, grant, torn, req, user, setCookie, status, running,
                   handlers, cookies>>

WrongRotated(r) ==
    /\ pc[r] = "rotate"
    /\ Tokens!Issue(r)
    /\ grant' = [grant EXCEPT ![r] = grant[req[r].cookie]]
    /\ Conclude(r)
    /\ UNCHANGED <<options, torn, req, user, setCookie, running, handlers, cookies>>
Rotated(r) ==
    /\ pc[r] = "rotate"
    /\ Open(r, grant[req[r].cookie])

Reuse(r) ==
    /\ At(r, {"refresh"}) /\ req[r].cookie # None
    /\ life[req[r].cookie] = "used"
    /\ Tokens!Void(SessionsOf(grant[req[r].cookie]))
    /\ Respond(r, "error")
    /\ UNCHANGED <<options, grant, torn, req, user, setCookie, running, handlers,
                   cookies>>

NoSession(r) ==
    /\ At(r, {"refresh"})
    /\ req[r].cookie # None => life[req[r].cookie] = "void"
    /\ Respond(r, "error")
    /\ UNCHANGED <<options, sessions, req, user, setCookie, running,
                   handlers, cookies>>

\* The session of the cookie, if one is sent, is spent and the cookie cleared, or
\* the call to the store throws.
Logout(r) ==
    /\ At(r, {"logout"})
    /\ IF req[r].cookie # None /\ life[req[r].cookie] = "live"
       THEN Tokens!Spend(r, req[r].cookie)
       ELSE UNCHANGED <<life, spent>>
    /\ \/ setCookie' = [setCookie EXCEPT ![r] = "clear"] /\ Conclude(r)
       \/ req[r].cookie # None /\ Respond(r, "error") /\ UNCHANGED setCookie
    /\ UNCHANGED <<options, grant, torn, req, user, running, handlers, cookies>>

\* POST /auth/reset-password revokes the sessions of the link's user.
Reset(r) ==
    /\ At(r, {"reset"})
    /\ \E u \in Users : Tokens!Void(SessionsOf(u))
    /\ Conclude(r) \/ Respond(r, "error")
    /\ UNCHANGED <<options, grant, torn, req, user, setCookie, running, handlers,
                   cookies>>

\* The other handlers do nothing to sessions.  Health answers 404 when disabled.
Serve(r) ==
    /\ At(r, {"register", "sendMagic", "forgot", "setup", "verify2fa", "me",
              "health", "csrf"} \cup Optional)
    /\ IF req[r].endpoint = "health" /\ ~options.health
       THEN Respond(r, "error") ELSE Conclude(r)
    /\ UNCHANGED <<options, sessions, req, user, setCookie, running,
                   handlers, cookies>>

\* An answer without a session or an event: a login that needs a second factor,
\* a magic link for nobody.
Decline(r) ==
    /\ At(r, {"login", "sendMagic"})
    /\ Respond(r, "ok")
    /\ UNCHANGED <<options, sessions, req, user, setCookie, running,
                   handlers, cookies>>

\* The use case throws, or the validation pipe before it; AuthExceptionFilter and
\* Nest turn it into an error answer.
Throw(r) ==
    /\ \/ At(r, Routes \ ({"me", "health", "csrf"} \cup Optional))
       \/ pc[r] = "rotate"
    /\ Respond(r, "error")
    /\ UNCHANGED <<options, sessions, req, user, setCookie, running,
                   handlers, cookies>>

-----------------------------------------------------------------------------
(* The event bus.                                                          *)

Subscribed(r) == handlers[EventOf[req[r].endpoint]]

\* emit calls the handlers one after the other without a pause, as they were
\* subscribed at that moment: the first n return a promise, and the next one, if
\* any, throws at once, so that the rest is not called.
EmitCalls(r) ==
    /\ pc[r] = "emit"
    /\ \E n \in 0..Len(Subscribed(r)) :
          /\ running' = [running EXCEPT ![r] = 1..n]
          /\ IF n < Len(Subscribed(r)) THEN Respond(r, "error")
             ELSE IF n = 0 THEN Respond(r, "ok")
             ELSE pc' = [pc EXCEPT ![r] = "await"] /\ UNCHANGED status
    /\ UNCHANGED <<options, sessions, req, user, setCookie, handlers, cookies>>

\* A handler is done.  Promise.all holds the answer until the last one is ...
WrongFulfil(r, i) ==
    /\ running' = [running EXCEPT ![r] = @ \ {i}]
    /\ IF pc[r] = "await" THEN Respond(r, "ok") ELSE UNCHANGED <<pc, status>>
    /\ UNCHANGED <<options, sessions, req, user, setCookie, handlers, cookies>>
Fulfil(r, i) ==
    /\ running' = [running EXCEPT ![r] = @ \ {i}]
    /\ IF pc[r] = "await" /\ running[r] = {i} THEN Respond(r, "ok")
       ELSE UNCHANGED <<pc, status>>
    /\ UNCHANGED <<options, sessions, req, user, setCookie, handlers, cookies>>

\* ... or until one fails; the others run on.
RejectPromise(r, i) ==
    /\ running' = [running EXCEPT ![r] = @ \ {i}]
    /\ IF pc[r] = "await" THEN Respond(r, "error") ELSE UNCHANGED <<pc, status>>
    /\ UNCHANGED <<options, sessions, req, user, setCookie, handlers, cookies>>

Settle(r) == \E i \in running[r] : Fulfil(r, i) \/ RejectPromise(r, i)

\* The host subscribes a function, once or several times, takes every
\* subscription of it back, or clears the bus.
On(e, h) ==
    /\ Len(handlers[e]) < MaxSubs
    /\ handlers' = [handlers EXCEPT ![e] = Append(@, h)]
    /\ UNCHANGED <<options, sessions, exchange, cookies>>

Off(e, h) ==
    /\ handlers' = [handlers EXCEPT ![e] = Only(@, Handlers \ {h})]
    /\ UNCHANGED <<options, sessions, exchange, cookies>>

RemoveAll ==
    /\ handlers' = [e \in Events |-> <<>>]
    /\ UNCHANGED <<options, sessions, exchange, cookies>>

-----------------------------------------------------------------------------
Next ==
    \/ \E r \in Requests :
          \/ Send(r) \/ Receive(r) \/ Lose(r)
          \/ Admit(r) \/ Refuse(r)
          \/ SignIn(r) \/ Rotate(r) \/ Rotated(r) \/ Reuse(r) \/ NoSession(r)
          \/ Logout(r) \/ Reset(r) \/ Serve(r) \/ Decline(r) \/ Throw(r)
          \/ EmitCalls(r) \/ Settle(r)
    \/ \E c \in Clients : Forget(c)
    \/ \E e \in Watched, h \in Handlers : On(e, h) \/ Off(e, h)
    \/ RemoveAll

Spec == Init /\ [][Next]_vars

-----------------------------------------------------------------------------
(* What holds.                                                             *)

\* Past the guards.
Running(r) == pc[r] \in {"handler", "rotate", "emit", "await"}

\* A session that a request has opened goes out with its answer, also if the
\* answer is an error because an event handler failed: the only sessions left in
\* the store that their clients were answered without are those whose save threw.
SessionReachesClient ==
    \A r \in Requests :
        pc[r] \in {"answered", "received", "lost"} /\ life[r] # "unissued"
            => IF r \in torn THEN status[r] = "error" ELSE setCookie[r] = r

\* A client goes on presenting a token it has used up only if it does not know
\* better: its refresh is not answered yet, or the answer was lost, or an error.
CookieFollowsSession ==
    \A c \in Clients :
        jar[c] # None /\ life[jar[c]] = "used" =>
            \E q \in Requests :
                /\ spent[q] = jar[c]
                /\ pc[q] # "received" \/ status[q] = "error"

\* A request is answered with success when every event handler it has called has
\* finished, whatever the host subscribes and unsubscribes in the meantime.
HandlersFinish ==
    \A r \in Requests : status[r] = "ok" => running[r] = {}

\* However the host sets up the guards, the handlers of the protected routes run
\* for a known user, the one to whom the client's access token was issued.
ProtectedRoutes ==
    \A r \in Requests : Running(r) /\ req[r].endpoint \in {"me", "logout", "setup", "verify2fa"} =>
        /\ user[r] # None
        /\ \E q \in Received(req[r].client) :
              /\ grant[q] = user[r]
              /\ req[r].bearer = [by |-> q, typ |-> "access"]

-----------------------------------------------------------------------------
(* What the documentation says that does not hold.                         *)

\* "Invalidate the refresh token in Keycloak and clear the cookie": once a client
\* is told that it is logged out, the session its cookie named is over.
LogoutEndsSession ==
    \A r \in Requests :
        /\ pc[r] = "received" /\ status[r] = "ok"
        /\ req[r].endpoint = "logout" /\ req[r].held # None
        => life[req[r].held] # "live"
=============================================================================
