------------------------------ MODULE AuthState ------------------------------
(***************************************************************************)
(* The state the use cases of packages/auth share, and the frame of a      *)
(* request.  Node runs one handler at a time and switches at each await,   *)
(* so every action is the code between two awaits, with the store or       *)
(* Keycloak call it awaits: a request is a process and pc[r] names the     *)
(* call it makes next.  A call that only looks up a user in Keycloak       *)
(* changes nothing here and has no step of its own.  A request is served   *)
(* once: its terminal label and its locals stay as a record of what        *)
(* happened.                                                               *)
(***************************************************************************)
EXTENDS TokenStore, FiniteSets

CONSTANTS
    Endpoints,      \* the endpoints clients call, a subset of the names below
    MaxFailed,      \* loginOptions.maxFailedAttempts
    Lockout,        \* lockoutDurationMs, in seconds
    AccessTtl,      \* jwt.accessToken.expiresIn
    RefreshTtl,     \* jwt.refreshToken.expiresIn: the JWT's and the record's
    PreAuthTtl,     \* life of a pre-auth token
    LinkTtl,        \* life of a reset or magic link
    Volatile,       \* whether the token store lives in the server's memory
    MaxNow          \* bound on the clock (no bound of the code)

ASSUME TtlAssumption ==
    /\ MaxFailed \in Nat
    /\ Lockout \in Nat /\ AccessTtl \in Nat /\ RefreshTtl \in Nat
    /\ PreAuthTtl \in Nat /\ LinkTtl \in Nat
    /\ Volatile \in BOOLEAN

VARIABLES
    \* What the store keeps per user (saveUserData), and Keycloak's password.
    totp,           \* the TOTP secret in force, named by the setup request, or by
                    \* its user if it was there before the first one; or None
    failed,         \* login_failed: the counter of failed attempts
    locked,         \* login_locked: the end of the lockout, or None
    password,       \* Keycloak: how often the password has been reset
    \* The locals of each request.
    pc,             \* its next step, or how it ended
    subject,        \* the user it acts for, None until known
    found,          \* the record its token resolved to, None until found
    issued,         \* the token it generated or signed, None before
    count,          \* the attempt number a failing login computed
    \* History, read by no action.
    spent,          \* the record this request marked consumed, or None
    proof,          \* the password version in force at the proof of identity
    factor,         \* the TOTP secret in force when the request came in
    overlap,        \* requests in flight at a revocation of their user's
                    \* tokens, and what is derived from their sessions
    racing          \* logins in flight when their account was locked, and
                    \* set-ups in flight when their user got a TOTP secret

account == <<totp, failed, locked, password>>
locals  == <<subject, found, issued, count>>
history == <<spent, proof, factor, overlap, racing>>
vars    == <<now, tokens, account, pc, locals, history>>

Maybe(S) == S \cup {None}

\* A login that has read the lock and let itself in.
LoggingIn == {
    "login.unlock", "login.forget", "login.authenticate", "login.count",
    "login.record", "login.lock", "login.reset", "login.release",
    "login.branch", "login.challenge", "login.save"}

\* Labels of a request that is waiting for a call to return.
Awaiting == LoggingIn \cup {
    "complete.verify", "complete.consume", "complete.issue", "complete.save",
    "setup.save", "setup.qrcode",
    "refresh.consume", "refresh.revoke", "refresh.verify", "refresh.issue",
    "refresh.save",
    "logout.consume",
    "forgot.save", "forgot.send", "send.save", "send.send",
    "reset.consume", "reset.change", "reset.revoke",
    "verify.consume", "verify.issue", "verify.save"}

\* Terminal labels of requests that answered with a session (access and
\* refresh token), or got some other secret to the user.
SessionEnds == {"login.done", "complete.done", "refresh.done", "verify.done"}
SecretEnds  == SessionEnds \cup {"login.challenged", "forgot.done", "send.done"}
Ends == SecretEnds \cup {
    "orphaned",         \* its session is saved, its answer an error all the same
    "refresh.orphaned", \* so is this one's, of a refresh
    "rejected",         \* turned away, or nothing left to do
    "login.denied",     \* wrong password, counted
    "refresh.reuse",    \* token reuse reported, all tokens revoked
    "logout.done", "setup.done", "reset.done",
    "reset.halfway",    \* the password changed, the revocation failed
    "failed"}           \* Keycloak, the database or the process failed

Attempts == [count : Nat, at : Nat]

TypeOK ==
    /\ now \in Nat
    /\ TokensType
    /\ totp \in [Users -> Maybe(Requests \cup Users)]
    /\ failed \in [Users -> Attempts]
    /\ locked \in [Users -> Maybe(Nat)]
    /\ password \in [Users -> Nat]
    /\ pc \in [Requests -> {"idle"} \cup Awaiting \cup Ends]
    /\ subject \in [Requests -> Maybe(Users)]
    /\ found \in [Requests -> Maybe(Requests)]
    /\ issued \in [Requests -> Maybe(Token)]
    /\ count \in [Requests -> Nat]
    /\ spent \in [Requests -> Maybe(Requests)]
    /\ proof \in [Requests -> Nat]
    /\ factor \in [Requests -> Maybe(Requests \cup Users)]
    /\ overlap \in SUBSET Requests
    /\ racing \in SUBSET Requests

Init ==
    /\ now = 0
    /\ tokens = [i \in Requests |-> None]
    /\ \E enrolled \in SUBSET Users :
          totp = [u \in Users |-> IF u \in enrolled THEN u ELSE None]
    /\ failed = [u \in Users |-> [count |-> 0, at |-> 0]]
    /\ locked = [u \in Users |-> None]
    /\ password = [u \in Users |-> 0]
    /\ pc = [r \in Requests |-> "idle"]
    /\ subject = [r \in Requests |-> None]
    /\ found = [r \in Requests |-> None]
    /\ issued = [r \in Requests |-> None]
    /\ count = [r \in Requests |-> 0]
    /\ spent = [r \in Requests |-> None]
    /\ proof = [r \in Requests |-> 0]
    /\ factor = [r \in Requests |-> None]
    /\ overlap = {}
    /\ racing = {}

-----------------------------------------------------------------------------
(***************************************************************************)
(* The frame of a request.                                                 *)
(***************************************************************************)
Goto(r, label) == pc' = [pc EXCEPT ![r] = label]

\* A request to an endpoint comes in.
Arrive(r, endpoint) == endpoint \in Endpoints /\ pc[r] = "idle"

\* The secrets users hold: returned in an answer or sent by e-mail.  Any of
\* them may be presented at any endpoint, any number of times.
Holding == {issued[q] : q \in {x \in Requests : pc[x] \in SecretEnds}}

\* The guard of a protected endpoint checks the access JWT alone: any access
\* token that has not expired.  One is answered with every refresh token.
HasAccess(user) ==
    \E q \in Requests :
        /\ pc[q] \in SessionEnds
        /\ subject[q] = user
        /\ now < issued[q].iat + AccessTtl

\* The request acts on stored record i: for its user, on the authority of
\* whoever obtained the record.
Adopt(r, i) ==
    /\ subject' = [subject EXCEPT ![r] = tokens[i].user]
    /\ found' = [found EXCEPT ![r] = i]
    /\ proof' = [proof EXCEPT ![r] = proof[i]]
    /\ factor' = [factor EXCEPT ![r] = totp[tokens[i].user]]
    /\ overlap' = IF i \in overlap THEN overlap \cup {r} ELSE overlap
    /\ UNCHANGED racing

\* The token a request presents resolves to an unconsumed, unexpired record.
Claim(r, type, label) ==
    /\ \E t \in Holding : \E i \in FindByToken(t, type) :
          /\ ~tokens[i].consumed
          /\ MaybeFresh(i)
          /\ Adopt(r, i)
    /\ Goto(r, label)
    /\ UNCHANGED <<now, tokens, account, issued, count, spent>>

\* It resolves to a consumed record.
ClaimUsed(r, type, label) ==
    /\ \E t \in Holding : \E i \in FindByToken(t, type) :
          tokens[i].consumed /\ Adopt(r, i)
    /\ Goto(r, label)
    /\ UNCHANGED <<now, tokens, account, issued, count, spent>>

\* The request is turned away without effect.
Reject(r) ==
    /\ Goto(r, "rejected")
    /\ UNCHANGED <<now, tokens, account, locals, history>>

RefuseUnknown(r, type) ==
    (\E t \in Holding : FindByToken(t, type) = {}) /\ Reject(r)
RefuseUsed(r, type) ==
    (\E t \in Holding : \E i \in FindByToken(t, type) : tokens[i].consumed)
    /\ Reject(r)
RefuseExpired(r, type) ==
    (\E t \in Holding : \E i \in FindByToken(t, type) :
        ~tokens[i].consumed /\ MaybeExpired(i))
    /\ Reject(r)

\* markConsumed of the record found, and the branch on its answer.
Consume(r, won, lost) ==
    /\ \/ /\ Consumable(found[r])
          /\ MarkConsumed(found[r])
          /\ spent' = [spent EXCEPT ![r] = found[r]]
          /\ Goto(r, won)
       \/ /\ ~Consumable(found[r])
          /\ Goto(r, lost)
          /\ UNCHANGED <<tokens, spent>>
    /\ UNCHANGED <<now, account, locals, proof, factor, overlap, racing>>

\* A refresh JWT signed now, and a random secret drawn by the request.
SignRefreshToken(user) == [by |-> None, sub |-> user, iat |-> now]
Secret(r) == [by |-> r, sub |-> subject[r], iat |-> 0]

\* The provider signs a token pair for the user.
Issue(r, user, label) ==
    /\ issued' = [issued EXCEPT ![r] = SignRefreshToken(user)]
    /\ Goto(r, label)
    /\ UNCHANGED <<now, tokens, account, subject, found, count, history>>

\* The token issued is saved.
SaveIssued(r, type, ttl, label) ==
    /\ Save(r, subject[r], type, issued[r], ttl)
    /\ Goto(r, label)
    /\ UNCHANGED <<now, account, locals, history>>

\* The save of a new session is the last call: it returns, or it throws although
\* the record is there, and then nobody gets the tokens.
SaveSession(r, label, orphan) ==
    \E end \in {label, orphan} : SaveIssued(r, "REFRESH_TOKEN", RefreshTtl, end)

\* Every token of the user is deleted; who is in flight is noted.
Revoke(r, label) ==
    /\ DeleteAllForUser(subject[r])
    /\ overlap' = overlap \cup {q \in Requests \ {r} :
                      pc[q] \in Awaiting /\ subject[q] = subject[r]}
    /\ Goto(r, label)
    /\ UNCHANGED <<now, account, locals, spent, proof, factor, racing>>

\* Who of the same user is in flight at one of the labels is noted.
NoteRacing(r, labels) ==
    /\ racing' = racing \cup {q \in Requests \ {r} :
                     pc[q] \in labels /\ subject[q] = subject[r]}
    /\ UNCHANGED <<spent, proof, factor, overlap>>

-----------------------------------------------------------------------------
(***************************************************************************)
(* What happens around the requests: time passes, the purge job runs, any  *)
(* awaited call may throw, which ends the request where it is and undoes   *)
(* nothing, and the server may be restarted.  A call that throws may have  *)
(* taken effect: that is its step followed by Fail.  The last call of a    *)
(* handler ends it in the same step: if it throws after its effect, that   *)
(* matters where a secret was to be answered, and the step has a second    *)
(* end there; the other ends say what was done, answered or not.           *)
(***************************************************************************)
Tick ==
    /\ now < MaxNow
    /\ now' = now + 1
    /\ UNCHANGED <<tokens, account, pc, locals, history>>

Purge == DeleteExpired /\ UNCHANGED <<now, account, pc, locals, history>>

\* How a request ends that is broken off at this label.
Broken(label) == IF label = "reset.revoke" THEN "reset.halfway" ELSE "failed"

Fail(r) ==
    /\ pc[r] \in Awaiting
    /\ Goto(r, Broken(pc[r]))
    /\ UNCHANGED <<now, tokens, account, locals, history>>

\* The server is restarted: every request in flight is broken off, and what was
\* in memory (tokens, counters, locks, TOTP secrets) is gone.  Keycloak keeps the
\* passwords, the clients keep their JWTs, which still verify.  (With a store
\* that outlives the server, a restart is a Fail of every request in flight.)
Restart ==
    /\ Volatile
    /\ tokens' = [i \in Requests |-> None]
    /\ totp' = [u \in Users |-> None]
    /\ failed' = [u \in Users |-> [count |-> 0, at |-> 0]]
    /\ locked' = [u \in Users |-> None]
    /\ pc' = [r \in Requests |-> IF pc[r] \in Awaiting THEN Broken(pc[r]) ELSE pc[r]]
    /\ UNCHANGED <<now, password, locals, history>>
=============================================================================
