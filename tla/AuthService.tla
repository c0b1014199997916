---------------------------- MODULE AuthService ----------------------------
(***************************************************************************)
(* The authentication service: the handlers of all requests, interleaved   *)
(* at their awaits, with the clock, the purge job and failures.  What it   *)
(* must guarantee is stated here.                                          *)
(***************************************************************************)
EXTENDS SessionFlows, LoginFlows, RecoveryFlows

Arrival(r) ==
    \/ RefreshArrival(r) \/ LogoutArrival(r)
    \/ LoginArrival(r) \/ CompleteArrival(r) \/ SetupArrival(r)
    \/ LinkArrival(r) \/ ResetArrival(r) \/ VerifyArrival(r)

\* The next step of a request that is being served.
Step(r) ==
    \/ RefreshStep(r) \/ LogoutStep(r)
    \/ LoginStep(r) \/ CompleteStep(r) \/ SetupStep(r)
    \/ LinkStep(r) \/ ResetStep(r) \/ VerifyStep(r)

Next ==
    \/ \E r \in Requests : Arrival(r) \/ Step(r) \/ Fail(r)
    \/ Tick
    \/ Purge
    \/ Restart

Spec == Init /\ [][Next]_vars

\* The calls r awaits return, and Node then runs its handler on.  That is not to
\* be taken for granted: axios waits for Keycloak without a time limit.
CallsReturn(r) == WF_vars(Step(r))

-----------------------------------------------------------------------------
(* Tokens are used once, for what they were issued for.                    *)

\* No two requests ever mark the same record consumed: of any number of
\* concurrent or repeated presentations of a token, across endpoints (refresh
\* against logout), one at most gets past markConsumed.
SingleUse ==
    \A q, r \in Requests : spent[q] # None /\ spent[q] = spent[r] => q = r

\* How the requests end from which a request gets the token it has used up.
Refreshed == {"refresh.done", "refresh.orphaned"}
Source(label) ==
    CASE label \in {"refresh.verify", "refresh.issue", "refresh.save"} \cup Refreshed ->
            SessionEnds \cup {"orphaned", "refresh.orphaned"}
      [] label \in {"complete.issue", "complete.save", "complete.done"} ->
            {"login.challenged"}
      [] label \in {"reset.change", "reset.revoke", "reset.done", "reset.halfway"} ->
            {"forgot.done"}
      [] label \in {"verify.issue", "verify.save", "verify.done"} ->
            {"send.done"}
      [] OTHER -> {}

\* A request that issues a session or changes a password on the strength of a
\* token has used up that token itself, and the token was obtained for the same
\* user at the endpoint that hands out tokens of that kind: no reset link opens a
\* session, no pre-auth token refreshes one.  (A refresh token may be equal to
\* one that nobody was given, and then resolve to the record of that.)
Entitled ==
    \A r \in Requests : Source(pc[r]) # {} =>
        /\ spent[r] # None /\ spent[r] = found[r]
        /\ pc[found[r]] \in Source(pc[r])
        /\ subject[found[r]] = subject[r]

\* The calls of save.
Saving == {"login.challenge", "login.save", "complete.save", "refresh.save",
           "forgot.save", "send.save", "verify.save"}

\* A record that is gone (revoked or purged) never comes back, and one that is
\* consumed is never made fresh again: only a request at its one save creates.
NoResurrection ==
    [][\A i \in Requests :
          /\ tokens[i] = None /\ pc[i] \notin Saving => tokens'[i] = None
          /\ i \in Stored /\ tokens[i].consumed /\ tokens'[i] # None
                => tokens'[i].consumed]_vars

\* The life of a token read off the state: its record says whether it is live or
\* used; without a record it is void if the request that issues it is past that
\* point (or broken off), and not yet issued otherwise.
Life ==
    [i \in Requests |->
        IF i \in Stored
        THEN IF tokens[i].consumed THEN "used" ELSE "live"
        ELSE IF pc[i] \in SecretEnds \cup {"forgot.send", "send.send", "failed", "orphaned", "refresh.orphaned"}
        THEN "void" ELSE "unissued"]

Lifecycle == INSTANCE TokenLifecycle WITH life <- Life

\* The service implements the life of tokens: every step of every handler, with
\* expiry, revocation, failures and restarts, issues one token, spends one live
\* token for one request that spends no other, voids tokens, or does nothing to
\* any.
ImplementsLifecycle == Lifecycle!Spec

-----------------------------------------------------------------------------
(* Revocation.  The store deletes what is there; a request that is in      *)
(* flight then saves its session afterwards.  These invariants say that    *)
(* nothing else survives.                                                  *)

\* The records from which c was obtained by refreshing, i included.
Descends(c, i) ==
    \A line \in SUBSET Requests :
        /\ i \in line
        /\ \A q \in Requests :
              pc[q] \in Refreshed /\ found[q] \in line => q \in line
        => c \in line

\* Once reuse of a refresh token is reported, no session derived from it is left
\* in the store, but for requests that were in flight at the revocation.
ReuseEvicts ==
    \A r \in Requests : pc[r] = "refresh.reuse" =>
        \A c \in Stored : Descends(c, found[r]) => c \in overlap

\* A reset that has changed the password and not yet revoked, or never will.
ResetPending(u) ==
    \E r \in Requests : subject[r] = u /\ pc[r] \in {"reset.revoke", "reset.halfway"}

\* Whatever is in the store (session, pre-auth token, link) was obtained under
\* the current password, unless a reset is between its two writes or failed
\* there, or the request that saved it (or its ancestor) was in flight when a
\* reset revoked.  This needs the password changed before the revocation.
ResetEvicts ==
    \A i \in Stored :
        proof[i] < password[tokens[i].user] =>
            ResetPending(tokens[i].user) \/ i \in overlap

-----------------------------------------------------------------------------
(* Login.                                                                  *)

\* Attempts can be counted: the service receives finitely many requests.
ASSUME RequestsAssumption == IsFiniteSet(Requests)

\* No account is locked before MaxFailed attempts on it were refused, however
\* the reads and writes of the counter interleave.
NoPrematureLock ==
    \A u \in Users : locked[u] # None =>
        Cardinality({r \in Requests : subject[r] = u /\ count[r] > 0}) >= MaxFailed

\* Only miscounting defers a lock: as many refused attempts as the threshold lock
\* the account, unless two of them, interleaved, were given the same number; all
\* of this before any lock can have run out, with nothing but refused attempts on
\* the account, and in a store that survives the server.
OnlyMiscountsDefer ==
    \A u \in Users :
        LET refused == {r \in Requests : subject[r] = u /\ pc[r] = "login.denied"}
        IN  /\ now < Lockout /\ ~Volatile
            /\ \A r \in Requests : subject[r] = u => pc[r] \in {"login.denied", "rejected"}
            /\ refused # {} /\ Cardinality(refused) >= MaxFailed
            /\ \A q, r \in refused : count[q] = count[r] => q = r
            => locked[u] # None

\* While an account is locked, the only logins that still try a password, or
\* that may delete the lock or the counter, are those that had read the lock
\* before it was set: whatever comes in later is turned away, however many
\* logins find an earlier lock expired and delete it.
LockHolds ==
    \A r \in Requests :
        pc[r] \in LoggingIn /\ locked[subject[r]] # None /\ now < locked[subject[r]]
            => r \in racing

\* A login that came in when the user had a TOTP secret never answers with
\* tokens; they come from the second step only.
LoginNeedsSecondFactor ==
    \A r \in Requests : pc[r] = "login.done" => factor[r] = None

\* A stored TOTP secret is only ever replaced in a race: a set-up that is about to
\* save one where there is one had looked before that one was saved.
LateSetupsRefused ==
    \A r \in Requests :
        pc[r] = "setup.save" /\ totp[subject[r]] # None => r \in racing

-----------------------------------------------------------------------------
(* Progress.                                                               *)

\* A request whose own calls return is answered, even if those of any other never
\* do: no handler waits for what another one is to do.
EveryRequestEnds ==
    \A r \in Requests :
        CallsReturn(r) => ((pc[r] \in Awaiting) ~> (pc[r] \in Ends))

\* How many of the calls that have a step of their own the request makes at most
\* before it ends: a login at most eight, with the read of the lock.
Left(label) ==
    CASE label = "login.unlock" -> 7
      [] label = "login.forget" -> 6
      [] label = "login.authenticate" -> 5
      [] label \in {"login.reset", "complete.verify", "refresh.consume"} -> 4
      [] label \in {"login.count", "login.release", "complete.consume",
                    "refresh.verify", "reset.consume", "verify.consume"} -> 3
      [] label \in {"login.record", "login.branch", "complete.issue", "setup.save",
                    "refresh.issue", "forgot.save", "send.save", "reset.change",
                    "verify.issue"} -> 2
      [] label \in {"login.lock", "login.challenge", "login.save", "complete.save",
                    "setup.qrcode", "refresh.revoke", "refresh.save",
                    "logout.consume", "forgot.send", "send.send", "reset.revoke",
                    "verify.save"} -> 1
      [] OTHER -> 0

\* No handler waits for the same call twice or tries anything again, and an
\* answered request is never taken up: every step of a request leaves it fewer
\* calls to make.  With calls that return this is why every request ends.
HandlersAdvance ==
    [][\A r \in Requests : pc[r] # "idle" /\ pc'[r] # pc[r] =>
          pc'[r] # "idle" /\ Left(pc'[r]) < Left(pc[r])]_vars

-----------------------------------------------------------------------------
(* What the code and its documentation say that does not hold.             *)

NobodyInFlight == \A r \in Requests : pc[r] \notin Awaiting

\* "Refresh token reuse detected - all sessions have been revoked": after the
\* answer, and once everyone is served, nothing derived from the token is live.
ReuseRevokesAll ==
    \A r \in Requests : pc[r] = "refresh.reuse" /\ NobodyInFlight =>
        ~\E c \in Stored : Descends(c, found[r]) /\ ~tokens[c].consumed

\* "Revoke every existing session": after a completed reset no session is live
\* that was obtained with an earlier password.
ResetRevokesAll ==
    \A i \in Stored :
        tokens[i].type = "REFRESH_TOKEN" /\ ~ResetPending(tokens[i].user) =>
            proof[i] >= password[tokens[i].user]

\* "Rotate the access + refresh tokens": the answer carries a new refresh token.
RotationChangesToken ==
    \A r \in Requests : pc[r] = "refresh.done" => issued[r] # issued[found[r]]

\* "Users with TOTP configured must complete the second factor before any
\* tokens are issued", whichever way they sign in.
EveryRouteNeedsSecondFactor ==
    \A r \in Requests : pc[r] \in {"login.done", "verify.done"} => factor[r] = None

\* "must not silently rotate the victim's TOTP secret".
SecretIsNotRotated ==
    [][\A u \in Users : totp[u] # None => totp'[u] = totp[u]]_vars

\* "Max failed attempts before lockout": that many refused attempts, within one
\* window and without a success, leave the account locked.
LockoutAtThreshold ==
    \A u \in Users :
        LET refused == {r \in Requests : subject[r] = u /\ pc[r] = "login.denied"}
        IN  /\ now = 0 /\ NobodyInFlight
            /\ \A r \in Requests : subject[r] = u /\ pc[r] # "idle" => r \in refused
            /\ Cardinality(refused) >= MaxFailed
            => locked[u] # None
=============================================================================
