---------------------------- MODULE SessionFlows ----------------------------
(***************************************************************************)
(* POST /auth/refresh (RefreshTokenUseCase) and POST /auth/logout          *)
(* (LogoutUseCase).                                                        *)
(***************************************************************************)
EXTENDS AuthState

\* A refresh token is presented: its record is read and checked.
RefreshClaim(r)   == Arrive(r, "refresh") /\ Claim(r, "REFRESH_TOKEN", "refresh.consume")
RefreshReused(r)  == Arrive(r, "refresh") /\ ClaimUsed(r, "REFRESH_TOKEN", "refresh.revoke")
RefreshUnknown(r) == Arrive(r, "refresh") /\ RefuseUnknown(r, "REFRESH_TOKEN")
RefreshExpired(r) == Arrive(r, "refresh") /\ RefuseExpired(r, "REFRESH_TOKEN")

\* Of several requests with one token, one consumes it; the others report reuse.
RefreshConsume(r) ==
    /\ pc[r] = "refresh.consume"
    /\ Consume(r, "refresh.verify", "refresh.revoke")

\* Reuse: every token of the user is revoked, then the error is thrown.  (Wrong:
\* only the record that was reused is deleted.)
WrongRefreshRevoke(r) ==
    /\ pc[r] = "refresh.revoke"
    /\ tokens' = [tokens EXCEPT ![found[r]] = None]
    /\ Goto(r, "refresh.reuse")
    /\ UNCHANGED <<now, account, locals, history>>
RefreshRevoke(r) == pc[r] = "refresh.revoke" /\ Revoke(r, "refresh.reuse")

JwtExpired(t) == t.iat + RefreshTtl <= now

\* The provider then verifies the JWT presented, which is the one issued with
\* the record found.
RefreshVerify(r) ==
    /\ pc[r] = "refresh.verify"
    /\ ~JwtExpired(issued[found[r]])
    /\ Goto(r, "refresh.issue")
    /\ UNCHANGED <<now, tokens, account, locals, history>>

\* The JWT's whole seconds can run out before the record's deadline: the token,
\* already consumed, is refused.
RefreshStale(r) ==
    /\ pc[r] = "refresh.verify"
    /\ JwtExpired(issued[found[r]])
    /\ Reject(r)

\* The new pair is signed for the user the JWT names.  (Wrong: for the id of
\* the record.)
WrongRefreshIssue(r) ==
    /\ pc[r] = "refresh.issue"
    /\ Issue(r, found[r], "refresh.save")
RefreshIssue(r) ==
    /\ pc[r] = "refresh.issue"
    /\ Issue(r, issued[found[r]].sub, "refresh.save")

\* Its refresh token is saved as a record of its own.  (Wrong: the row of the
\* session is rewritten in place.)
WrongRefreshSave(r) ==
    /\ pc[r] = "refresh.save"
    /\ Save(found[r], subject[r], "REFRESH_TOKEN", issued[r], RefreshTtl)
    /\ Goto(r, "refresh.done")
    /\ UNCHANGED <<now, account, locals, history>>
RefreshSave(r) == pc[r] = "refresh.save" /\ SaveSession(r, "refresh.done", "refresh.orphaned")

RefreshArrival(r) ==
    \/ RefreshClaim(r) \/ RefreshReused(r) \/ RefreshUnknown(r) \/ RefreshExpired(r)
RefreshStep(r) ==
    \/ RefreshConsume(r) \/ RefreshRevoke(r) \/ RefreshVerify(r)
    \/ RefreshStale(r) \/ RefreshIssue(r) \/ RefreshSave(r)

-----------------------------------------------------------------------------
\* Logout asks for an access token, whoever's it is, and reads the record of the
\* refresh token, whose expiry it does not check ...
LogoutClaim(r) ==
    /\ Arrive(r, "logout") /\ \E u \in Users : HasAccess(u)
    /\ \E t \in Holding : \E i \in FindByToken(t, "REFRESH_TOKEN") :
          ~tokens[i].consumed /\ Adopt(r, i)
    /\ Goto(r, "logout.consume")
    /\ UNCHANGED <<now, tokens, account, issued, count, spent>>

\* ... does nothing (but tell Keycloak) for a token that is unknown or used ...
LogoutNothing(r) ==
    /\ Arrive(r, "logout") /\ \E u \in Users : HasAccess(u)
    /\ \E t \in Holding :
          LET records == FindByToken(t, "REFRESH_TOKEN")
          IN  records = {} \/ \E i \in records : tokens[i].consumed
    /\ Goto(r, "logout.done")
    /\ UNCHANGED <<now, tokens, account, locals, history>>

\* ... and ignores what markConsumed answers.
LogoutConsume(r) ==
    /\ pc[r] = "logout.consume"
    /\ Consume(r, "logout.done", "logout.done")

LogoutArrival(r) == LogoutClaim(r) \/ LogoutNothing(r)
LogoutStep(r)    == LogoutConsume(r)
=============================================================================
