----------------------------- MODULE LoginFlows -----------------------------
(***************************************************************************)
(* POST /auth/login (LoginUseCase, with the lockout counters),             *)
(* POST /auth/2fa/complete (Complete2FALoginUseCase) and                   *)
(* POST /auth/2fa/setup (Setup2FAUseCase and the provider's setup2FA).     *)
(***************************************************************************)
EXTENDS AuthState

-----------------------------------------------------------------------------
(* The lock is read first.  "Date.now() < lockedUntil" counts milliseconds *)
(* and may go either way within the second in which the lock ends.         *)

LoginArrive(r, user, label) ==
    /\ Arrive(r, "login")
    /\ subject' = [subject EXCEPT ![r] = user]
    /\ factor' = [factor EXCEPT ![r] = totp[user]]
    /\ Goto(r, label)
    /\ UNCHANGED <<now, tokens, account, found, issued, count, spent, proof, overlap, racing>>

LoginStart(r) ==
    \E u \in Users : locked[u] = None /\ LoginArrive(r, u, "login.authenticate")

LoginBlocked(r) ==
    \E u \in Users :
        /\ locked[u] # None /\ now <= locked[u]
        /\ LoginArrive(r, u, "rejected")

\* A lock that has run out is deleted together with the counter.  (Wrong: any
\* lock that is found.)
WrongLoginLapsed(r) ==
    \E u \in Users : locked[u] # None /\ LoginArrive(r, u, "login.unlock")
LoginLapsed(r) ==
    \E u \in Users :
        /\ locked[u] # None /\ locked[u] <= now
        /\ LoginArrive(r, u, "login.unlock")

ClearLock(r, label) ==
    /\ locked' = [locked EXCEPT ![subject[r]] = None]
    /\ Goto(r, label)
    /\ UNCHANGED <<now, tokens, totp, failed, password, locals, history>>

ClearFailed(r, label) ==
    /\ failed' = [failed EXCEPT ![subject[r]] = [count |-> 0, at |-> 0]]
    /\ Goto(r, label)
    /\ UNCHANGED <<now, tokens, totp, locked, password, locals, history>>

LoginUnlock(r) == pc[r] = "login.unlock" /\ ClearLock(r, "login.forget")
LoginForget(r) == pc[r] = "login.forget" /\ ClearFailed(r, "login.authenticate")

-----------------------------------------------------------------------------
(* Keycloak accepts or refuses the password.  A failed attempt is counted  *)
(* by reading the counter, then writing it, then writing the lock.         *)

\* Right: the token pair is signed, and kept until the login may return it.
LoginAuthenticated(r) ==
    /\ pc[r] = "login.authenticate"
    /\ issued' = [issued EXCEPT ![r] = SignRefreshToken(subject[r])]
    /\ proof' = [proof EXCEPT ![r] = password[subject[r]]]
    /\ overlap' = overlap \ {r}
    /\ Goto(r, "login.reset")
    /\ UNCHANGED <<now, tokens, account, subject, found, count, spent, factor, racing>>

\* Refused as wrong credentials; any other error is not counted (Fail).  (Wrong:
\* the credentials are tried again from the start.)
WrongLoginRefused(r) ==
    /\ pc[r] = "login.authenticate"
    /\ Goto(r, "login.unlock")
    /\ UNCHANGED <<now, tokens, account, locals, history>>

LoginRefused(r) ==
    /\ pc[r] = "login.authenticate"
    /\ Goto(r, "login.count")
    /\ UNCHANGED <<now, tokens, account, locals, history>>

\* A counter older than the lockout window counts for nothing.
LastCount(user) ==
    LET age == now - failed[user].at
    IN  {n \in {0, failed[user].count} :
            \/ n = 0 /\ age >= Lockout
            \/ n = failed[user].count /\ age <= Lockout}

\* (Wrong: one login at a time counts on an account, and the others wait for it.)
WrongLoginCount(r) ==
    /\ pc[r] = "login.count"
    /\ \A q \in Requests : pc[q] = "login.record" => subject[q] # subject[r]
    /\ \E n \in LastCount(subject[r]) : count' = [count EXCEPT ![r] = n + 1]
    /\ Goto(r, "login.record")
    /\ UNCHANGED <<now, tokens, account, subject, found, issued, history>>
LoginCount(r) ==
    /\ pc[r] = "login.count"
    /\ \E n \in LastCount(subject[r]) : count' = [count EXCEPT ![r] = n + 1]
    /\ Goto(r, "login.record")
    /\ UNCHANGED <<now, tokens, account, subject, found, issued, history>>

\* Whether the account is locked.  (Wrong: one attempt early, or late.)
WrongTooMany(n) == n + 1 >= MaxFailed
WrongTooManyLate(n) == n > MaxFailed
TooMany(n) == n >= MaxFailed

LoginRecord(r) ==
    /\ pc[r] = "login.record"
    /\ failed' = [failed EXCEPT ![subject[r]] = [count |-> count[r], at |-> now]]
    /\ Goto(r, IF TooMany(count[r]) THEN "login.lock" ELSE "login.denied")
    /\ UNCHANGED <<now, tokens, totp, locked, password, locals, history>>

LoginLock(r) ==
    /\ pc[r] = "login.lock"
    /\ locked' = [locked EXCEPT ![subject[r]] = now + Lockout]
    /\ NoteRacing(r, LoggingIn)
    /\ Goto(r, "login.denied")
    /\ UNCHANGED <<now, tokens, totp, failed, password, locals>>

-----------------------------------------------------------------------------
(* After the right password the counter and the lock are deleted, and the  *)
(* TOTP secret decides between a session and a challenge.                  *)

LoginReset(r)   == pc[r] = "login.reset" /\ ClearFailed(r, "login.release")
LoginRelease(r) == pc[r] = "login.release" /\ ClearLock(r, "login.branch")

\* A second factor is asked for once a secret is stored.  (Wrong: once its setup
\* has been answered.)
WrongTotpConfigured(user) ==
    totp[user] \in Requests /\ pc[totp[user]] = "setup.done"
TotpConfigured(user) == totp[user] # None

LoginBranch(r) ==
    /\ pc[r] = "login.branch"
    /\ \/ /\ TotpConfigured(subject[r])
          /\ issued' = [issued EXCEPT ![r] = Secret(r)]
          /\ Goto(r, "login.challenge")
       \/ /\ ~TotpConfigured(subject[r])
          /\ Goto(r, "login.save")
          /\ UNCHANGED issued
    /\ UNCHANGED <<now, tokens, account, subject, found, count, history>>

LoginChallenge(r) ==
    /\ pc[r] = "login.challenge"
    /\ \E end \in {"login.challenged", "failed"} :
          SaveIssued(r, "PRE_AUTH_2FA", PreAuthTtl, end)

LoginSave(r) == pc[r] = "login.save" /\ SaveSession(r, "login.done", "orphaned")

LoginArrival(r) == LoginStart(r) \/ LoginBlocked(r) \/ LoginLapsed(r)
LoginStep(r) ==
    \/ LoginUnlock(r) \/ LoginForget(r) \/ LoginAuthenticated(r) \/ LoginRefused(r)
    \/ LoginCount(r) \/ LoginRecord(r) \/ LoginLock(r)
    \/ LoginReset(r) \/ LoginRelease(r) \/ LoginBranch(r)
    \/ LoginChallenge(r) \/ LoginSave(r)

-----------------------------------------------------------------------------
(* The second step of a two-factor login.                                  *)

CompleteClaim(r)   == Arrive(r, "complete") /\ Claim(r, "PRE_AUTH_2FA", "complete.verify")
CompleteUnknown(r) == Arrive(r, "complete") /\ RefuseUnknown(r, "PRE_AUTH_2FA")
CompleteUsed(r)    == Arrive(r, "complete") /\ RefuseUsed(r, "PRE_AUTH_2FA")
CompleteExpired(r) == Arrive(r, "complete") /\ RefuseExpired(r, "PRE_AUTH_2FA")

\* A right code needs a secret in force: without one verify2FA answers false.
CompleteVerified(r) ==
    /\ pc[r] = "complete.verify"
    /\ TotpConfigured(subject[r])
    /\ Goto(r, "complete.consume")
    /\ UNCHANGED <<now, tokens, account, locals, history>>

\* A wrong code does not use up the pre-auth token.
CompleteMistyped(r) == pc[r] = "complete.verify" /\ Reject(r)

CompleteConsume(r) ==
    /\ pc[r] = "complete.consume"
    /\ Consume(r, "complete.issue", "rejected")

CompleteIssue(r) == pc[r] = "complete.issue" /\ Issue(r, subject[r], "complete.save")

CompleteSave(r) == pc[r] = "complete.save" /\ SaveSession(r, "complete.done", "orphaned")

CompleteArrival(r) ==
    CompleteClaim(r) \/ CompleteUnknown(r) \/ CompleteUsed(r) \/ CompleteExpired(r)
CompleteStep(r) ==
    \/ CompleteVerified(r) \/ CompleteMistyped(r) \/ CompleteConsume(r)
    \/ CompleteIssue(r) \/ CompleteSave(r)

-----------------------------------------------------------------------------
(* Enrolment in two-factor authentication, behind the access-token guard.  *)

\* The secret in the store is read; one that exists is not replaced.  (Wrong: it
\* is not looked for.)
WrongSetupStart(r) ==
    /\ Arrive(r, "setup")
    /\ \E u \in Users : HasAccess(u) /\ subject' = [subject EXCEPT ![r] = u]
    /\ Goto(r, "setup.save")
    /\ UNCHANGED <<now, tokens, account, found, issued, count, history>>

SetupStart(r) ==
    /\ Arrive(r, "setup")
    /\ \E u \in Users :
          /\ HasAccess(u)
          /\ subject' = [subject EXCEPT ![r] = u]
          /\ Goto(r, IF TotpConfigured(u) THEN "rejected" ELSE "setup.save")
    /\ UNCHANGED <<now, tokens, account, found, issued, count, history>>

\* The new secret is saved, and is in force before anyone has seen it.
SetupSave(r) ==
    /\ pc[r] = "setup.save"
    /\ totp' = [totp EXCEPT ![subject[r]] = r]
    /\ NoteRacing(r, {"setup.save"})
    /\ Goto(r, "setup.qrcode")
    /\ UNCHANGED <<now, tokens, failed, locked, password, locals>>

SetupAnswer(r) ==
    /\ pc[r] = "setup.qrcode"
    /\ Goto(r, "setup.done")
    /\ UNCHANGED <<now, tokens, account, locals, history>>

SetupArrival(r) == SetupStart(r)
SetupStep(r)    == SetupSave(r) \/ SetupAnswer(r)
=============================================================================
