-------------------------- MODULE RevocationProofs --------------------------
(***************************************************************************)
(* What TLAPS proves of AuthService beyond single tokens: what a password  *)
(* reset and the report of reuse leave in the store, and that a login does *)
(* not skip the second factor.  The steps of the service are first sorted  *)
(* into a few kinds (StepKinds); each invariant is then shown to be kept   *)
(* by every kind.                                                          *)
(***************************************************************************)
EXTENDS AuthServiceProofs

USE DEF Stored, Maybe

-----------------------------------------------------------------------------
(* The kinds of steps.                                                     *)

LoginEarly == {"login.unlock", "login.forget", "login.authenticate",
               "login.count", "login.record", "login.lock"}
LoginLate  == {"login.reset", "login.release", "login.branch"}

\* In flight on behalf of a user who has proved who he is.
Proven == Awaiting \ (LoginEarly \cup {"setup.save", "setup.qrcode"})

\* In flight with a refresh token.
Refreshing == {"refresh.consume", "refresh.revoke", "refresh.verify", "refresh.issue",
               "refresh.save"}

Claims == {"refresh.consume", "refresh.revoke", "logout.consume", "complete.verify",
           "reset.consume", "verify.consume"}

Kept == \A i \in Requests : tokens'[i] = None <=> tokens[i] = None

\* A request moves on: nothing is stored, deleted or proved.
Follows(from, to) ==
    /\ from \in {"idle"} \cup Awaiting
    /\ from = "reset.revoke" => to = "reset.halfway"
    /\ to \in Proven => from \in Proven
    /\ to \in Refreshing => from \in Refreshing
    /\ to \in LoginEarly \cup LoginLate => from \in LoginEarly \cup LoginLate
    /\ to = "login.save" => from = "login.branch"
    /\ to \notin Refreshed \cup {"refresh.reuse", "login.done"}
Moves(r) ==
    /\ \E label : Goto(r, label) /\ Follows(pc[r], label)
    /\ pc'[r] = "login.save" => totp[subject[r]] = None
    /\ Kept
    /\ UNCHANGED <<totp, password, subject, found, proof, factor, overlap>>

\* A request saves its token and, but for a mail to send, ends.
Saves(r) ==
    /\ pc[r] \in Saving
    /\ tokens[r] = None /\ tokens'[r] # None
    /\ \A q \in Requests : q # r => tokens'[q] = tokens[q]
    /\ \E label : Goto(r, label) /\ label \in Saved \cup {"forgot.send", "send.send", "failed"}
    /\ pc'[r] \in Refreshed => pc[r] = "refresh.save"
    /\ pc'[r] = "login.done" => pc[r] = "login.save"
    /\ UNCHANGED <<totp, password, subject, found, proof, factor, overlap>>

\* A request is put in charge of a stored record.
Takes(r) ==
    /\ pc[r] = "idle" /\ tokens[r] = None
    /\ \E i \in Stored : i # r /\ subject[i] = tokens[i].user /\ Adopt(r, i)
    /\ \E label \in Claims : Goto(r, label)
    /\ UNCHANGED <<tokens, totp, password>>

StartsLogin(r) ==
    \E u \in Users : \E label \in {"login.authenticate", "login.unlock", "rejected"} :
        LoginArrive(r, u, label)
StartsLink(r) ==
    \E endpoint \in {"forgot", "send"} : \E label \in {"forgot.save", "send.save"} :
        LinkStart(r, endpoint, label)

Changes(r) ==
    \/ Moves(r) \/ Saves(r) \/ Takes(r) \/ StartsLogin(r) \/ StartsLink(r)
    \/ LoginAuthenticated(r) \/ SetupStart(r) \/ SetupSave(r)
    \/ ResetChange(r) \/ ResetRevoke(r) \/ RefreshRevoke(r)

\* Time, the purge, and steps that change nothing.
Surroundings == Shrinks /\ UNCHANGED <<account, pc, subject, found, proof, factor, overlap>>

\* The server is restarted: nothing is stored and nobody is in flight.
Restarts ==
    /\ \A i \in Requests : tokens'[i] = None
    /\ \A i \in Requests :
          /\ pc'[i] \notin Awaiting
          /\ pc[i] \notin Awaiting => pc'[i] = pc[i]
          /\ pc[i] \in Awaiting =>
                pc'[i] = IF pc[i] = "reset.revoke" THEN "reset.halfway" ELSE "failed"
    /\ UNCHANGED <<password, subject, found, proof, factor, overlap>>

\* To mark a record consumed is to move on: no record appears or goes.
LEMMA ConsumeMoves ==
    ASSUME IInv, NEW r \in Requests, NEW won, NEW lost, Consume(r, won, lost),
           Follows(pc[r], won), Follows(pc[r], lost),
           won # "login.save", lost # "login.save"
    PROVE  Moves(r)
<1>1. Kept
  <2>1. CASE UNCHANGED tokens
    BY <2>1 DEF Kept
  <2>2. CASE Consumable(found[r]) /\ MarkConsumed(found[r])
    <3>1. tokens[found[r]] \in Record /\ found[r] \in Requests
      BY <2>2 DEF Consumable, IInv, TypeOK, TokensType
    <3>2. tokens'[found[r]] \in Record
      BY <2>2, <3>1 DEF MarkConsumed, Record, IInv, TypeOK, TokensType
    <3>3. \A i \in Requests : i # found[r] => tokens'[i] = tokens[i]
      BY <2>2 DEF MarkConsumed, IInv, TypeOK, TokensType
    <3>4. None \notin Record
      BY NoneAssumption
    <3>5. tokens[found[r]] # None /\ tokens'[found[r]] # None
      BY <3>1, <3>2, <3>4
    <3> QED BY <3>3, <3>5, Zenon DEF Kept
  <2> QED BY <2>1, <2>2 DEF Consume
<1>2. \E label \in {won, lost} : Goto(r, label)
  BY DEF Consume
<1>3. UNCHANGED <<totp, password, subject, found, proof, factor, overlap>>
  BY DEF Consume, account, locals
<1>4. pc'[r] # "login.save"
  BY <1>2 DEF Goto, IInv, TypeOK
<1> QED BY <1>1, <1>2, <1>3, <1>4 DEF Moves

\* So is any step that leaves the store and the user's account alone.
LEMMA QuietMoves ==
    ASSUME IInv, NEW r \in Requests, NEW label, Goto(r, label), Follows(pc[r], label),
           label = "login.save" => totp[subject[r]] = None,
           UNCHANGED <<tokens, totp, password, subject, found, proof, factor, overlap>>
    PROVE  Moves(r)
<1>1. pc'[r] = label
  BY DEF Goto, IInv, TypeOK
<1> QED BY <1>1 DEF Moves, Kept

\* To save the token issued is to save.
LEMMA SaveSaves ==
    ASSUME IInv, NEW r \in Requests, NEW type \in TokenTypes, NEW ttl \in Nat,
           NEW label \in Saved \cup {"forgot.send", "send.send", "failed"},
           pc[r] \in Saving, SaveIssued(r, type, ttl, label),
           label \in Refreshed => pc[r] = "refresh.save",
           label = "login.done" => pc[r] = "login.save"
    PROVE  Saves(r)
<1>1. tokens[r] = None /\ pc[r] \in Awaiting
  BY UnsavedRecord DEF Saving, Unsaved, Awaiting, LoggingIn
<1>2. subject[r] \in Users /\ issued[r] \in Token
  BY <1>1 DEF IInv, Settled, Subjects, Tokens, Holders
<1>3. [user |-> subject[r], type |-> type, token |-> issued[r],
       expiresAt |-> now + ttl, consumed |-> FALSE] \in Record
  BY <1>2 DEF Record, IInv, TypeOK
<1>4. tokens'[r] # None /\ \A q \in Requests : q # r => tokens'[q] = tokens[q]
  BY <1>3, NoneAssumption DEF SaveIssued, Save, IInv, TypeOK, TokensType
<1>5. pc'[r] = label /\ Goto(r, label)
  BY DEF SaveIssued, Goto, IInv, TypeOK
<1>6. UNCHANGED <<totp, password, subject, found, proof, factor, overlap>>
  BY DEF SaveIssued, account, locals, history
<1> QED BY <1>1, <1>4, <1>5, <1>6 DEF Saves

\* To adopt a record that a presented token resolves to is to take it.
LEMMA AdoptTakes ==
    ASSUME IInv, NEW r \in Requests, NEW type \in TokenTypes, NEW label \in Claims,
           NEW t \in Holding, NEW i \in FindByToken(t, type),
           pc[r] = "idle", Adopt(r, i), Goto(r, label),
           UNCHANGED <<tokens, totp, password>>
    PROVE  Takes(r)
<1>1. tokens[r] = None
  BY UnsavedRecord DEF Unsaved
<1>2. i \in Stored /\ subject[i] = tokens[i].user
  BY ClaimedRecord DEF FindByToken
<1>3. i # r
  BY <1>1, <1>2
<1>4. \E l \in Claims : Goto(r, l)
  OBVIOUS
<1> QED BY <1>1, <1>2, <1>3, <1>4, Zenon DEF Takes

\* Refresh and logout, sorted.
LEMMA SessionKinds ==
    ASSUME IInv, NEW r \in Requests,
           RefreshArrival(r) \/ RefreshStep(r) \/ LogoutArrival(r) \/ LogoutStep(r)
    PROVE  Changes(r)
<1> USE DEF Follows, Refreshing, Proven, LoginEarly, LoginLate, Awaiting,
            LoggingIn, Claims, Saving, Saved, Refreshed, SecretEnds, SessionEnds, TokenTypes
<1>1. CASE RefreshClaim(r)
  BY <1>1, AdoptTakes DEF RefreshClaim, Arrive, Claim, account, Changes
<1>2. CASE RefreshReused(r)
  BY <1>2, AdoptTakes DEF RefreshReused, Arrive, ClaimUsed, account, Changes
<1>3. CASE LogoutClaim(r)
  BY <1>3, AdoptTakes DEF LogoutClaim, Arrive, account, Changes
<1>4. CASE RefreshUnknown(r) \/ RefreshExpired(r) \/ RefreshStale(r)
  BY <1>4, QuietMoves DEF RefreshUnknown, RefreshExpired, RefreshStale, Arrive,
     RefuseUnknown, RefuseExpired, Reject, account, locals, history, Changes
<1>5. CASE RefreshVerify(r) \/ RefreshIssue(r) \/ LogoutNothing(r)
  BY <1>5, QuietMoves DEF RefreshVerify, RefreshIssue, LogoutNothing, Arrive, Issue,
     account, locals, history, Changes
<1>6. CASE RefreshConsume(r)
  BY <1>6, ConsumeMoves DEF RefreshConsume, Changes
<1>7. CASE LogoutConsume(r)
  BY <1>7, ConsumeMoves DEF LogoutConsume, Changes
<1>8. CASE RefreshSave(r)
  BY <1>8, SaveSaves, TtlAssumption DEF RefreshSave, SaveSession, Changes
<1>9. CASE RefreshRevoke(r)
  BY <1>9 DEF Changes
<1> QED BY <1>1, <1>2, <1>3, <1>4, <1>5, <1>6, <1>7, <1>8, <1>9
        DEF RefreshArrival, RefreshStep, LogoutArrival, LogoutStep

\* Login, sorted.
LEMMA LoginKinds ==
    ASSUME IInv, NEW r \in Requests, LoginArrival(r) \/ LoginStep(r)
    PROVE  Changes(r)
<1> USE DEF Follows, Refreshing, Proven, LoginEarly, LoginLate, Awaiting,
            LoggingIn, Saving, Saved, Refreshed, SecretEnds, SessionEnds, TokenTypes
<1>1. CASE LoginArrival(r)
  BY <1>1 DEF LoginArrival, LoginStart, LoginBlocked, LoginLapsed, StartsLogin, Changes
<1>2. CASE LoginUnlock(r) \/ LoginForget(r) \/ LoginReset(r) \/ LoginRelease(r)
  BY <1>2, QuietMoves DEF LoginUnlock, LoginForget, LoginReset, LoginRelease, ClearLock,
     ClearFailed, locals, history, Changes
<1>3. CASE LoginAuthenticated(r)
  BY <1>3 DEF Changes
<1>4. CASE LoginRefused(r) \/ LoginCount(r)
  BY <1>4, QuietMoves DEF LoginRefused, LoginCount, account, locals, history, Changes
<1>5. CASE LoginRecord(r) \/ LoginLock(r)
  BY <1>5, QuietMoves DEF LoginRecord, LoginLock, NoteRacing, locals, history, Changes
<1>6. CASE LoginBranch(r)
  BY <1>6, QuietMoves DEF LoginBranch, TotpConfigured, account, history, Changes
<1>7. CASE LoginChallenge(r) \/ LoginSave(r)
  BY <1>7, SaveSaves, TtlAssumption DEF LoginChallenge, LoginSave, SaveSession, Changes
<1> QED BY <1>1, <1>2, <1>3, <1>4, <1>5, <1>6, <1>7 DEF LoginStep

\* The second factor, sorted.
LEMMA FactorKinds ==
    ASSUME IInv, NEW r \in Requests,
           CompleteArrival(r) \/ CompleteStep(r) \/ SetupArrival(r) \/ SetupStep(r)
    PROVE  Changes(r)
<1> USE DEF Follows, Refreshing, Proven, LoginEarly, LoginLate, Awaiting,
            LoggingIn, Claims, Saving, Saved, Refreshed, SecretEnds, SessionEnds, TokenTypes
<1>1. CASE CompleteClaim(r)
  BY <1>1, AdoptTakes DEF CompleteClaim, Arrive, Claim, account, Changes
<1>2. CASE CompleteUnknown(r) \/ CompleteUsed(r) \/ CompleteExpired(r) \/ CompleteMistyped(r)
  BY <1>2, QuietMoves DEF CompleteUnknown, CompleteUsed, CompleteExpired, CompleteMistyped,
     Arrive, RefuseUnknown, RefuseUsed, RefuseExpired, Reject, account, locals, history,
     Changes
<1>3. CASE CompleteVerified(r) \/ CompleteIssue(r) \/ SetupAnswer(r)
  BY <1>3, QuietMoves DEF CompleteVerified, CompleteIssue, SetupAnswer, Issue,
     account, locals, history, Changes
<1>4. CASE CompleteConsume(r)
  BY <1>4, ConsumeMoves DEF CompleteConsume, Changes
<1>5. CASE CompleteSave(r)
  BY <1>5, SaveSaves, TtlAssumption DEF CompleteSave, SaveSession, Changes
<1>6. CASE SetupStart(r) \/ SetupSave(r)
  BY <1>6 DEF Changes
<1> QED BY <1>1, <1>2, <1>3, <1>4, <1>5, <1>6
        DEF CompleteArrival, CompleteStep, SetupArrival, SetupStep

\* The e-mail flows, sorted.
LEMMA RecoveryKinds ==
    ASSUME IInv, NEW r \in Requests,
           \/ LinkArrival(r) \/ LinkStep(r) \/ ResetArrival(r) \/ ResetStep(r)
           \/ VerifyArrival(r) \/ VerifyStep(r)
    PROVE  Changes(r)
<1> USE DEF Follows, Refreshing, Proven, LoginEarly, LoginLate, Awaiting,
            LoggingIn, Claims, Saving, Saved, Refreshed, SecretEnds, SessionEnds, TokenTypes
<1>1. CASE ForgotStart(r) \/ SendStart(r)
  BY <1>1 DEF ForgotStart, SendStart, StartsLink, Changes
<1>2. CASE ForgotUnknown(r) \/ SendUnknown(r) \/ ForgotSend(r) \/ SendSend(r)
  BY <1>2, QuietMoves DEF ForgotUnknown, SendUnknown, ForgotSend, SendSend, LinkUnknown,
     LinkSent, Arrive, Reject, account, locals, history, Changes
<1>3. CASE ForgotSave(r) \/ SendSave(r)
  BY <1>3, SaveSaves, TtlAssumption DEF ForgotSave, SendSave, Changes
<1>4. CASE ResetClaim(r)
  BY <1>4, AdoptTakes DEF ResetClaim, Arrive, Claim, account, Changes
<1>5. CASE VerifyClaim(r)
  BY <1>5, AdoptTakes DEF VerifyClaim, Arrive, Claim, account, Changes
<1>6. CASE \/ ResetUnknown(r) \/ ResetUsed(r) \/ ResetExpired(r)
           \/ VerifyUnknown(r) \/ VerifyUsed(r) \/ VerifyExpired(r)
  BY <1>6, QuietMoves DEF ResetUnknown, ResetUsed, ResetExpired, VerifyUnknown, VerifyUsed,
     VerifyExpired, Arrive, RefuseUnknown, RefuseUsed, RefuseExpired, Reject, account,
     locals, history, Changes
<1>7. CASE ResetConsume(r)
  BY <1>7, ConsumeMoves DEF ResetConsume, Changes
<1>8. CASE VerifyConsume(r)
  BY <1>8, ConsumeMoves DEF VerifyConsume, Changes
<1>9. CASE VerifyIssue(r)
  BY <1>9, QuietMoves DEF VerifyIssue, Issue, account, history, Changes
<1>10. CASE VerifySave(r)
  BY <1>10, SaveSaves, TtlAssumption DEF VerifySave, SaveSession, Changes
<1>11. CASE ResetChange(r) \/ ResetRevoke(r)
  BY <1>11 DEF Changes
<1> QED BY <1>1, <1>2, <1>3, <1>4, <1>5, <1>6, <1>7, <1>8, <1>9, <1>10, <1>11
        DEF LinkArrival, LinkStep, ResetArrival, ResetStep, VerifyArrival, VerifyStep

\* Every step is of one of the kinds.
LEMMA StepKinds ==
    ASSUME IInv, [Next]_vars
    PROVE  Surroundings \/ Restarts \/ \E r \in Requests : Changes(r)
<1>1. ASSUME NEW r \in Requests, Arrival(r) \/ Step(r)
      PROVE  Changes(r)
  BY <1>1, SessionKinds, LoginKinds, FactorKinds, RecoveryKinds DEF Arrival, Step
<1>2. ASSUME NEW r \in Requests, Fail(r)
      PROVE  Changes(r)
  BY <1>2, QuietMoves DEF Fail, Broken, Follows, Refreshing, Refreshed, Proven,
     LoginEarly, LoginLate, Awaiting, LoggingIn,
     account, locals, history, Changes
<1>3. CASE Tick
  BY <1>3 DEF Tick, Surroundings, Shrinks, account, locals, history
<1>4. CASE Purge
  BY <1>4 DEF Purge, DeleteExpired, Surroundings, Shrinks, account, locals, history
<1>5. CASE UNCHANGED vars
  BY <1>5 DEF vars, Surroundings, Shrinks, account, locals, history
<1>6. CASE Restart
  BY <1>6 DEF Restart, Restarts, Broken, Awaiting, LoggingIn, locals, history
<1> QED BY <1>1, <1>2, <1>3, <1>4, <1>5, <1>6 DEF Next

-----------------------------------------------------------------------------
(* The second factor.                                                      *)

\* While a login is on its way to the branch, a secret seen when it came in is
\* still there; past the branch to a session there was none.
Challenged ==
    \A r \in Requests :
        /\ pc[r] \in LoginEarly \cup LoginLate /\ factor[r] # None =>
              totp[subject[r]] # None
        /\ pc[r] \in {"login.save", "login.done"} => factor[r] = None

\* No step but a restart takes a TOTP secret away.
LEMMA SecretStays ==
    ASSUME IInv, [Next]_vars, ~Restarts, NEW u \in Users, totp[u] # None
    PROVE  totp'[u] # None
<1>1. CASE Surroundings
  BY <1>1 DEF Surroundings, account
<1>2. ASSUME NEW r \in Requests, Changes(r)
      PROVE  totp'[u] # None
  <2>1. CASE SetupSave(r)
    BY <2>1, NoneAssumption DEF SetupSave, IInv, TypeOK
  <2>2. CASE ~SetupSave(r)
    BY <1>2, <2>2 DEF Changes, Moves, Saves, Takes, StartsLogin, StartsLink, LoginArrive,
       LinkStart, LoginAuthenticated, SetupStart, ResetChange, ResetRevoke, RefreshRevoke,
       Revoke, account
  <2> QED BY <2>1, <2>2
<1> QED BY <1>1, <1>2, StepKinds

\* Every step keeps Challenged.
LEMMA ChallengedStep ==
    ASSUME IInv, Challenged, [Next]_vars
    PROVE  Challenged'
<1>1. CASE Surroundings
  BY <1>1 DEF Surroundings, Challenged, account
<1>3. CASE Restarts
  <2>1. ASSUME NEW q \in Requests
        PROVE  /\ pc'[q] \notin LoginEarly \cup LoginLate \cup {"login.save"}
               /\ pc'[q] = "login.done" => pc[q] = "login.done"
    BY <1>3 DEF Restarts, Awaiting, LoggingIn, LoginEarly, LoginLate
  <2> QED BY <1>3, <2>1 DEF Restarts, Challenged
<1>2. ASSUME NEW r \in Requests, Changes(r), NEW q \in Requests, ~Restarts
      PROVE  /\ pc'[q] \in LoginEarly \cup LoginLate /\ factor'[q] # None =>
                   totp'[subject'[q]] # None
             /\ pc'[q] \in {"login.save", "login.done"} => factor'[q] = None
  <2> USE DEF LoginEarly, LoginLate
  <2>1. pc[q] \in LoginEarly \cup LoginLate => subject[q] \in Users
    BY DEF IInv, Settled, Subjects, Awaiting, LoggingIn
  <2>2. CASE q # r
    <3>1. pc'[q] = pc[q] /\ subject'[q] = subject[q] /\ factor'[q] = factor[q]
      BY <1>2, <2>2 DEF Changes, Moves, Saves, Takes, Adopt, StartsLogin, StartsLink,
         LoginArrive, LinkStart, LoginAuthenticated, SetupStart, SetupSave, NoteRacing,
         ResetChange, ResetRevoke, RefreshRevoke, Revoke, Goto, IInv, TypeOK, locals, history
    <3> QED BY <1>2, <2>1, <3>1, SecretStays DEF Challenged
  <2>3. CASE q = r
    <3>1. CASE Moves(r)
      BY <2>3, <3>1 DEF Moves, Follows, Goto, Challenged, IInv, TypeOK
    <3>2. CASE Saves(r)
      BY <2>3, <3>2 DEF Saves, Goto, Challenged, IInv, TypeOK, Saved, Refreshed, SecretEnds, SessionEnds
    <3>3. CASE Takes(r)
      BY <2>3, <3>3 DEF Takes, Goto, Claims, IInv, TypeOK
    <3>4. CASE StartsLogin(r)
      BY <2>3, <3>4 DEF StartsLogin, LoginArrive, Goto, account, IInv, TypeOK
    <3>5. CASE StartsLink(r)
      BY <2>3, <3>5 DEF StartsLink, LinkStart, Goto, IInv, TypeOK
    <3>6. CASE LoginAuthenticated(r)
      BY <2>3, <3>6 DEF LoginAuthenticated, Goto, Challenged, account, IInv, TypeOK
    <3>7. CASE SetupStart(r)
      BY <2>3, <3>7 DEF SetupStart, Goto, IInv, TypeOK
    <3>8. CASE SetupSave(r) \/ ResetChange(r) \/ ResetRevoke(r) \/ RefreshRevoke(r)
      BY <2>3, <3>8 DEF SetupSave, ResetChange, ResetRevoke, RefreshRevoke, Revoke, Goto,
         IInv, TypeOK
    <3> QED BY <1>2, <3>1, <3>2, <3>3, <3>4, <3>5, <3>6, <3>7, <3>8 DEF Changes
  <2> QED BY <2>2, <2>3
<1> QED BY <1>1, <1>2, <1>3, StepKinds DEF Challenged

\* A login that came in when the user had a TOTP secret never answers with
\* tokens: LoginUseCase looks the secret up after the password was accepted,
\* and nothing takes a secret away in between.
THEOREM LoginChallenges == Spec => []LoginNeedsSecondFactor
<1>1. Init => Challenged
  BY DEF Init, Challenged, LoginEarly, LoginLate
<1>2. IInv /\ Challenged /\ [Next]_vars => Challenged'
  BY ChallengedStep
<1>3. Challenged => LoginNeedsSecondFactor
  BY DEF Challenged, LoginNeedsSecondFactor
<1> QED BY <1>1, <1>2, <1>3, Invariance, PTL DEF Spec

-----------------------------------------------------------------------------
(* The password reset.                                                     *)

\* Stored, or on the way there with the identity already proved.
Alive(i) == tokens[i] # None \/ pc[i] \in Proven

\* Entitled to stay: proved under the current password, or excused.
Current(i) ==
    \/ proof[i] >= password[subject[i]]
    \/ ResetPending(subject[i])
    \/ i \in overlap

\* ResetEvicts, extended to what is about to be stored.
Evicted == \A i \in Requests : Alive(i) => Current(i)

\* What a step must do to keep Evicted, when it changes no password.
LEMMA EvictedKept ==
    ASSUME Evicted, NEW r \in Requests, password' = password,
           \A i \in Requests : i # r =>
               /\ pc'[i] = pc[i] /\ subject'[i] = subject[i] /\ proof'[i] = proof[i]
               /\ tokens'[i] # None => tokens[i] # None
               /\ i \in overlap => i \in overlap',
           pc[r] \in {"reset.revoke", "reset.halfway"} =>
               /\ pc'[r] \in {"reset.revoke", "reset.halfway"}
               /\ subject'[r] = subject[r],
           Alive(r)' =>
               \/ proof'[r] >= password[subject'[r]]
               \/ r \in overlap'
               \/ ResetPending(subject'[r])
    PROVE  Evicted'
<1>1. \A u \in Users \cup {None} : ResetPending(u) => ResetPending(u)'
  BY DEF ResetPending
<1> QED BY <1>1 DEF Evicted, Alive, Current, ResetPending

\* Deleting the records of a user keeps Evicted: who is stored or proved for him
\* was deleted or is in flight.
LEMMA EvictedRevoke ==
    ASSUME IInv, Evicted, NEW r \in Requests, NEW label,
           Revoke(r, label), pc[r] \in Awaiting, tokens[r] = None,
           label \in {"reset.done", "refresh.reuse"}
    PROVE  Evicted'
<1>1. /\ pc'[r] = label
      /\ \A q \in Requests : q # r => pc'[q] = pc[q]
      /\ UNCHANGED <<password, subject, proof>>
  BY DEF Revoke, Goto, account, locals, IInv, TypeOK
<1>2. \A q \in Requests :
          tokens'[q] = IF tokens[q] # None /\ tokens[q].user = subject[r]
                       THEN None ELSE tokens[q]
  BY DEF Revoke, DeleteAllForUser
<1>3. SUFFICES ASSUME NEW i \in Requests, Alive(i)'
               PROVE  Current(i)'
  BY DEF Evicted
<1>4. i # r
  BY <1>1, <1>2, <1>3 DEF Alive, Proven, Awaiting, LoggingIn
<1>5. Alive(i)
  BY <1>1, <1>2, <1>3, <1>4 DEF Alive
<1>6. CASE subject[i] = subject[r]
  <2>1. pc[i] \in Proven
    BY <1>1, <1>2, <1>3, <1>4, <1>6 DEF Alive, IInv, Settled, Records
  <2> QED BY <1>4, <1>6, <2>1 DEF Revoke, Current, Proven
<1>7. CASE subject[i] # subject[r]
  <2>1. ResetPending(subject[i]) => ResetPending(subject[i])'
    BY <1>1, <1>7 DEF ResetPending
  <2>2. i \in overlap => i \in overlap'
    BY DEF Revoke
  <2> QED BY <1>1, <1>5, <2>1, <2>2 DEF Evicted, Current
<1> QED BY <1>6, <1>7

\* Every step keeps Evicted.
LEMMA EvictedStep ==
    ASSUME IInv, Evicted, [Next]_vars
    PROVE  Evicted'
<1>1. CASE Surroundings
  <2>1. \A u \in Users \cup {None} : ResetPending(u) => ResetPending(u)'
    BY <1>1 DEF Surroundings, ResetPending
  <2> QED BY <1>1, <2>1 DEF Surroundings, Shrinks, Evicted, Alive, Current, ResetPending,
          account
<1>3. CASE Restarts
  <2>1. ASSUME NEW i \in Requests
        PROVE  ~Alive(i)'
    BY <1>3 DEF Restarts, Alive, Proven
  <2> QED BY <2>1 DEF Evicted
<1>2. ASSUME NEW r \in Requests, Changes(r)
      PROVE  Evicted'
  <2>1. CASE Moves(r)
    BY <2>1, EvictedKept DEF Moves, Follows, Goto, Kept, Evicted, Alive,
       Current, Awaiting, LoggingIn, IInv, TypeOK
  <2>2. CASE Saves(r)
    BY <2>2, EvictedKept DEF Saves, Saving, Saved, Refreshed, SecretEnds, SessionEnds, Goto, Evicted, Alive,
       Current, Proven, Awaiting, LoggingIn, LoginEarly, IInv, TypeOK
  <2>3. CASE Takes(r)
    <3>1. PICK i \in Stored : i # r /\ subject[i] = tokens[i].user /\ Adopt(r, i)
      BY <2>3 DEF Takes
    <3>2. Current(i)
      BY <3>1 DEF Evicted, Alive
    <3>3. /\ subject'[r] = subject[i] /\ proof'[r] = proof[i]
          /\ i \in overlap => r \in overlap'
          /\ overlap \subseteq overlap'
          /\ \A q \in Requests : q # r => subject'[q] = subject[q] /\ proof'[q] = proof[q]
      BY <3>1 DEF Adopt, IInv, TypeOK
    <3>4. pc[r] = "idle" /\ \A q \in Requests : q # r => pc'[q] = pc[q]
      BY <2>3 DEF Takes, Goto, IInv, TypeOK
    <3>5. UNCHANGED <<tokens, password>>
      BY <2>3 DEF Takes
    <3> QED BY <3>2, <3>3, <3>4, <3>5, EvictedKept DEF Current
  <2>4. CASE StartsLogin(r)
    BY <2>4, UnsavedRecord, EvictedKept DEF StartsLogin, LoginArrive, Arrive, Goto, account,
       Alive, Proven, LoginEarly, Awaiting, LoggingIn, Unsaved, IInv, TypeOK
  <2>5. CASE StartsLink(r)
    BY <2>5, EvictedKept DEF StartsLink, LinkStart, Arrive, Goto, account, IInv, TypeOK
  <2>6. CASE LoginAuthenticated(r)
    BY <2>6, EvictedKept DEF LoginAuthenticated, Goto, account, IInv, TypeOK,
       Settled, Subjects, Awaiting, LoggingIn
  <2>7. CASE SetupStart(r)
    BY <2>7, UnsavedRecord, EvictedKept DEF SetupStart, Arrive, Goto, account, history,
       Alive, Proven, Awaiting, LoggingIn, Unsaved, IInv, TypeOK
  <2>8. CASE SetupSave(r)
    BY <2>8, UnsavedRecord, EvictedKept DEF SetupSave, NoteRacing, Goto, locals,
       Alive, Proven, Awaiting, LoggingIn, Unsaved, IInv, TypeOK
  <2>9. CASE ResetChange(r)
    <3>1. subject[r] \in Users
      BY <2>9 DEF ResetChange, IInv, Settled, Subjects, Awaiting, LoggingIn
    <3>2. /\ pc'[r] = "reset.revoke"
          /\ \A q \in Requests : q # r => pc'[q] = pc[q]
          /\ \A u \in Users : u # subject[r] => password'[u] = password[u]
          /\ UNCHANGED <<tokens, subject, proof, overlap>>
      BY <2>9 DEF ResetChange, Goto, locals, history, IInv, TypeOK
    <3>3. ResetPending(subject[r])'
      BY <3>2 DEF ResetPending
    <3>4. SUFFICES ASSUME NEW i \in Requests, Alive(i)'
                   PROVE  Current(i)'
      BY DEF Evicted
    <3>5. CASE subject[i] = subject[r]
      BY <3>2, <3>3, <3>5 DEF Current, ResetPending
    <3>6. CASE subject[i] # subject[r]
      <4>1. Alive(i)
        BY <2>9, <3>2, <3>4 DEF ResetChange, Alive, Proven, Awaiting,
           LoggingIn, LoginEarly
      <4>2. ResetPending(subject[i]) => ResetPending(subject[i])'
        BY <2>9, <3>2 DEF ResetPending, ResetChange
      <4>3. subject[i] \in Users
        BY <4>1 DEF Alive, Proven, IInv, Settled, Subjects, Records, TypeOK, TokensType,
           Record
      <4> QED BY <3>2, <3>6, <4>1, <4>2, <4>3 DEF Evicted, Current
    <3> QED BY <3>5, <3>6
  <2>10. CASE ResetRevoke(r) \/ RefreshRevoke(r)
    BY <2>10, UnsavedRecord, EvictedRevoke DEF ResetRevoke, RefreshRevoke,
       Unsaved, Awaiting, LoggingIn
  <2> QED BY <1>2, <2>1, <2>2, <2>3, <2>4, <2>5, <2>6, <2>7, <2>8, <2>9, <2>10 DEF Changes
<1> QED BY <1>1, <1>2, <1>3, StepKinds

\* Whatever the store holds was obtained under the current password, but for
\* resets between their two writes and for requests in flight at a revocation.
THEOREM ResetRevokes == Spec => []ResetEvicts
<1>1. Init => Evicted
  BY DEF Init, Evicted, Alive, Proven, Awaiting, LoggingIn
<1>2. IInv /\ Evicted /\ [Next]_vars => Evicted'
  BY EvictedStep
<1>3. IInv /\ Evicted => ResetEvicts
  BY DEF IInv, Settled, Records, TypeOK, TokensType, Record, Evicted, Alive, Current,
     ResetEvicts
<1> QED BY <1>1, <1>2, <1>3, Invariance, PTL DEF Spec

-----------------------------------------------------------------------------
(* The report of reuse.                                                    *)

\* A refresh token whose reuse was reported had been handed out.
Bases ==
    \A r \in Requests : pc[r] = "refresh.reuse" =>
        found[r] \in Requests /\ pc[found[r]] \in SessionEnds \cup {"orphaned", "refresh.orphaned"}

\* ReuseEvicts, extended to what is being derived: a session descending from the
\* token is gone or excused, and so is a request that is refreshing one.
Derived(c) ==
    /\ c \in Stored => c \in overlap
    /\ \A q \in Requests : pc[q] \in Refreshing /\ found[q] = c => q \in overlap
Reported(b) == \E r \in Requests : pc[r] = "refresh.reuse" /\ found[r] = b
Covered ==
    \A b, c \in Requests : Reported(b) /\ Descends(c, b) => Derived(c)

\* Descent is a matter of completed refreshes alone.
LEMMA SameDescent ==
    ASSUME NEW c, NEW b,
           \A q \in Requests :
               /\ pc'[q] \in Refreshed <=> pc[q] \in Refreshed
               /\ pc[q] \in Refreshed => found'[q] = found[q]
    PROVE  Descends(c, b)' <=> Descends(c, b)
BY DEF Descends

\* Sessions that descend from one another are one user's.
LEMMA SameUser ==
    ASSUME IInv, NEW b \in Requests, NEW c \in Requests, Descends(c, b)
    PROVE  subject[c] = subject[b]
<1> DEFINE line == {x \in Requests : subject[x] = subject[b]}
<1>1. \A q \in Requests : pc[q] \in Refreshed /\ found[q] \in line => q \in line
  BY DEF IInv, Settled, Found, Origin, Source, Refreshed, SessionEnds
<1>2. line \in SUBSET Requests /\ b \in line
  OBVIOUS
<1> HIDE DEF line
<1>3. c \in line
  BY <1>1, <1>2 DEF Descends
<1> QED BY <1>3 DEF line

\* A completed refresh adds itself to the descendants of what it refreshed, and
\* nothing else.
LEMMA NewDescent ==
    ASSUME IInv, NEW r \in Requests, pc[r] = "refresh.save", pc'[r] \in Refreshed,
           \A q \in Requests : q # r => pc'[q] = pc[q],
           found' = found,
           NEW b \in Requests, b # r, NEW c \in Requests, Descends(c, b)'
    PROVE  IF c = r THEN Descends(found[r], b) ELSE Descends(c, b)
<1>1. \A q \in Requests : pc[q] \in Refreshed => found[q] # r
  BY DEF IInv, Settled, Found, Origin, Source, Refreshed, SessionEnds
<1>2. found[r] \in Requests
  BY DEF IInv, Settled, Found, Origin, Source, Refreshed, SessionEnds
<1>3. CASE c = r
  <2> SUFFICES ASSUME NEW line \in SUBSET Requests, b \in line,
                      \A q \in Requests :
                          pc[q] \in Refreshed /\ found[q] \in line => q \in line,
                      found[r] \notin line
               PROVE  FALSE
    BY <1>3 DEF Descends
  <2> DEFINE others == line \ {r}
  <2>1. others \in SUBSET Requests /\ b \in others
    OBVIOUS
  <2>2. \A q \in Requests : pc'[q] \in Refreshed /\ found'[q] \in others => q \in others
    OBVIOUS
  <2> HIDE DEF others
  <2>3. r \in others
    BY <1>3, <2>1, <2>2 DEF Descends
  <2> QED BY <2>3 DEF others
<1>4. CASE c # r
  <2> SUFFICES ASSUME NEW line \in SUBSET Requests, b \in line,
                      \A q \in Requests :
                          pc[q] \in Refreshed /\ found[q] \in line => q \in line
               PROVE  c \in line
    BY <1>4 DEF Descends
  <2> DEFINE more == line \cup {r}
  <2>1. more \in SUBSET Requests /\ b \in more
    OBVIOUS
  <2>2. \A q \in Requests : pc'[q] \in Refreshed /\ found'[q] \in more => q \in more
    BY <1>1
  <2> HIDE DEF more
  <2>3. c \in more
    BY <2>1, <2>2 DEF Descends
  <2> QED BY <1>4, <2>3 DEF more
<1> QED BY <1>3, <1>4

\* Who was not obtained by refreshing descends from itself alone.
LEMMA Founder ==
    ASSUME NEW r \in Requests, pc[r] \notin Refreshed,
           NEW b \in Requests, b # r
    PROVE  ~Descends(r, b)
<1> DEFINE line == Requests \ {r}
<1>1. line \in SUBSET Requests /\ b \in line /\ r \notin line
  OBVIOUS
<1>2. \A q \in Requests : pc[q] \in Refreshed /\ found[q] \in line => q \in line
  OBVIOUS
<1> HIDE DEF line
<1> QED BY <1>1, <1>2 DEF Descends

\* What a step must do to keep Covered, when it completes no refresh and reports
\* no reuse.
LEMMA CoveredKept ==
    ASSUME IInv, Covered, NEW r \in Requests,
           pc[r] \notin Ends, pc'[r] \notin Refreshed \cup {"refresh.reuse"},
           \A q \in Requests : q # r =>
               /\ pc'[q] = pc[q] /\ found'[q] = found[q]
               /\ tokens'[q] # None => tokens[q] # None
               /\ q \in overlap => q \in overlap',
           tokens'[r] # None => tokens[r] # None /\ (r \in overlap => r \in overlap'),
           pc'[r] \in Refreshing =>
               /\ Derived(found'[r]) => r \in overlap'
               /\ found'[r] \in Requests
    PROVE  Covered'
<1> SUFFICES ASSUME NEW b \in Requests, NEW c \in Requests, Reported(b)', Descends(c, b)'
             PROVE  Derived(c)'
  BY DEF Covered
<1>1. Reported(b)
  BY DEF Reported
<1>2. Descends(c, b)
  BY SameDescent DEF Ends, Saved, Refreshed, SecretEnds, SessionEnds
<1>3. Derived(c)
  BY <1>1, <1>2 DEF Covered
<1>4. (c \in Stored)' => c \in overlap'
  BY <1>3 DEF Derived
<1>5. \A q \in Requests : pc'[q] \in Refreshing /\ found'[q] = c => q \in overlap'
  BY <1>3 DEF Derived
<1> QED BY <1>4, <1>5 DEF Derived

\* Saving a record keeps Covered: a refreshed session is excused if the refresh
\* was, and any other session descends from none that was reported.
LEMMA CoveredSave ==
    ASSUME IInv, Bases, Covered, NEW r \in Requests, Saves(r)
    PROVE  Covered'
<1>1. /\ pc'[r] \in Saved \cup {"forgot.send", "send.send", "failed"}
      /\ \A q \in Requests : q # r => pc'[q] = pc[q]
      /\ UNCHANGED <<found, overlap>>
      /\ \A q \in Requests : q # r => tokens'[q] = tokens[q]
  BY DEF Saves, Goto, IInv, TypeOK
<1>2. SUFFICES ASSUME NEW b \in Requests, NEW c \in Requests, Reported(b)', Descends(c, b)'
               PROVE  Derived(c)'
  BY DEF Covered
<1>3. Reported(b) /\ b # r
  BY <1>1, <1>2 DEF Reported, Bases, Saves, Saving, Saved, Refreshed, SecretEnds, SessionEnds
<1>4. \A q \in Requests : pc'[q] \in Refreshing => pc[q] \in Refreshing /\ found[q] # r
  BY <1>1 DEF Refreshing, IInv, Settled, Found, Origin, Source, Saved, Refreshed, SecretEnds, SessionEnds,
     Saves, Saving
<1>5. CASE c # r
  <2>1. Descends(c, b)
    <3>1. CASE pc'[r] \in Refreshed
      <4>1. pc[r] = "refresh.save"
        BY <3>1 DEF Saves
      <4> QED BY <1>1, <1>2, <1>3, <1>5, <3>1, <4>1, NewDescent
    <3>2. CASE pc'[r] \notin Refreshed
      BY <1>1, <1>2, <3>2, SameDescent DEF Saves, Saving, Refreshed
    <3> QED BY <3>1, <3>2
  <2>2. Derived(c)
    BY <1>3, <2>1 DEF Covered
  <2> QED BY <1>1, <1>4, <1>5, <2>2 DEF Derived
<1>6. CASE c = r
  <2>1. pc'[r] \in Refreshed
    <3>1. CASE pc'[r] \notin Refreshed
      <4>1. pc[r] \notin Refreshed
        BY DEF Saves, Saving, Refreshed
      <4>2. Descends(r, b)
        BY <1>1, <1>2, <1>6, <3>1, <4>1, SameDescent
      <4> QED BY <1>3, <4>1, <4>2, Founder
    <3> QED BY <3>1
  <2>2. pc[r] = "refresh.save"
    BY <2>1 DEF Saves
  <2>3. Descends(found[r], b)
    BY <1>1, <1>2, <1>3, <1>6, <2>1, <2>2, NewDescent
  <2>4. found[r] \in Requests
    BY <2>2 DEF IInv, Settled, Found, Origin, Source, Refreshed, SessionEnds
  <2>5. r \in overlap
    BY <1>3, <2>2, <2>3, <2>4 DEF Covered, Derived, Refreshing
  <2> QED BY <1>1, <1>4, <1>6, <2>5 DEF Derived
<1> QED BY <1>5, <1>6

\* The report of reuse makes Covered true of the token reported: the descendants
\* are the same user's, and were deleted or are in flight.
LEMMA CoveredRevoke ==
    ASSUME IInv, Covered, NEW r \in Requests, RefreshRevoke(r)
    PROVE  Covered'
<1>1. /\ pc[r] = "refresh.revoke" /\ pc'[r] = "refresh.reuse"
      /\ \A q \in Requests : q # r => pc'[q] = pc[q]
      /\ UNCHANGED <<found, subject>>
      /\ overlap \subseteq overlap'
      /\ \A q \in Requests :
             tokens'[q] = IF tokens[q] # None /\ tokens[q].user = subject[r]
                          THEN None ELSE tokens[q]
      /\ \A q \in Requests :
             q # r /\ pc[q] \in Awaiting /\ subject[q] = subject[r] => q \in overlap'
  BY DEF RefreshRevoke, Revoke, DeleteAllForUser, Goto, locals, IInv, TypeOK
<1>2. SUFFICES ASSUME NEW b \in Requests, NEW c \in Requests, Reported(b)', Descends(c, b)'
               PROVE  Derived(c)'
  BY DEF Covered
<1>3. Descends(c, b)
  BY <1>1, <1>2, SameDescent DEF Refreshed
<1>4. \A q \in Requests : pc'[q] \in Refreshing => q # r /\ pc[q] \in Refreshing
  BY <1>1 DEF Refreshing
<1>5. CASE Reported(b)
  <2>1. Derived(c)
    BY <1>3, <1>5 DEF Covered
  <2> QED BY <1>1, <1>4, <2>1 DEF Derived
<1>6. CASE ~Reported(b)
  <2>1. found[r] = b
    BY <1>1, <1>2, <1>6 DEF Reported
  <2>2. subject[c] = subject[r]
    BY <1>1, <1>3, <2>1, SameUser DEF IInv, Settled, Found, Origin, SessionEnds
  <2>3. c \notin Stored'
    BY <1>1, <2>2 DEF IInv, Settled, Records
  <2>4. \A q \in Requests : pc[q] \in Refreshing => subject[found[q]] = subject[q]
    BY DEF Refreshing, IInv, Settled, Found, Origin, Source, Refreshed, SessionEnds
  <2>5. \A q \in Requests : pc'[q] \in Refreshing /\ found'[q] = c => q \in overlap'
    BY <1>1, <1>4, <2>2, <2>4 DEF Refreshing, Awaiting, LoggingIn
  <2> QED BY <2>3, <2>5 DEF Derived
<1> QED BY <1>5, <1>6

\* Every step keeps Bases: sessions once handed out stay so.
LEMMA BasesStep ==
    ASSUME IInv, Bases, [Next]_vars
    PROVE  Bases'
<1>1. CASE Surroundings
  BY <1>1 DEF Surroundings, Bases
<1>3. CASE Restarts
  <2>1. \A q \in Requests :
            /\ pc'[q] = "refresh.reuse" => pc[q] = "refresh.reuse"
            /\ pc[q] \in SessionEnds \cup {"orphaned", "refresh.orphaned"} => pc'[q] = pc[q]
    BY <1>3 DEF Restarts, Awaiting, LoggingIn, SessionEnds
  <2> QED BY <1>3, <2>1 DEF Restarts, Bases
<1>2. ASSUME NEW r \in Requests, Changes(r)
      PROVE  Bases'
  <2>1. /\ \A q \in Requests : q # r => pc'[q] = pc[q] /\ found'[q] = found[q]
        /\ pc[r] \notin SessionEnds \cup {"orphaned", "refresh.orphaned"}
    BY <1>2 DEF Changes, Moves, Follows, Saves, Saving, Takes, Adopt, StartsLogin,
       StartsLink, LoginArrive, LinkStart, Arrive, LoginAuthenticated, SetupStart, SetupSave,
       ResetChange, ResetRevoke, RefreshRevoke, Revoke, Goto, IInv, TypeOK,
       locals, Awaiting, LoggingIn, SessionEnds
  <2>2. CASE RefreshRevoke(r)
    <3>1. found' = found /\ found[r] \in Requests /\ pc[found[r]] \in SessionEnds \cup {"orphaned", "refresh.orphaned"}
      BY <2>2 DEF RefreshRevoke, Revoke, locals, IInv, Settled, Found, Origin, SessionEnds
    <3> QED BY <2>1, <3>1 DEF Bases
  <2>3. CASE ~RefreshRevoke(r)
    <3>1. pc'[r] # "refresh.reuse"
      BY <1>2, <2>3 DEF Changes, Moves, Follows, Saves, Saved, Refreshed, SecretEnds, SessionEnds, Takes,
         Claims, StartsLogin, StartsLink, LoginArrive, LinkStart, LoginAuthenticated,
         SetupStart, SetupSave, ResetChange, ResetRevoke, Revoke, Goto, IInv, TypeOK
    <3> QED BY <2>1, <3>1 DEF Bases
  <2> QED BY <2>2, <2>3
<1> QED BY <1>1, <1>2, <1>3, StepKinds

\* Every step keeps Covered.
LEMMA CoveredStep ==
    ASSUME IInv, Bases, Covered, [Next]_vars
    PROVE  Covered'
<1>1. CASE Surroundings
  <2>1. \A b, c \in Requests : Descends(c, b)' <=> Descends(c, b)
    BY <1>1, SameDescent DEF Surroundings
  <2> QED BY <1>1, <2>1 DEF Surroundings, Shrinks, Covered, Reported, Derived
<1>3. CASE Restarts
  <2>1. \A q \in Requests :
            /\ pc'[q] = "refresh.reuse" <=> pc[q] = "refresh.reuse"
            /\ pc'[q] \in Refreshed <=> pc[q] \in Refreshed
            /\ pc'[q] \notin Refreshing
    BY <1>3 DEF Restarts, Awaiting, LoggingIn, Refreshing, Refreshed
  <2>2. \A b, c \in Requests : Descends(c, b)' <=> Descends(c, b)
    BY <1>3, <2>1, SameDescent DEF Restarts
  <2> QED BY <1>3, <2>1, <2>2 DEF Restarts, Covered, Reported, Derived
<1>2. ASSUME NEW r \in Requests, Changes(r)
      PROVE  Covered'
  <2> USE DEF Ends, Saved, Refreshed, SecretEnds, SessionEnds, Awaiting, LoggingIn, Refreshing
  <2>1. CASE Moves(r)
    <3>1. pc[r] \in Refreshing => found[r] \in Requests
      BY DEF IInv, Settled, Found, Origin, Source, Refreshed
    <3>2. /\ \A q \in Requests : q # r => pc'[q] = pc[q]
          /\ pc[r] \notin Ends /\ pc'[r] \notin Refreshed \cup {"refresh.reuse"}
          /\ pc'[r] \in Refreshing => pc[r] \in Refreshing
          /\ \A q \in Requests : tokens'[q] # None => tokens[q] # None
          /\ UNCHANGED <<found, overlap>>
      BY <2>1 DEF Moves, Follows, Kept, Goto, IInv, TypeOK
    <3>3. pc[r] \in Refreshing /\ Derived(found[r]) => r \in overlap
      BY DEF Derived
    <3>4. found'[r] = found[r] /\ overlap' = overlap
      BY <3>2
    <3>5. pc'[r] \in Refreshing /\ Derived(found'[r]) => r \in overlap'
      BY <3>2, <3>3, <3>4
    <3> QED BY <3>1, <3>2, <3>4, <3>5, CoveredKept
  <2>2. CASE Saves(r)
    BY <2>2, CoveredSave
  <2>3. CASE Takes(r)
    <3>1. PICK i \in Stored : i # r /\ Adopt(r, i)
      BY <2>3 DEF Takes
    <3>2. /\ found'[r] = i /\ overlap \subseteq overlap'
          /\ \A q \in Requests : q # r => found'[q] = found[q]
      BY <3>1 DEF Adopt, IInv, TypeOK
    <3>3. Derived(i) => r \in overlap'
      BY <3>1 DEF Adopt, Derived
    <3>4. Derived(found'[r]) => r \in overlap'
      BY <3>2, <3>3
    <3>5. found'[r] \in Requests
      BY <3>1, <3>2
    <3>6. /\ \A q \in Requests : q # r => pc'[q] = pc[q]
          /\ pc[r] \notin Ends /\ pc'[r] \notin Refreshed \cup {"refresh.reuse"}
      BY <2>3 DEF Takes, Claims, Goto, IInv, TypeOK
    <3>7. tokens' = tokens
      BY <2>3 DEF Takes
    <3> QED BY <3>2, <3>4, <3>5, <3>6, <3>7, CoveredKept
  <2>4. CASE StartsLogin(r) \/ StartsLink(r) \/ SetupStart(r)
    BY <2>4, CoveredKept DEF StartsLogin, StartsLink, LoginArrive, LinkStart, SetupStart,
       Arrive, Goto, account, history, IInv, TypeOK
  <2>5. CASE LoginAuthenticated(r)
    <3>1. tokens[r] = None
      BY <2>5, UnsavedRecord DEF LoginAuthenticated, Unsaved
    <3> QED BY <2>5, <3>1, CoveredKept DEF LoginAuthenticated, Goto, account, IInv, TypeOK
  <2>6. CASE SetupSave(r) \/ ResetChange(r)
    BY <2>6, CoveredKept DEF SetupSave, NoteRacing, ResetChange, Goto, locals, history,
       IInv, TypeOK
  <2>7. CASE ResetRevoke(r)
    BY <2>7, CoveredKept DEF ResetRevoke, Revoke, DeleteAllForUser, Goto, locals, IInv,
       TypeOK
  <2>8. CASE RefreshRevoke(r)
    BY <2>8, CoveredRevoke
  <2> QED BY <1>2, <2>1, <2>2, <2>3, <2>4, <2>5, <2>6, <2>7, <2>8 DEF Changes
<1> QED BY <1>1, <1>2, <1>3, StepKinds

\* Once the reuse of a refresh token is reported, no session derived from it is
\* left in the store, but for requests in flight at the revocation.
THEOREM ReuseRevokes == Spec => []ReuseEvicts
<1>1. Init => Bases /\ Covered
  BY DEF Init, Bases, Covered, Reported
<1>2. IInv /\ Bases /\ Covered /\ [Next]_vars => Bases' /\ Covered'
  BY BasesStep, CoveredStep
<1>3. Bases /\ Covered => ReuseEvicts
  BY DEF Bases, Covered, Reported, Derived, ReuseEvicts
<1> QED BY <1>1, <1>2, <1>3, Invariance, PTL DEF Spec
=============================================================================
