-------------------------- MODULE RefinementProofs --------------------------
(***************************************************************************)
(* What TLAPS proves of the life of tokens: AuthService implements         *)
(* TokenLifecycle, for any requests, users, limits and lives, with the     *)
(* store in memory or not.  Every step of the service is sorted by what it *)
(* does to records and labels, and each sort is a step of the abstract     *)
(* specification or none.                                                  *)
(***************************************************************************)
EXTENDS AuthServiceProofs

USE DEF Stored, Maybe

-----------------------------------------------------------------------------
(* The sorts of steps.                                                     *)

\* Labels past the save, where a record that is missing is a record that is gone.
Departed == SecretEnds \cup {"orphaned", "refresh.orphaned", "forgot.send", "send.send", "failed"}

\* Labels before a request's own markConsumed.
Beforehand == {"idle", "refresh.consume", "logout.consume", "complete.verify",
               "complete.consume", "reset.consume", "verify.consume"}

\* A request has redeemed nothing before its markConsumed.
Thrifty == \A r \in Requests : pc[r] \in Beforehand => spent[r] = None

Stays(r) ==
    /\ \E label :
          /\ Goto(r, label)
          /\ label \in Beforehand => pc[r] \in Beforehand
          /\ label \in Departed => pc[r] \in Departed \/ label = "failed"
          /\ pc[r] \in Departed => label \in Departed
    /\ UNCHANGED <<tokens, spent>>
Spends(r) ==
    /\ pc[r] \in Beforehand \cap Awaiting /\ Origin(pc[r]) # {}
    /\ \E won, lost :
          /\ {won, lost} \cap (Departed \cup Beforehand) = {}
          /\ Consume(r, won, lost)
Revokes(r) ==
    /\ pc[r] \in {"refresh.revoke", "reset.revoke"}
    /\ \E label \in {"refresh.reuse", "reset.done"} : Revoke(r, label)
Issues(r) ==
    /\ pc[r] \in Saving
    /\ \E type \in TokenTypes, ttl \in Nat, label \in Departed : SaveIssued(r, type, ttl, label)
Around == Shrinks /\ UNCHANGED <<pc, spent>>

\* Every step is of one of these sorts.
LEMMA Sorts ==
    ASSUME IInv, Next
    PROVE  Around \/ Restart
           \/ \E r \in Requests : Stays(r) \/ Spends(r) \/ Revokes(r) \/ Issues(r)
<1> USE DEF SessionEnds, SecretEnds, Departed, Beforehand, Saving, Awaiting,
   LoggingIn, TokenTypes
<1>1. ASSUME NEW r \in Requests,
             RefreshArrival(r) \/ RefreshStep(r) \/ LogoutArrival(r) \/ LogoutStep(r)
      PROVE  Stays(r) \/ Spends(r) \/ Revokes(r) \/ Issues(r)
  <2>1. CASE RefreshArrival(r) \/ LogoutArrival(r)
    BY <2>1 DEF RefreshArrival, LogoutArrival, RefreshClaim, RefreshReused, RefreshUnknown,
       RefreshExpired, LogoutClaim, LogoutNothing, Arrive, Claim, ClaimUsed, RefuseUnknown,
       RefuseExpired, Reject, Goto, history, Stays
  <2>2. CASE RefreshConsume(r) \/ LogoutConsume(r)
    BY <2>2 DEF RefreshConsume, LogoutConsume, Spends, Origin
  <2>3. CASE RefreshVerify(r) \/ RefreshIssue(r) \/ RefreshStale(r)
    BY <2>3 DEF RefreshVerify, RefreshIssue, RefreshStale, Reject, Issue, Goto, history, Stays
  <2>4. CASE RefreshRevoke(r)
    BY <2>4 DEF RefreshRevoke, Revokes
  <2>5. CASE RefreshSave(r)
    BY <2>5, TtlAssumption DEF RefreshSave, SaveSession, Issues
  <2> QED BY <1>1, <2>1, <2>2, <2>3, <2>4, <2>5 DEF RefreshStep, LogoutStep
<1>2. ASSUME NEW r \in Requests, LoginArrival(r) \/ LoginStep(r)
      PROVE  Stays(r) \/ Issues(r)
  <2>1. CASE LoginArrival(r)
    BY <2>1 DEF LoginArrival, LoginStart, LoginBlocked, LoginLapsed, LoginArrive, Arrive,
       Goto, Stays
  <2>2. CASE \/ LoginUnlock(r) \/ LoginForget(r) \/ LoginAuthenticated(r) \/ LoginRefused(r)
             \/ LoginCount(r) \/ LoginRecord(r) \/ LoginLock(r)
             \/ LoginReset(r) \/ LoginRelease(r) \/ LoginBranch(r)
    BY <2>2 DEF LoginUnlock, LoginForget, LoginAuthenticated, LoginRefused, LoginCount,
       LoginRecord, LoginLock, LoginReset, LoginRelease, LoginBranch, ClearLock, ClearFailed,
       NoteRacing, Goto, history, Stays
  <2>3. CASE LoginChallenge(r) \/ LoginSave(r)
    BY <2>3, TtlAssumption DEF LoginChallenge, LoginSave, SaveSession, Issues
  <2> QED BY <1>2, <2>1, <2>2, <2>3 DEF LoginStep
<1>3. ASSUME NEW r \in Requests,
             CompleteArrival(r) \/ CompleteStep(r) \/ SetupArrival(r) \/ SetupStep(r)
      PROVE  Stays(r) \/ Spends(r) \/ Issues(r)
  <2>1. CASE CompleteArrival(r) \/ SetupArrival(r)
    BY <2>1 DEF CompleteArrival, SetupArrival, CompleteClaim, CompleteUnknown, CompleteUsed,
       CompleteExpired, SetupStart, Arrive, Claim, RefuseUnknown, RefuseUsed, RefuseExpired,
       Reject, Goto, history, Stays
  <2>2. CASE \/ CompleteVerified(r) \/ CompleteMistyped(r) \/ CompleteIssue(r)
             \/ SetupSave(r) \/ SetupAnswer(r)
    BY <2>2 DEF CompleteVerified, CompleteMistyped, CompleteIssue, SetupSave, SetupAnswer,
       NoteRacing, Reject, Issue, Goto, history, Stays
  <2>3. CASE CompleteConsume(r)
    BY <2>3 DEF CompleteConsume, Spends, Origin
  <2>4. CASE CompleteSave(r)
    BY <2>4, TtlAssumption DEF CompleteSave, SaveSession, Issues
  <2> QED BY <1>3, <2>1, <2>2, <2>3, <2>4 DEF CompleteStep, SetupStep
<1>4. ASSUME NEW r \in Requests,
             \/ LinkArrival(r) \/ LinkStep(r) \/ ResetArrival(r) \/ ResetStep(r)
             \/ VerifyArrival(r) \/ VerifyStep(r)
      PROVE  Stays(r) \/ Spends(r) \/ Revokes(r) \/ Issues(r)
  <2>1. CASE LinkArrival(r) \/ ResetArrival(r) \/ VerifyArrival(r)
    BY <2>1 DEF LinkArrival, ResetArrival, VerifyArrival, ForgotStart, ForgotUnknown,
       SendStart, SendUnknown, LinkStart, LinkUnknown, ResetClaim, ResetUnknown, ResetUsed,
       ResetExpired, VerifyClaim, VerifyUnknown, VerifyUsed, VerifyExpired, Arrive, Claim,
       RefuseUnknown, RefuseUsed, RefuseExpired, Reject, Goto, history, Stays
  <2>2. CASE ForgotSend(r) \/ SendSend(r) \/ ResetChange(r) \/ VerifyIssue(r)
    BY <2>2 DEF ForgotSend, SendSend, LinkSent, ResetChange, VerifyIssue, Issue, Goto,
       history, Stays
  <2>3. CASE ResetConsume(r) \/ VerifyConsume(r)
    BY <2>3 DEF ResetConsume, VerifyConsume, Spends, Origin
  <2>4. CASE ResetRevoke(r)
    BY <2>4 DEF ResetRevoke, Revokes
  <2>5. CASE ForgotSave(r) \/ SendSave(r) \/ VerifySave(r)
    BY <2>5, TtlAssumption DEF ForgotSave, SendSave, VerifySave, SaveSession, Issues
  <2> QED BY <1>4, <2>1, <2>2, <2>3, <2>4, <2>5 DEF LinkStep, ResetStep, VerifyStep
<1>5. ASSUME NEW r \in Requests, Fail(r)
      PROVE  Stays(r)
  BY <1>5 DEF Fail, Broken, history, Stays
<1>6. CASE Tick \/ Purge
  BY <1>6 DEF Tick, Purge, DeleteExpired, Around, Shrinks, history
<1> QED BY <1>1, <1>2, <1>3, <1>4, <1>5, <1>6 DEF Next, Arrival, Step
-----------------------------------------------------------------------------
(* Each sort of step as a step of the life of tokens.                      *)

LifeStep == Lifecycle!Next \/ UNCHANGED <<Life, spent>>

\* A step after which every token is as before or void, and none is redeemed,
\* voids tokens.
LEMMA VoidStep ==
    ASSUME spent' = spent,
           \A i \in Requests : Life'[i] \in {Life[i], "void"}
    PROVE  Lifecycle!Next
<1> DEFINE gone == {i \in Requests : Life'[i] = "void"}
<1>1. Life' = [i \in Requests |-> IF i \in gone THEN "void" ELSE Life[i]]
  BY DEF Life
<1>2. gone \in SUBSET Requests
  OBVIOUS
<1>3. Lifecycle!Void(gone)
  BY <1>1 DEF Lifecycle!Void
<1> QED BY <1>2, <1>3 DEF Lifecycle!Next

\* Moving on voids a token at most.
LEMMA StaysStep ==
    ASSUME IInv, Thrifty, NEW r \in Requests, Stays(r)
    PROVE  Thrifty' /\ LifeStep
<1>1. PICK label :
          /\ Goto(r, label)
          /\ label \in Beforehand => pc[r] \in Beforehand
          /\ label \in Departed => pc[r] \in Departed \/ label = "failed"
          /\ pc[r] \in Departed => label \in Departed
          /\ UNCHANGED <<tokens, spent>>
  BY DEF Stays
<1>2. pc'[r] = label /\ \A q \in Requests : q # r => pc'[q] = pc[q]
  BY <1>1 DEF Goto, IInv, TypeOK
<1>3. Thrifty'
  BY <1>1, <1>2 DEF Thrifty
<1>4. \A i \in Requests : Life'[i] \in {Life[i], "void"}
  BY <1>1, <1>2 DEF Life, Departed
<1> QED BY <1>1, <1>3, <1>4, VoidStep DEF LifeStep

\* markConsumed redeems a live token for a request that has redeemed none.
LEMMA SpendsStep ==
    ASSUME IInv, Thrifty, NEW r \in Requests, Spends(r)
    PROVE  Thrifty' /\ LifeStep
<1>1. PICK won, lost :
          /\ {won, lost} \cap (Departed \cup Beforehand) = {}
          /\ Consume(r, won, lost)
  BY DEF Spends
<1>2. /\ found[r] \in Requests /\ pc[found[r]] \in Origin(pc[r]) /\ spent[r] = None
      /\ found[r] # r
  BY OriginEnds DEF Spends, Thrifty, IInv, Settled, Found, Saved, SecretEnds,
     SessionEnds, Awaiting, LoggingIn
<1>3. PICK label \in {won, lost} : Goto(r, label)
  BY <1>1 DEF Consume
<1>4. /\ pc'[r] = label /\ \A q \in Requests : q # r => pc'[q] = pc[q]
      /\ label \notin Departed \cup Beforehand
      /\ \A q \in Requests : q # r => spent'[q] = spent[q]
  BY <1>1, <1>3 DEF Consume, Goto, IInv, TypeOK
<1>5. pc[r] \notin Departed
  BY DEF Spends, Departed, Beforehand, SecretEnds, SessionEnds
<1>6. Thrifty'
  BY <1>4 DEF Thrifty
<1>7. CASE UNCHANGED <<tokens, spent>>
  <2>1. \A i \in Requests : Life'[i] \in {Life[i], "void"}
    BY <1>4, <1>5, <1>7 DEF Life, Departed
  <2> QED BY <1>6, <1>7, <2>1, VoidStep DEF LifeStep
<1>8. CASE /\ Consumable(found[r])
           /\ MarkConsumed(found[r])
           /\ spent' = [spent EXCEPT ![r] = found[r]]
  <2>1. /\ tokens[found[r]] \in Record
        /\ tokens' = [tokens EXCEPT ![found[r]] = [@ EXCEPT !.consumed = TRUE]]
    BY <1>2, <1>8 DEF Consumable, MarkConsumed, IInv, TypeOK, TokensType
  <2>2. /\ tokens'[found[r]] \in Record /\ tokens'[found[r]].consumed
        /\ \A i \in Requests : i # found[r] => tokens'[i] = tokens[i]
    BY <1>2, <2>1 DEF Record, IInv, TypeOK, TokensType
  <2>3. Life[found[r]] = "live" /\ Life'[found[r]] = "used"
    BY <1>2, <1>8, <2>2, NoneAssumption DEF Life, Consumable
  <2>4. \A i \in Requests : i # found[r] => Life'[i] = Life[i]
    BY <1>4, <1>5, <2>2 DEF Life, Departed
  <2>5. Life' = [Life EXCEPT ![found[r]] = "used"]
    BY <2>3, <2>4 DEF Life
  <2>6. Lifecycle!Spend(r, found[r])
    BY <1>2, <1>8, <2>3, <2>5 DEF Lifecycle!Spend
  <2> QED BY <1>2, <1>6, <2>6 DEF LifeStep, Lifecycle!Next
<1> QED BY <1>1, <1>7, <1>8 DEF Consume

\* Revocation voids the tokens of one user.
LEMMA RevokesStep ==
    ASSUME IInv, Thrifty, NEW r \in Requests, Revokes(r)
    PROVE  Thrifty' /\ LifeStep
<1>1. PICK label \in {"refresh.reuse", "reset.done"} : Revoke(r, label)
  BY DEF Revokes
<1>2. /\ pc'[r] = label /\ \A q \in Requests : q # r => pc'[q] = pc[q]
      /\ spent' = spent
      /\ \A i \in Requests : tokens'[i] \in {tokens[i], None}
  BY <1>1 DEF Revoke, DeleteAllForUser, Goto, IInv, TypeOK
<1>3. Thrifty'
  BY <1>1, <1>2 DEF Thrifty, Beforehand
<1>4. \A i \in Requests : tokens[i] # None => pc[i] \in Departed
  BY DEF IInv, Settled, Records, TypeOK, TokensType, Record, TokenTypes, Writer, Departed,
     SecretEnds, SessionEnds
<1>5. label \notin Departed /\ pc[r] \notin Departed
  BY <1>1 DEF Revokes, Departed, SecretEnds, SessionEnds
<1>6. \A i \in Requests : Life'[i] \in {Life[i], "void"}
  BY <1>2, <1>4, <1>5 DEF Life, Departed
<1> QED BY <1>2, <1>3, <1>6, VoidStep DEF LifeStep

\* Saving a token brings it to life.
LEMMA IssuesStep ==
    ASSUME IInv, Thrifty, NEW r \in Requests, Issues(r)
    PROVE  Thrifty' /\ LifeStep
<1>1. PICK type \in TokenTypes, ttl \in Nat, label \in Departed : SaveIssued(r, type, ttl, label)
  BY DEF Issues
<1>2. /\ pc'[r] = label /\ \A q \in Requests : q # r => pc'[q] = pc[q]
      /\ spent' = spent
  BY <1>1 DEF SaveIssued, Goto, history, IInv, TypeOK
<1>3. Thrifty'
  BY <1>1, <1>2 DEF Thrifty, Beforehand, Departed, SecretEnds, SessionEnds
<1>4. /\ tokens[r] = None /\ pc[r] \notin Departed
      /\ subject[r] \in Users /\ issued[r] \in Token
  <2>1. pc[r] \in Unsaved \cap Awaiting /\ pc[r] \in Holders /\ pc[r] \notin Departed
    BY DEF Issues, Saving, Unsaved, Awaiting, LoggingIn, Departed, SecretEnds,
       SessionEnds, Holders
  <2> QED BY <2>1, UnsavedRecord DEF IInv, Settled, Subjects, Tokens
<1>5. /\ tokens'[r] = [user |-> subject[r], type |-> type, token |-> issued[r],
                       expiresAt |-> now + ttl, consumed |-> FALSE]
      /\ \A i \in Requests : i # r => tokens'[i] = tokens[i]
  BY <1>1 DEF SaveIssued, Save, IInv, TypeOK, TokensType
<1>6. tokens'[r] \in Record /\ ~tokens'[r].consumed
  BY <1>4, <1>5 DEF Record, IInv, TypeOK
<1>7. Life[r] = "unissued" /\ Life'[r] = "live"
  BY <1>4, <1>6, NoneAssumption DEF Life, Departed
<1>8. \A i \in Requests : i # r => Life'[i] = Life[i]
  BY <1>2, <1>5 DEF Life
<1>9. Life' = [Life EXCEPT ![r] = "live"]
  BY <1>7, <1>8 DEF Life
<1>10. Lifecycle!Issue(r)
  BY <1>2, <1>7, <1>9 DEF Lifecycle!Issue
<1> QED BY <1>3, <1>10 DEF LifeStep, Lifecycle!Next

\* Time and the purge void what they delete; a restart voids every token issued
\* and those in flight.
LEMMA AroundStep ==
    ASSUME IInv, Thrifty, Around \/ Restart
    PROVE  Thrifty' /\ LifeStep
<1>1. \A i \in Requests : tokens[i] # None => pc[i] \in Departed
  BY DEF IInv, Settled, Records, TypeOK, TokensType, Record, TokenTypes, Writer, Departed,
     SecretEnds, SessionEnds
<1>2. CASE Around
  <2>1. \A i \in Requests : Life'[i] \in {Life[i], "void"}
    BY <1>1, <1>2 DEF Life, Departed, Around, Shrinks
  <2> QED BY <1>2, <2>1, VoidStep DEF Around, Thrifty, LifeStep
<1>3. CASE Restart
  <2>1. /\ \A i \in Requests : tokens'[i] = None
        /\ \A i \in Requests :
              pc'[i] = IF pc[i] \in Awaiting THEN Broken(pc[i]) ELSE pc[i]
        /\ spent' = spent
    BY <1>3 DEF Restart, history
  <2>2. \A i \in Requests :
            /\ pc'[i] \in Beforehand => pc'[i] = pc[i]
            /\ pc[i] \in Departed => pc'[i] \in Departed
            /\ pc'[i] \in Departed => pc[i] \in Departed \/ pc'[i] = "failed"
    <3>1. Departed \cap Awaiting = {"forgot.send", "send.send"}
      BY DEF Departed, Awaiting, LoggingIn, SecretEnds, SessionEnds
    <3>2. /\ Broken("forgot.send") = "failed" /\ Broken("send.send") = "failed"
          /\ \A label : Broken(label) \in {"failed", "reset.halfway"}
          /\ {"failed", "reset.halfway"} \cap Beforehand = {}
          /\ "reset.halfway" \notin Departed /\ "failed" \in Departed
      BY DEF Broken, Beforehand, Departed, SecretEnds, SessionEnds
    <3> QED BY <2>1, <3>1, <3>2
  <2>3. Thrifty'
    BY <2>1, <2>2 DEF Thrifty
  <2>4. \A i \in Requests : Life'[i] \in {Life[i], "void"}
    BY <1>1, <2>1, <2>2 DEF Life, Departed
  <2> QED BY <2>1, <2>3, <2>4, VoidStep DEF LifeStep
<1> QED BY <1>2, <1>3

\* The service implements the life of tokens: a token is issued once, redeemed
\* once, by a request that redeems no other, and never lives again.
THEOREM Refinement == Spec => ImplementsLifecycle
<1>1. Init => Thrifty /\ Lifecycle!Init
  BY DEF Init, Thrifty, Lifecycle!Init, Life, SecretEnds, SessionEnds
<1>2. IInv /\ Thrifty /\ [Next]_vars => Thrifty' /\ [Lifecycle!Next]_(Lifecycle!vars)
  <2> SUFFICES ASSUME IInv, Thrifty, [Next]_vars
               PROVE  Thrifty' /\ LifeStep
    BY DEF LifeStep, Lifecycle!vars
  <2>1. CASE Next
    BY <2>1, Sorts, StaysStep, SpendsStep, RevokesStep, IssuesStep, AroundStep
  <2>2. CASE UNCHANGED vars
    BY <2>2 DEF vars, history, Thrifty, LifeStep, Life
  <2> QED BY <2>1, <2>2
<1> QED BY <1>1, <1>2, Invariance, PTL DEF Spec, ImplementsLifecycle, Lifecycle!Spec
=============================================================================
