---------------------------- MODULE RecoveryFlows ----------------------------
(***************************************************************************)
(* The e-mail flows: POST /auth/forgot-password (ForgotPasswordUseCase),   *)
(* /auth/reset-password (ResetPasswordUseCase), /auth/magic-link           *)
(* (SendMagicLinkUseCase) and /auth/magic-link/verify                      *)
(* (VerifyMagicLinkUseCase).                                               *)
(***************************************************************************)
EXTENDS AuthState

-----------------------------------------------------------------------------
(* A link is asked for: the user is looked up by e-mail address, a random  *)
(* secret is drawn and its record saved, then the mail goes out.           *)

LinkStart(r, endpoint, label) ==
    /\ Arrive(r, endpoint)
    /\ \E u \in Users :
          /\ subject' = [subject EXCEPT ![r] = u]
          /\ issued' = [issued EXCEPT ![r] = [by |-> r, sub |-> u, iat |-> 0]]
          /\ proof' = [proof EXCEPT ![r] = password[u]]
    /\ Goto(r, label)
    /\ UNCHANGED <<now, tokens, account, found, count, spent, factor, overlap, racing>>

\* An address without an account gets the same answer, and nothing is saved.
LinkUnknown(r, endpoint) == Arrive(r, endpoint) /\ Reject(r)

\* Once the mail is out its secret is with the user, whatever send answers.
LinkSent(r, from, label) ==
    /\ pc[r] = from
    /\ Goto(r, label)
    /\ UNCHANGED <<now, tokens, account, locals, history>>

ForgotStart(r)   == LinkStart(r, "forgot", "forgot.save")
ForgotUnknown(r) == LinkUnknown(r, "forgot")
ForgotSave(r) ==
    pc[r] = "forgot.save" /\ SaveIssued(r, "RESET_PASSWORD", LinkTtl, "forgot.send")
ForgotSend(r)    == LinkSent(r, "forgot.send", "forgot.done")

SendStart(r)   == LinkStart(r, "send", "send.save")
SendUnknown(r) == LinkUnknown(r, "send")
SendSave(r) ==
    pc[r] = "send.save" /\ SaveIssued(r, "MAGIC_LINK", LinkTtl, "send.send")
SendSend(r)    == LinkSent(r, "send.send", "send.done")

LinkArrival(r) ==
    ForgotStart(r) \/ ForgotUnknown(r) \/ SendStart(r) \/ SendUnknown(r)
LinkStep(r) ==
    ForgotSave(r) \/ ForgotSend(r) \/ SendSave(r) \/ SendSend(r)

-----------------------------------------------------------------------------
(* The reset token is consumed, then the password is changed in Keycloak,  *)
(* then every token of the user is deleted.                                *)

ResetClaim(r)   == Arrive(r, "reset") /\ Claim(r, "RESET_PASSWORD", "reset.consume")
ResetUnknown(r) == Arrive(r, "reset") /\ RefuseUnknown(r, "RESET_PASSWORD")
ResetUsed(r)    == Arrive(r, "reset") /\ RefuseUsed(r, "RESET_PASSWORD")
ResetExpired(r) == Arrive(r, "reset") /\ RefuseExpired(r, "RESET_PASSWORD")

ResetConsume(r) ==
    pc[r] = "reset.consume" /\ Consume(r, "reset.change", "rejected")

ResetChange(r) ==
    /\ pc[r] = "reset.change"
    /\ password' = [password EXCEPT ![subject[r]] = @ + 1]
    /\ Goto(r, "reset.revoke")
    /\ UNCHANGED <<now, tokens, totp, failed, locked, locals, history>>

ResetRevoke(r) == pc[r] = "reset.revoke" /\ Revoke(r, "reset.done")

ResetArrival(r) == ResetClaim(r) \/ ResetUnknown(r) \/ ResetUsed(r) \/ ResetExpired(r)
\* The order of the writes.  (Wrong: the tokens are revoked before the password
\* changes.)
WrongResetStep(r) ==
    \/ ResetConsume(r)
    \/ pc[r] = "reset.change" /\ Revoke(r, "reset.revoke")
    \/ /\ pc[r] = "reset.revoke"
       /\ password' = [password EXCEPT ![subject[r]] = @ + 1]
       /\ Goto(r, "reset.done")
       /\ UNCHANGED <<now, tokens, totp, failed, locked, locals, history>>
ResetStep(r) == ResetConsume(r) \/ ResetChange(r) \/ ResetRevoke(r)

-----------------------------------------------------------------------------
(* A magic link is consumed, then a session is issued.                     *)

VerifyClaim(r)   == Arrive(r, "verify") /\ Claim(r, "MAGIC_LINK", "verify.consume")
VerifyUnknown(r) == Arrive(r, "verify") /\ RefuseUnknown(r, "MAGIC_LINK")
VerifyUsed(r)    == Arrive(r, "verify") /\ RefuseUsed(r, "MAGIC_LINK")
VerifyExpired(r) == Arrive(r, "verify") /\ RefuseExpired(r, "MAGIC_LINK")

VerifyConsume(r) ==
    pc[r] = "verify.consume" /\ Consume(r, "verify.issue", "rejected")
VerifyIssue(r) == pc[r] = "verify.issue" /\ Issue(r, subject[r], "verify.save")
VerifySave(r) == pc[r] = "verify.save" /\ SaveSession(r, "verify.done", "orphaned")

VerifyArrival(r) == VerifyClaim(r) \/ VerifyUnknown(r) \/ VerifyUsed(r) \/ VerifyExpired(r)
VerifyStep(r)    == VerifyConsume(r) \/ VerifyIssue(r) \/ VerifySave(r)
=============================================================================
