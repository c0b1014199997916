------------------------- MODULE AuthServiceProofs -------------------------
(***************************************************************************)
(* What TLAPS proves of AuthService, for any set of requests and users,    *)
(* any lives of tokens, any limits and any length of time.                 *)
(***************************************************************************)
EXTENDS AuthService, TLAPS

-----------------------------------------------------------------------------
(* The inductive invariant.                                                *)

\* A request that is being served, or has answered with a secret, has a user ...
Subjects ==
    \A r \in Requests : pc[r] \in Awaiting \cup SecretEnds => subject[r] \in Users

\* ... and one that is about to save its token, or has, holds that token.
Saved == SecretEnds \cup {"orphaned", "refresh.orphaned"}
Holders == Saved \cup Saving \cup
    {"login.reset", "login.release", "login.branch", "forgot.send", "send.send"}
Tokens ==
    \A r \in Requests : pc[r] \in Holders => issued[r] \in Token

\* Who has a random secret drew it.
Drawers == {"login.challenge", "login.challenged", "forgot.save", "forgot.send",
            "forgot.done", "send.save", "send.send", "send.done"}
Secrets ==
    \A r \in Requests :
        /\ issued[r] # None => issued[r].by \in {None, r}
        /\ pc[r] \in Drawers => issued[r].by = r

\* A stored record is as the request it is named after saved it.
Writer(type) ==
    CASE type = "REFRESH_TOKEN" -> SessionEnds \cup {"orphaned", "refresh.orphaned"}
      [] type = "PRE_AUTH_2FA" -> {"login.challenged", "failed"}
      [] type = "RESET_PASSWORD" -> {"forgot.send", "forgot.done", "failed"}
      [] type = "MAGIC_LINK" -> {"send.send", "send.done", "failed"}
Records ==
    \A i \in Requests : tokens[i] # None =>
        /\ pc[i] \in Writer(tokens[i].type)
        /\ tokens[i].token = issued[i]
        /\ tokens[i].user = subject[i]
        /\ tokens[i].type # "REFRESH_TOKEN" => issued[i].by = i

\* The record a request found was obtained where such records are issued.
Origin(label) ==
    CASE label \in {"refresh.consume", "refresh.revoke", "logout.consume"} ->
            SessionEnds \cup {"orphaned", "refresh.orphaned"}
      [] label \in {"complete.verify", "complete.consume"} -> {"login.challenged"}
      [] label = "reset.consume" -> {"forgot.done"}
      [] label = "verify.consume" -> {"send.done"}
      [] OTHER -> Source(label)
Found ==
    \A r \in Requests : Origin(pc[r]) # {} =>
        /\ found[r] \in Requests
        /\ pc[found[r]] \in Origin(pc[r])
        /\ subject[found[r]] = subject[r]

\* A request past markConsumed has spent the record it found ...
Used ==
    \A r \in Requests : Source(pc[r]) # {} => spent[r] = found[r]

\* ... and a spent record stays spent: it is consumed or gone, and nobody will
\* save it again.
Spent ==
    \A r \in Requests : spent[r] # None =>
        /\ pc[spent[r]] \in Saved
        /\ ~Consumable(spent[r])

USE DEF Stored, Maybe

Settled == Subjects /\ Tokens /\ Secrets /\ Records /\ Found /\ Used /\ Spent /\ SingleUse

IInv == TypeOK /\ Settled

\* The invariant holds before the first request.
THEOREM Initial == Init => IInv
BY NoneAssumption DEF Init, IInv, Settled, TypeOK, TokensType, Attempts, Subjects, Tokens,
  Secrets, Records, Found, Used, Spent, SingleUse, Origin, Source, Refreshed, Awaiting,
  LoggingIn, SecretEnds, SessionEnds, Saved, Holders, Saving, Drawers

-----------------------------------------------------------------------------
(* A step of one request leaves the others, and what they rest on, alone.  *)

Others(r) ==
    \A q \in Requests : q # r =>
        /\ pc'[q] = pc[q] /\ subject'[q] = subject[q]
        /\ found'[q] = found[q] /\ issued'[q] = issued[q]

\* Records are only deleted.
Shrinks == \A i \in Requests : tokens'[i] \in {tokens[i], None}

\* Records are found by others only once their request has answered.
LEMMA OriginEnds == \A label : Origin(label) \subseteq Saved
BY DEF Origin, Source, Refreshed, Saved, SecretEnds, SessionEnds

\* A step that changes one request, consumes nothing and at most deletes records
\* keeps the invariant if the request itself is left as the invariant wants it.
LEMMA LocalStep ==
    ASSUME IInv, NEW r \in Requests, NEW label,
           pc[r] \notin Ends,
           Others(r), pc'[r] = label, Shrinks, spent' = spent,
           label \in Awaiting \cup SecretEnds => subject'[r] \in Users,
           label \in Holders => issued'[r] \in Token,
           issued'[r] # None => issued'[r].by \in {None, r},
           label \in Drawers => issued'[r].by = r,
           Origin(label) # {} =>
               /\ found'[r] \in Requests
               /\ pc[found'[r]] \in Origin(label)
               /\ subject[found'[r]] = subject'[r],
           Source(label) # {} => spent[r] = found'[r],
           tokens[r] # None =>
               /\ label \in Writer(tokens[r].type)
               /\ issued'[r] = issued[r] /\ subject'[r] = subject[r]
    PROVE  Settled'
<1>1. Subjects' BY DEF IInv, Settled, Subjects, Others
<1>2. Tokens' BY DEF IInv, Settled, Tokens, Others
<1>3. Secrets' BY DEF IInv, Settled, Secrets, Others
<1>4. Records' BY DEF IInv, Settled, Records, Others, Shrinks
<1>5. Found'
  <2> SUFFICES ASSUME NEW q \in Requests, Origin(pc'[q]) # {}
               PROVE  /\ found'[q] \in Requests
                      /\ pc'[found'[q]] \in Origin(pc'[q])
                      /\ subject'[found'[q]] = subject'[q]
    BY DEF Found
  <2>1. /\ found'[q] \in Requests
        /\ pc[found'[q]] \in Origin(pc'[q])
        /\ subject[found'[q]] = subject'[q]
    BY DEF IInv, Settled, Found, Others
  <2>2. found'[q] # r BY <2>1, OriginEnds DEF Saved, Ends
  <2> QED BY <2>1, <2>2 DEF Others
<1>6. Used' BY DEF IInv, Settled, Used, Others
<1>7. Spent' 
  <2> SUFFICES ASSUME NEW q \in Requests, spent[q] # None
               PROVE  pc'[spent[q]] \in Saved /\ ~Consumable(spent[q])'
    BY DEF Spent
  <2>1. pc[spent[q]] \in Saved /\ ~Consumable(spent[q]) /\ spent[q] \in Requests
    BY DEF IInv, Settled, Spent, TypeOK
  <2> QED BY <2>1 DEF Others, Saved, Ends, Consumable, Shrinks
<1>8. SingleUse' BY DEF IInv, Settled, SingleUse
<1> QED BY <1>1, <1>2, <1>3, <1>4, <1>5, <1>6, <1>7, <1>8 DEF Settled

\* Deleting records keeps the invariant.
LEMMA PurgeStep ==
    ASSUME IInv, Shrinks, UNCHANGED <<pc, subject, found, issued, spent>>
    PROVE  Settled'
<1>1. Subjects' /\ Tokens' /\ Secrets' /\ Found' /\ Used' /\ SingleUse'
  BY DEF IInv, Settled, Subjects, Tokens, Secrets, Found, Used, SingleUse
<1>2. Records' BY DEF IInv, Settled, Records, Shrinks
<1>3. Spent' BY DEF IInv, Settled, Spent, Shrinks, Consumable, TypeOK
<1> QED BY <1>1, <1>2, <1>3 DEF Settled

\* The record a token resolves to was saved by a request that has answered,
\* where such records are saved.
LEMMA ClaimedRecord ==
    ASSUME IInv, NEW t \in Holding, NEW type \in TokenTypes,
           NEW i \in FindByToken(t, type)
    PROVE  /\ i \in Requests
           /\ pc[i] \in Writer(type) \cap Saved
           /\ subject[i] = tokens[i].user
           /\ tokens[i].user \in Users
<1>1. /\ i \in Requests /\ tokens[i] # None
      /\ tokens[i].token = t /\ tokens[i].type = type
  BY DEF FindByToken
<1>2. /\ pc[i] \in Writer(type) /\ issued[i] = t /\ subject[i] = tokens[i].user
      /\ type # "REFRESH_TOKEN" => issued[i].by = i
  BY <1>1 DEF IInv, Settled, Records
<1>3. tokens[i].user \in Users
  BY <1>1 DEF IInv, TypeOK, TokensType, Record
<1>4. PICK q \in Requests : pc[q] \in SecretEnds /\ issued[q] = t
  BY DEF Holding
<1>5. issued[q].by \in {None, q}
  BY <1>4, NoneAssumption DEF IInv, Settled, Secrets, Tokens, Holders, Saved, Token
<1>6. CASE type # "REFRESH_TOKEN"
  BY <1>1, <1>2, <1>3, <1>4, <1>5, <1>6, NoneAssumption DEF Saved
<1>7. CASE type = "REFRESH_TOKEN"
  BY <1>1, <1>2, <1>3, <1>7 DEF Writer, Saved, SecretEnds
<1> QED BY <1>6, <1>7 DEF TokenTypes

-----------------------------------------------------------------------------
(* The three ways a handler uses the store.                                *)

\* Labels whose requests have saved nothing yet.
Unsaved == ({"idle"} \cup Awaiting) \ {"forgot.send", "send.send"}

\* A request that has not reached the end of its save has no record.
LEMMA UnsavedRecord ==
    ASSUME IInv, NEW r \in Requests, pc[r] \in Unsaved
    PROVE  tokens[r] = None
BY DEF IInv, Settled, TypeOK, TokensType, Record, TokenTypes, Records, Writer, Unsaved,
   Awaiting, LoggingIn, SessionEnds

\* The record a presented token resolves to becomes the request's.
LEMMA AdoptStep ==
    ASSUME IInv, NEW r \in Requests, NEW type \in TokenTypes, NEW label \in Awaiting,
           NEW t \in Holding, NEW i \in FindByToken(t, type),
           pc[r] = "idle", Adopt(r, i), Goto(r, label),
           UNCHANGED <<tokens, issued, spent>>,
           Origin(label) = Writer(type) \cap Saved,
           Source(label) = {}, label \notin Holders, label \notin Drawers
    PROVE  Settled'
<1>1. /\ i \in Requests
      /\ pc[i] \in Writer(type) \cap Saved
      /\ subject[i] = tokens[i].user
      /\ tokens[i].user \in Users
  BY ClaimedRecord
<1>2. Others(r) /\ Shrinks
  BY DEF Others, Shrinks, Adopt, Goto, IInv, TypeOK
<1>3. /\ pc'[r] = label /\ found'[r] = i
      /\ subject'[r] = tokens[i].user /\ issued'[r] = issued[r]
  BY DEF Adopt, Goto, IInv, TypeOK
<1>4. issued[r] # None => issued[r].by \in {None, r}
  BY DEF IInv, Settled, Secrets
<1>5. pc[r] \notin Ends /\ pc[r] \in Unsaved
  BY DEF Ends, SecretEnds, SessionEnds, Unsaved
<1>6. tokens[r] = None
  BY <1>5, UnsavedRecord
<1> QED BY <1>1, <1>2, <1>3, <1>4, <1>5, <1>6, LocalStep

\* A request marks its record consumed, or learns that it cannot: the one step
\* that SingleUse hangs on.
LEMMA ConsumeStep ==
    ASSUME IInv, NEW r \in Requests, NEW won, NEW lost,
           pc[r] \in Awaiting \cap Unsaved, pc[r] \notin Ends, Origin(pc[r]) # {},
           won \notin Holders, won \notin Drawers,
           won \in Awaiting \/ won \notin SecretEnds,
           Origin(won) \in {{}, Origin(pc[r])}, Source(won) \in {{}, Origin(won)},
           lost \notin Holders, lost \notin Drawers,
           lost \in Awaiting \/ lost \notin SecretEnds,
           Origin(lost) \in {{}, Origin(pc[r])}, Source(lost) = {},
           Consume(r, won, lost)
    PROVE  Settled'
<1>1. /\ subject[r] \in Users
      /\ found[r] \in Requests
      /\ pc[found[r]] \in Origin(pc[r])
      /\ subject[found[r]] = subject[r]
      /\ issued[r] # None => issued[r].by \in {None, r}
      /\ tokens[r] = None
  BY UnsavedRecord DEF IInv, Settled, Subjects, Found, Secrets
<1>2. found[r] # r
  BY <1>1, OriginEnds DEF Saved, Ends
<1>3. CASE ~Consumable(found[r]) /\ Goto(r, lost) /\ UNCHANGED <<tokens, spent>>
  <2>1. Others(r) /\ Shrinks
    BY <1>3 DEF Consume, Others, Shrinks, Goto, locals, IInv, TypeOK
  <2>2. pc'[r] = lost /\ UNCHANGED <<subject, found, issued>>
    BY <1>3 DEF Consume, Goto, locals, IInv, TypeOK
  <2> QED BY <1>1, <1>3, <2>1, <2>2, LocalStep
<1>4. CASE /\ Consumable(found[r])
           /\ MarkConsumed(found[r])
           /\ spent' = [spent EXCEPT ![r] = found[r]]
           /\ Goto(r, won)
  <2>1. /\ pc' = [pc EXCEPT ![r] = won]
        /\ UNCHANGED <<subject, found, issued>>
        /\ pc \in [Requests -> {"idle"} \cup Awaiting \cup Ends]
        /\ spent \in [Requests -> Maybe(Requests)]
    BY <1>4 DEF Consume, Goto, locals, IInv, TypeOK
  <2>2. /\ tokens[found[r]] # None
        /\ \A i \in Requests :
              /\ tokens'[i] = None <=> tokens[i] = None
              /\ tokens[i] # None =>
                    /\ tokens'[i].type = tokens[i].type
                    /\ tokens'[i].user = tokens[i].user
                    /\ tokens'[i].token = tokens[i].token
              /\ Consumable(i)' <=> Consumable(i) /\ i # found[r]
    <3>1. /\ tokens[found[r]] \in Record
          /\ tokens[found[r]] # None
          /\ tokens'[found[r]] = [tokens[found[r]] EXCEPT !.consumed = TRUE]
      BY <1>1, <1>4 DEF MarkConsumed, Consumable, IInv, TypeOK, TokensType
    <3>2. \A i \in Requests : i # found[r] => tokens'[i] = tokens[i]
      BY <1>4 DEF MarkConsumed, IInv, TypeOK, TokensType
    <3>3. /\ tokens'[found[r]] \in Record
          /\ tokens'[found[r]].type = tokens[found[r]].type
          /\ tokens'[found[r]].user = tokens[found[r]].user
          /\ tokens'[found[r]].token = tokens[found[r]].token
          /\ tokens'[found[r]].consumed
      BY <3>1 DEF Record
    <3> QED BY <1>4, <3>1, <3>2, <3>3, NoneAssumption DEF Consumable
  <2>3. Subjects' BY <1>1, <2>1 DEF IInv, Settled, Subjects
  <2>4. Tokens' BY <2>1 DEF IInv, Settled, Tokens
  <2>5. Secrets' BY <2>1 DEF IInv, Settled, Secrets
  <2>6. Records' BY <1>1, <2>1, <2>2 DEF IInv, Settled, Records
  <2>7. Found'
    <3> SUFFICES ASSUME NEW q \in Requests, Origin(pc'[q]) # {}
                 PROVE  /\ found[q] \in Requests
                        /\ pc'[found[q]] \in Origin(pc'[q])
                        /\ subject[found[q]] = subject[q]
      BY <2>1 DEF Found
    <3>1. /\ found[q] \in Requests
          /\ pc[found[q]] \in Origin(pc'[q])
          /\ subject[found[q]] = subject[q]
      BY <1>1, <2>1 DEF IInv, Settled, Found
    <3> QED BY <2>1, <3>1, OriginEnds DEF Saved, Ends
  <2>8. Used' BY <1>4, <2>1 DEF IInv, Settled, Used
  <2>9. Spent'
    <3> SUFFICES ASSUME NEW q \in Requests, spent'[q] # None
                 PROVE  pc'[spent'[q]] \in Saved /\ (~Consumable(spent[q]))'
      BY DEF Spent
    <3>1. CASE q = r
      <4>1. spent'[q] = found[r] /\ pc[found[r]] \in Saved
        BY <1>1, <1>4, <2>1, <3>1, OriginEnds
      <4> QED BY <1>1, <1>2, <2>1, <2>2, <4>1 DEF Consumable
    <3>2. CASE q # r
      <4>1. /\ spent'[q] = spent[q] /\ spent[q] \in Requests
            /\ pc[spent[q]] \in Saved /\ ~Consumable(spent[q])
        BY <1>4, <2>1, <3>2 DEF IInv, Settled, Spent
      <4> QED BY <2>1, <2>2, <4>1 DEF Saved, Ends, Consumable
    <3> QED BY <3>1, <3>2
  <2>10. SingleUse'
    <3>1. \A q \in Requests : spent[q] # found[r]
      BY <1>4, NoneAssumption, <1>1 DEF IInv, Settled, Spent
    <3> QED BY <1>4, <2>1, <3>1 DEF IInv, Settled, SingleUse
  <2> QED BY <2>3, <2>4, <2>5, <2>6, <2>7, <2>8, <2>9, <2>10 DEF Settled
<1> QED BY <1>3, <1>4 DEF Consume

\* A request saves the token it holds as its record.
LEMMA SaveStep ==
    ASSUME IInv, NEW r \in Requests, NEW type \in TokenTypes, NEW ttl, NEW label,
           pc[r] \in Saving, pc[r] \notin Ends, pc[r] \in Awaiting,
           label \in Writer(type),
           label \in Drawers => pc[r] \in Drawers,
           type # "REFRESH_TOKEN" => pc[r] \in Drawers,
           Origin(label) \in {{}, Origin(pc[r])},
           Source(label) \in {{}, Source(pc[r])},
           SaveIssued(r, type, ttl, label)
    PROVE  Settled'
<1>1. /\ pc' = [pc EXCEPT ![r] = label]
      /\ UNCHANGED <<subject, found, issued, spent>>
      /\ pc \in [Requests -> {"idle"} \cup Awaiting \cup Ends]
      /\ spent \in [Requests -> Maybe(Requests)]
  BY DEF SaveIssued, Goto, locals, history, IInv, TypeOK
<1>2. \A i \in Requests : i # r => tokens'[i] = tokens[i]
  BY DEF SaveIssued, Save, IInv, TypeOK, TokensType
<1>3. /\ tokens'[r].type = type
      /\ tokens'[r].user = subject[r]
      /\ tokens'[r].token = issued[r]
  BY DEF SaveIssued, Save, IInv, TypeOK, TokensType
<1>4. Subjects' BY <1>1 DEF IInv, Settled, Subjects
<1>5. Tokens' BY <1>1 DEF IInv, Settled, Tokens, Holders
<1>6. Secrets' BY <1>1 DEF IInv, Settled, Secrets
<1>7. Records' BY <1>1, <1>2, <1>3 DEF IInv, Settled, Records, Secrets
<1>8. Found'
  <2> SUFFICES ASSUME NEW q \in Requests, Origin(pc'[q]) # {}
               PROVE  /\ found[q] \in Requests
                      /\ pc'[found[q]] \in Origin(pc'[q])
                      /\ subject[found[q]] = subject[q]
    BY <1>1 DEF Found
  <2>1. /\ found[q] \in Requests
        /\ pc[found[q]] \in Origin(pc'[q])
        /\ subject[found[q]] = subject[q]
    BY <1>1 DEF IInv, Settled, Found
  <2> QED BY <1>1, <2>1, OriginEnds DEF Saved, Ends
<1>9. Used' BY <1>1 DEF IInv, Settled, Used
<1>10. Spent'
  <2> SUFFICES ASSUME NEW q \in Requests, spent[q] # None
               PROVE  pc'[spent[q]] \in Saved /\ ~Consumable(spent[q])'
    BY <1>1 DEF Spent
  <2>1. pc[spent[q]] \in Saved /\ ~Consumable(spent[q]) /\ spent[q] \in Requests
    BY <1>1 DEF IInv, Settled, Spent
  <2> QED BY <1>1, <1>2, <2>1 DEF Saved, Ends, Consumable
<1>11. SingleUse' BY <1>1 DEF IInv, Settled, SingleUse
<1> QED BY <1>4, <1>5, <1>6, <1>7, <1>8, <1>9, <1>10, <1>11 DEF Settled

\* A request moves on, and changes nothing the invariant is about.
LEMMA MoveStep ==
    ASSUME IInv, NEW r \in Requests, NEW label,
           pc[r] \notin Ends, Goto(r, label),
           UNCHANGED <<tokens, subject, found, issued, spent>>,
           label \in Awaiting \cup SecretEnds => pc[r] \in Awaiting,
           label \in Holders => pc[r] \in Holders,
           label \in Drawers => pc[r] \in Drawers,
           Origin(label) \in {{}, Origin(pc[r])},
           Source(label) \in {{}, Source(pc[r])},
           pc[r] \in Unsaved \/ \A type \in TokenTypes :
               pc[r] \in Writer(type) => label \in Writer(type)
    PROVE  Settled'
<1>1. Others(r) /\ Shrinks /\ pc'[r] = label
  BY DEF Others, Shrinks, Goto, IInv, TypeOK
<1>2. /\ label \in Awaiting \cup SecretEnds => subject'[r] \in Users
      /\ label \in Holders => issued'[r] \in Token
      /\ issued'[r] # None => issued'[r].by \in {None, r}
      /\ label \in Drawers => issued'[r].by = r
  BY DEF IInv, Settled, Subjects, Tokens, Secrets
<1>3. Origin(label) # {} =>
          /\ found'[r] \in Requests
          /\ pc[found'[r]] \in Origin(label)
          /\ subject[found'[r]] = subject'[r]
  BY DEF IInv, Settled, Found
<1>4. Source(label) # {} => spent[r] = found'[r]
  BY DEF IInv, Settled, Used
<1>5. tokens[r] # None => label \in Writer(tokens[r].type)
  BY UnsavedRecord DEF IInv, Settled, Records, TypeOK, TokensType, Record
<1> QED BY <1>1, <1>2, <1>3, <1>4, <1>5, LocalStep

\* A request is given a user and a token, or new ones; it rests on no record.
LEMMA AssignStep ==
    ASSUME IInv, NEW r \in Requests, NEW label \in Awaiting \cup Ends,
           pc[r] \in Unsaved, pc[r] \notin Ends, Goto(r, label),
           UNCHANGED <<tokens, found, spent>>,
           Origin(label) = {}, Source(label) = {},
           \A q \in Requests : q # r => subject'[q] = subject[q] /\ issued'[q] = issued[q],
           subject'[r] \in Users,
           issued'[r] \in Token \/ (label \notin Holders /\ issued'[r] = issued[r]),
           issued'[r] \in Token => issued'[r].by \in {None, r},
           label \in Drawers => issued'[r].by = r
    PROVE  Settled'
<1>1. Others(r) /\ Shrinks /\ pc'[r] = label
  BY DEF Others, Shrinks, Goto, IInv, TypeOK
<1>2. issued'[r] # None => issued'[r].by \in {None, r}
  BY DEF IInv, Settled, Secrets
<1> QED BY <1>1, <1>2, UnsavedRecord, LocalStep

\* The provider signs tokens for a request that has consumed its record.
LEMMA IssueStep ==
    ASSUME IInv, NEW r \in Requests, NEW label \in Awaiting, NEW user \in Users,
           pc[r] \in Unsaved, pc[r] \in Awaiting, pc[r] \notin Ends,
           label \notin Drawers,
           Origin(label) = Origin(pc[r]), Source(label) = Source(pc[r]),
           Issue(r, user, label)
    PROVE  Settled'
<1>1. Others(r) /\ Shrinks /\ pc'[r] = label /\ subject'[r] = subject[r] /\ found'[r] = found[r]
  BY DEF Others, Shrinks, Issue, Goto, IInv, TypeOK
<1>2. issued'[r] \in Token /\ issued'[r].by = None
  BY DEF Issue, SignRefreshToken, Token, IInv, TypeOK
<1>3. subject[r] \in Users
  BY DEF IInv, Settled, Subjects
<1>4. /\ Origin(label) # {} =>
            /\ found[r] \in Requests
            /\ pc[found[r]] \in Origin(label)
            /\ subject[found[r]] = subject[r]
      /\ Source(label) # {} => spent[r] = found[r]
  BY DEF IInv, Settled, Found, Used
<1>5. spent' = spent
  BY DEF Issue, history
<1> QED BY <1>1, <1>2, <1>3, <1>4, <1>5, UnsavedRecord, LocalStep

\* Every record of the user is deleted.
LEMMA RevokeStep ==
    ASSUME IInv, NEW r \in Requests, NEW label \in Ends \ Holders,
           pc[r] \in Unsaved, pc[r] \notin Ends, Revoke(r, label),
           label \notin SecretEnds, label \notin Drawers,
           Origin(label) \in {{}, Origin(pc[r])},
           Source(label) \in {{}, Source(pc[r])}
    PROVE  Settled'
<1>1. /\ Others(r) /\ pc'[r] = label
      /\ UNCHANGED <<subject, found, issued, spent>>
  BY DEF Others, Revoke, Goto, locals, IInv, TypeOK
<1>2. Shrinks
  BY DEF Shrinks, Revoke, DeleteAllForUser
<1>3. issued[r] # None => issued[r].by \in {None, r}
  BY DEF IInv, Settled, Secrets
<1>4. /\ Origin(label) # {} =>
            /\ found[r] \in Requests
            /\ pc[found[r]] \in Origin(label)
            /\ subject[found[r]] = subject[r]
      /\ Source(label) # {} => spent[r] = found[r]
  BY DEF IInv, Settled, Found, Used
<1>5. label \notin Awaiting
  BY DEF Awaiting, LoggingIn, Ends, SecretEnds, SessionEnds
<1> QED BY <1>1, <1>2, <1>3, <1>4, <1>5, UnsavedRecord, LocalStep

-----------------------------------------------------------------------------
(* The handlers, action by action.                                         *)

\* POST /auth/refresh: every step keeps the invariant.
LEMMA RefreshSettled ==
    ASSUME IInv, NEW r \in Requests, RefreshArrival(r) \/ RefreshStep(r)
    PROVE  Settled'
<1> USE DEF Origin, Source, Refreshed, SessionEnds, SecretEnds, Ends, Awaiting, LoggingIn,
            Unsaved, Saved, Holders, Saving, Drawers, Writer, TokenTypes
<1>1. CASE RefreshClaim(r)
  BY <1>1, AdoptStep DEF RefreshClaim, Arrive, Claim, history
<1>2. CASE RefreshReused(r)
  BY <1>2, AdoptStep DEF RefreshReused, Arrive, ClaimUsed
<1>3. CASE RefreshUnknown(r) \/ RefreshExpired(r) \/ RefreshStale(r)
  BY <1>3, MoveStep DEF RefreshUnknown, RefreshExpired, RefreshStale, Arrive,
     RefuseUnknown, RefuseExpired, Reject, locals, history
<1>4. CASE RefreshConsume(r)
  BY <1>4, ConsumeStep DEF RefreshConsume
<1>5. CASE RefreshRevoke(r)
  BY <1>5, RevokeStep DEF RefreshRevoke
<1>6. CASE RefreshIssue(r)
  <2>1. found[r] \in Requests /\ pc[found[r]] \in SessionEnds \cup {"orphaned", "refresh.orphaned"}
    BY <1>6 DEF RefreshIssue, IInv, Settled, Found
  <2>2. issued[found[r]].sub \in Users
    BY <2>1 DEF IInv, Settled, Tokens, Token
  <2> QED BY <1>6, <2>2, IssueStep DEF RefreshIssue
<1>7. CASE RefreshSave(r)
  BY <1>7, SaveStep DEF RefreshSave, SaveSession
<1>8. CASE RefreshVerify(r)
  BY <1>8, MoveStep DEF RefreshVerify, locals, history
<1> QED BY <1>1, <1>2, <1>3, <1>4, <1>5, <1>6, <1>7, <1>8 DEF RefreshArrival, RefreshStep

\* POST /auth/logout.
LEMMA LogoutSettled ==
    ASSUME IInv, NEW r \in Requests, LogoutArrival(r) \/ LogoutStep(r)
    PROVE  Settled'
<1> USE DEF Origin, Source, Refreshed, SessionEnds, SecretEnds, Ends, Awaiting, LoggingIn,
            Unsaved, Saved, Holders, Saving, Drawers, Writer, TokenTypes
<1>1. CASE LogoutClaim(r)
  BY <1>1, AdoptStep DEF LogoutClaim, Arrive
<1>2. CASE LogoutNothing(r)
  BY <1>2, MoveStep DEF LogoutNothing, Arrive, locals, history
<1>3. CASE LogoutConsume(r)
  BY <1>3, ConsumeStep DEF LogoutConsume
<1> QED BY <1>1, <1>2, <1>3 DEF LogoutArrival, LogoutStep

\* POST /auth/login.
LEMMA LoginSettled ==
    ASSUME IInv, NEW r \in Requests, LoginArrival(r) \/ LoginStep(r)
    PROVE  Settled'
<1> USE DEF Origin, Source, Refreshed, SessionEnds, SecretEnds, Ends, Awaiting, LoggingIn,
            Unsaved, Saved, Holders, Saving, Drawers, Writer, TokenTypes
<1>1. CASE LoginArrival(r)
  <2>1. PICK u \in Users, label \in {"login.authenticate", "rejected", "login.unlock"} :
           LoginArrive(r, u, label)
    BY <1>1 DEF LoginArrival, LoginStart, LoginBlocked, LoginLapsed
  <2>2. /\ subject'[r] = u
        /\ issued' = issued
        /\ \A q \in Requests : q # r => subject'[q] = subject[q]
    BY <2>1 DEF LoginArrive, IInv, TypeOK
  <2>3. issued'[r] \in Token => issued'[r].by \in {None, r}
    BY <2>2, NoneAssumption DEF IInv, Settled, Secrets
  <2> QED BY <2>1, <2>2, <2>3, AssignStep DEF LoginArrive, Arrive
<1>2. CASE LoginUnlock(r) \/ LoginRelease(r)
  BY <1>2, MoveStep DEF LoginUnlock, LoginRelease, ClearLock, locals, history
<1>3. CASE LoginForget(r) \/ LoginReset(r)
  BY <1>3, MoveStep DEF LoginForget, LoginReset, ClearFailed, locals, history
<1>4. CASE LoginAuthenticated(r)
  <2>1. subject[r] \in Users
    BY <1>4 DEF LoginAuthenticated, IInv, Settled, Subjects
  <2>2. /\ issued'[r] \in Token /\ issued'[r].by = None
        /\ \A q \in Requests : q # r => issued'[q] = issued[q]
    BY <1>4, <2>1 DEF LoginAuthenticated, SignRefreshToken, Token, IInv, TypeOK
  <2> QED BY <1>4, <2>1, <2>2, AssignStep DEF LoginAuthenticated
<1>5. CASE LoginRefused(r)
  BY <1>5, MoveStep DEF LoginRefused, locals, history
<1>6. CASE LoginCount(r) \/ LoginRecord(r) \/ LoginLock(r)
  BY <1>6, MoveStep DEF LoginCount, LoginRecord, LoginLock, NoteRacing, locals, history
<1>7. CASE LoginBranch(r)
  <2>1. subject[r] \in Users
    BY <1>7 DEF LoginBranch, IInv, Settled, Subjects
  <2>2. CASE totp[subject[r]] # None
    <3>1. /\ issued'[r] \in Token /\ issued'[r].by = r
          /\ \A q \in Requests : q # r => issued'[q] = issued[q]
          /\ Goto(r, "login.challenge")
      BY <1>7, <2>1, <2>2 DEF LoginBranch, TotpConfigured, Secret, Token, IInv, TypeOK
    <3> QED BY <1>7, <2>1, <3>1, AssignStep DEF LoginBranch, history
  <2>3. CASE totp[subject[r]] = None
    BY <1>7, <2>3, MoveStep DEF LoginBranch, TotpConfigured, history
  <2> QED BY <2>2, <2>3
<1>8. CASE LoginChallenge(r)
  BY <1>8, SaveStep DEF LoginChallenge
<1>9. CASE LoginSave(r)
  BY <1>9, SaveStep DEF LoginSave, SaveSession
<1> QED BY <1>1, <1>2, <1>3, <1>4, <1>5, <1>6, <1>7, <1>8, <1>9 DEF LoginStep

\* POST /auth/2fa/complete.
LEMMA CompleteSettled ==
    ASSUME IInv, NEW r \in Requests, CompleteArrival(r) \/ CompleteStep(r)
    PROVE  Settled'
<1> USE DEF Origin, Source, Refreshed, SessionEnds, SecretEnds, Ends, Awaiting, LoggingIn,
            Unsaved, Saved, Holders, Saving, Drawers, Writer, TokenTypes
<1>1. CASE CompleteClaim(r)
  BY <1>1, AdoptStep DEF CompleteClaim, Arrive, Claim, history
<1>2. CASE CompleteUnknown(r) \/ CompleteUsed(r) \/ CompleteExpired(r) \/ CompleteMistyped(r)
  BY <1>2, MoveStep DEF CompleteUnknown, CompleteUsed, CompleteExpired, CompleteMistyped,
     Arrive, RefuseUnknown, RefuseUsed, RefuseExpired, Reject, locals, history
<1>3. CASE CompleteVerified(r)
  BY <1>3, MoveStep DEF CompleteVerified, locals, history
<1>4. CASE CompleteConsume(r)
  BY <1>4, ConsumeStep DEF CompleteConsume
<1>5. CASE CompleteIssue(r)
  <2>1. subject[r] \in Users
    BY <1>5 DEF CompleteIssue, IInv, Settled, Subjects
  <2> QED BY <1>5, <2>1, IssueStep DEF CompleteIssue
<1>6. CASE CompleteSave(r)
  BY <1>6, SaveStep DEF CompleteSave, SaveSession
<1> QED BY <1>1, <1>2, <1>3, <1>4, <1>5, <1>6 DEF CompleteArrival, CompleteStep

\* POST /auth/2fa/setup.
LEMMA SetupSettled ==
    ASSUME IInv, NEW r \in Requests, SetupArrival(r) \/ SetupStep(r)
    PROVE  Settled'
<1> USE DEF Origin, Source, Refreshed, SessionEnds, SecretEnds, Ends, Awaiting, LoggingIn,
            Unsaved, Saved, Holders, Saving, Drawers, Writer, TokenTypes
<1>1. CASE SetupStart(r)
  <2>1. PICK u \in Users, label \in {"setup.save", "rejected"} :
           subject' = [subject EXCEPT ![r] = u] /\ Goto(r, label)
    BY <1>1 DEF SetupStart
  <2>2. /\ subject'[r] = u
        /\ issued' = issued
        /\ \A q \in Requests : q # r => subject'[q] = subject[q]
    BY <1>1, <2>1 DEF SetupStart, IInv, TypeOK
  <2>3. issued'[r] \in Token => issued'[r].by \in {None, r}
    BY <2>2, NoneAssumption DEF IInv, Settled, Secrets
  <2> QED BY <1>1, <2>1, <2>2, <2>3, AssignStep DEF SetupStart, Arrive, history
<1>2. CASE SetupSave(r) \/ SetupAnswer(r)
  BY <1>2, MoveStep DEF SetupSave, SetupAnswer, NoteRacing, locals, history
<1> QED BY <1>1, <1>2 DEF SetupArrival, SetupStep

\* POST /auth/forgot-password and /auth/magic-link.
LEMMA LinkSettled ==
    ASSUME IInv, NEW r \in Requests, LinkArrival(r) \/ LinkStep(r)
    PROVE  Settled'
<1> USE DEF Origin, Source, Refreshed, SessionEnds, SecretEnds, Ends, Awaiting, LoggingIn,
            Unsaved, Saved, Holders, Saving, Drawers, Writer, TokenTypes
<1>1. CASE ForgotStart(r) \/ SendStart(r)
  <2>1. PICK label \in {"forgot.save", "send.save"}, endpoint \in {"forgot", "send"} :
           LinkStart(r, endpoint, label)
    BY <1>1 DEF ForgotStart, SendStart
  <2>2. PICK u \in Users :
           /\ subject' = [subject EXCEPT ![r] = u]
           /\ issued' = [issued EXCEPT ![r] = [by |-> r, sub |-> u, iat |-> 0]]
    BY <2>1 DEF LinkStart
  <2>3. /\ subject'[r] = u
        /\ issued'[r] \in Token /\ issued'[r].by = r
        /\ \A q \in Requests : q # r => subject'[q] = subject[q] /\ issued'[q] = issued[q]
    BY <2>2 DEF Token, IInv, TypeOK
  <2> QED BY <2>1, <2>3, AssignStep DEF LinkStart, Arrive
<1>2. CASE ForgotUnknown(r) \/ SendUnknown(r)
  BY <1>2, MoveStep DEF ForgotUnknown, SendUnknown, LinkUnknown, Arrive, Reject, locals, history
<1>3. CASE ForgotSave(r) \/ SendSave(r)
  BY <1>3, SaveStep DEF ForgotSave, SendSave
<1>4. CASE ForgotSend(r) \/ SendSend(r)
  BY <1>4, MoveStep DEF ForgotSend, SendSend, LinkSent, locals, history
<1> QED BY <1>1, <1>2, <1>3, <1>4 DEF LinkArrival, LinkStep

\* POST /auth/reset-password.
LEMMA ResetSettled ==
    ASSUME IInv, NEW r \in Requests, ResetArrival(r) \/ ResetStep(r)
    PROVE  Settled'
<1> USE DEF Origin, Source, Refreshed, SessionEnds, SecretEnds, Ends, Awaiting, LoggingIn,
            Unsaved, Saved, Holders, Saving, Drawers, Writer, TokenTypes
<1>1. CASE ResetClaim(r)
  BY <1>1, AdoptStep DEF ResetClaim, Arrive, Claim, history
<1>2. CASE ResetUnknown(r) \/ ResetUsed(r) \/ ResetExpired(r)
  BY <1>2, MoveStep DEF ResetUnknown, ResetUsed, ResetExpired, Arrive,
     RefuseUnknown, RefuseUsed, RefuseExpired, Reject, locals, history
<1>3. CASE ResetConsume(r)
  BY <1>3, ConsumeStep DEF ResetConsume
<1>4. CASE ResetChange(r)
  BY <1>4, MoveStep DEF ResetChange, locals, history
<1>5. CASE ResetRevoke(r)
  BY <1>5, RevokeStep DEF ResetRevoke
<1> QED BY <1>1, <1>2, <1>3, <1>4, <1>5 DEF ResetArrival, ResetStep

\* POST /auth/magic-link/verify.
LEMMA VerifySettled ==
    ASSUME IInv, NEW r \in Requests, VerifyArrival(r) \/ VerifyStep(r)
    PROVE  Settled'
<1> USE DEF Origin, Source, Refreshed, SessionEnds, SecretEnds, Ends, Awaiting, LoggingIn,
            Unsaved, Saved, Holders, Saving, Drawers, Writer, TokenTypes
<1>1. CASE VerifyClaim(r)
  BY <1>1, AdoptStep DEF VerifyClaim, Arrive, Claim, history
<1>2. CASE VerifyUnknown(r) \/ VerifyUsed(r) \/ VerifyExpired(r)
  BY <1>2, MoveStep DEF VerifyUnknown, VerifyUsed, VerifyExpired, Arrive,
     RefuseUnknown, RefuseUsed, RefuseExpired, Reject, locals, history
<1>3. CASE VerifyConsume(r)
  BY <1>3, ConsumeStep DEF VerifyConsume
<1>4. CASE VerifyIssue(r)
  <2>1. subject[r] \in Users
    BY <1>4 DEF VerifyIssue, IInv, Settled, Subjects
  <2> QED BY <1>4, <2>1, IssueStep DEF VerifyIssue
<1>5. CASE VerifySave(r)
  BY <1>5, SaveStep DEF VerifySave, SaveSession
<1> QED BY <1>1, <1>2, <1>3, <1>4, <1>5 DEF VerifyArrival, VerifyStep

\* A restart leaves no record and nobody in flight.
LEMMA RestartSettled ==
    ASSUME IInv, Restart
    PROVE  Settled'
<1> USE DEF Broken
<1>1. /\ \A r \in Requests : tokens'[r] = None
      /\ UNCHANGED <<subject, found, issued, spent>>
  BY DEF Restart, locals, history
<1>2. ASSUME NEW r \in Requests
      PROVE  /\ pc'[r] \notin Awaiting
             /\ pc[r] \notin Awaiting => pc'[r] = pc[r]
             /\ \/ pc'[r] = pc[r]
                \/ pc'[r] = "failed"
                \/ pc'[r] = "reset.halfway" /\ pc[r] = "reset.revoke"
  <2>1. pc'[r] = IF pc[r] \in Awaiting THEN Broken(pc[r]) ELSE pc[r]
    BY DEF Restart
  <2>2. Broken(pc[r]) \notin Awaiting
    BY DEF Awaiting, LoggingIn
  <2> QED BY <2>1, <2>2
<1>3. \A r \in Requests :
          /\ pc[r] \in Saved => pc'[r] = pc[r]
          /\ pc'[r] \in Saved => pc[r] \in Saved
          /\ pc'[r] \in SecretEnds => pc[r] \in SecretEnds
  <2>1. Saved \cap (Awaiting \cup {"failed", "reset.halfway"}) = {}
    BY DEF Saved, SecretEnds, SessionEnds, Awaiting, LoggingIn
  <2> QED BY <1>2, <2>1 DEF Saved
<1>4. Subjects' BY <1>1, <1>2, <1>3 DEF IInv, Settled, Subjects
<1>5. Tokens'
  <2>1. Holders \subseteq Awaiting \cup Saved
    BY DEF Holders, Saving, Awaiting, LoggingIn
  <2> QED BY <1>1, <1>2, <1>3, <2>1 DEF IInv, Settled, Tokens
<1>6. Secrets'
  BY <1>1, <1>2 DEF IInv, Settled, Secrets, Drawers
<1>7. Records' BY <1>1 DEF Records
<1>8. Found'
  <2> SUFFICES ASSUME NEW r \in Requests, Origin(pc'[r]) # {}
               PROVE  /\ found[r] \in Requests
                      /\ pc'[found[r]] \in Origin(pc'[r])
                      /\ subject[found[r]] = subject[r]
    BY <1>1 DEF Found
  <2>1. Origin(pc'[r]) = Origin(pc[r])
    BY <1>2 DEF Origin, Source, Refreshed
  <2>2. /\ found[r] \in Requests
        /\ pc[found[r]] \in Origin(pc[r])
        /\ subject[found[r]] = subject[r]
    BY <2>1 DEF IInv, Settled, Found
  <2> QED BY <1>3, <2>1, <2>2, OriginEnds
<1>9. Used'
  BY <1>1, <1>2 DEF IInv, Settled, Used, Source, Refreshed
<1>10. Spent'
  BY <1>1, <1>3 DEF IInv, Settled, Spent, Consumable, TypeOK
<1>11. SingleUse' BY <1>1 DEF IInv, Settled, SingleUse
<1> QED BY <1>4, <1>5, <1>6, <1>7, <1>8, <1>9, <1>10, <1>11 DEF Settled

\* The clock, the purge job, failures and restarts.
LEMMA SurroundingSettled ==
    ASSUME IInv, Tick \/ Purge \/ Restart \/ \E r \in Requests : Fail(r)
    PROVE  Settled'
<1>1. CASE Tick
  BY <1>1, PurgeStep DEF Tick, Shrinks, locals, history
<1>2. CASE Purge
  <2>1. Shrinks
    BY <1>2 DEF Purge, DeleteExpired, Shrinks
  <2> QED BY <1>2, <2>1, PurgeStep DEF Purge, locals, history
<1>3. ASSUME NEW r \in Requests, Fail(r)
      PROVE  Settled'
  BY <1>3, MoveStep DEF Fail, Broken, locals, history, Origin, Source, Refreshed, SessionEnds, SecretEnds,
     Ends, Awaiting, LoggingIn, Unsaved, Saved, Holders, Saving, Drawers, Writer,
     TokenTypes
<1> QED BY <1>1, <1>2, <1>3, RestartSettled

-----------------------------------------------------------------------------
(* Type correctness.                                                       *)

\* Adopting the record a token resolves to keeps the types.
LEMMA ClaimTyped ==
    ASSUME IInv, NEW r \in Requests, NEW type \in TokenTypes,
           NEW label \in Awaiting \cup Ends,
           Claim(r, type, label) \/ ClaimUsed(r, type, label)
    PROVE  TypeOK'
<1>1. PICK t \in Holding : \E i \in FindByToken(t, type) : Adopt(r, i)
  BY DEF Claim, ClaimUsed
<1>2. PICK i \in FindByToken(t, type) : Adopt(r, i)
  BY <1>1
<1>3. i \in Requests /\ tokens[i].user \in Users
  BY ClaimedRecord
<1>4. /\ subject' \in [Requests -> Maybe(Users)]
      /\ found' \in [Requests -> Maybe(Requests)]
      /\ proof' \in [Requests -> Nat]
      /\ factor' \in [Requests -> Maybe(Requests \cup Users)]
      /\ overlap' \in SUBSET Requests
      /\ racing' \in SUBSET Requests
  BY <1>2, <1>3 DEF Adopt, IInv, TypeOK
<1>5. /\ Goto(r, label)
      /\ UNCHANGED <<now, tokens, totp, failed, locked, password, issued, count, spent>>
  BY DEF Claim, ClaimUsed, account
<1> QED BY <1>4, <1>5 DEF Goto, IInv, TypeOK, TokensType

\* So does turning a request away,
LEMMA RejectTyped ==
    ASSUME IInv, NEW r \in Requests, Reject(r)
    PROVE  TypeOK'
BY DEF Reject, Goto, account, locals, history, IInv, TypeOK, TokensType, Ends

\* marking a record consumed,
LEMMA ConsumeTyped ==
    ASSUME IInv, NEW r \in Requests, NEW won \in Awaiting \cup Ends,
           NEW lost \in Awaiting \cup Ends, Consume(r, won, lost)
    PROVE  TypeOK'
<1>1. CASE ~Consumable(found[r]) /\ Goto(r, lost) /\ UNCHANGED <<tokens, spent>>
  BY <1>1 DEF Consume, Goto, account, locals, IInv, TypeOK, TokensType
<1>2. CASE /\ Consumable(found[r]) /\ MarkConsumed(found[r])
           /\ spent' = [spent EXCEPT ![r] = found[r]] /\ Goto(r, won)
  <2>1. found[r] \in Requests /\ tokens[found[r]] \in Record
    BY <1>2 DEF Consumable, IInv, TypeOK, TokensType
  <2>2. [tokens[found[r]] EXCEPT !.consumed = TRUE] \in Record
    BY <2>1 DEF Record
  <2>3. TokensType'
    BY <1>2, <2>1, <2>2 DEF MarkConsumed, IInv, TypeOK, TokensType
  <2> QED BY <1>2, <2>1, <2>3 DEF Consume, Goto, account, locals, IInv, TypeOK
<1> QED BY <1>1, <1>2 DEF Consume

\* signing a token pair,
LEMMA IssueTyped ==
    ASSUME IInv, NEW r \in Requests, NEW user \in Users,
           NEW label \in Awaiting \cup Ends, Issue(r, user, label)
    PROVE  TypeOK'
BY DEF Issue, SignRefreshToken, Token, Goto, account, history, IInv, TypeOK, TokensType

\* saving a record,
LEMMA SaveTyped ==
    ASSUME IInv, NEW r \in Requests, NEW type \in TokenTypes, NEW ttl \in Nat,
           NEW label \in Awaiting \cup Ends, pc[r] \in Awaiting \cap Saving,
           SaveIssued(r, type, ttl, label)
    PROVE  TypeOK'
<1>1. subject[r] \in Users /\ issued[r] \in Token
  BY DEF IInv, Settled, Subjects, Tokens, Holders
<1>2. [user |-> subject[r], type |-> type, token |-> issued[r],
       expiresAt |-> now + ttl, consumed |-> FALSE] \in Record
  BY <1>1 DEF Record, IInv, TypeOK
<1>3. TokensType'
  BY <1>2 DEF SaveIssued, Save, IInv, TypeOK, TokensType
<1> QED BY <1>3 DEF SaveIssued, Goto, account, locals, history, IInv, TypeOK

\* and deleting the records of a user.
LEMMA RevokeTyped ==
    ASSUME IInv, NEW r \in Requests, NEW label \in Awaiting \cup Ends, Revoke(r, label)
    PROVE  TypeOK'
BY DEF Revoke, DeleteAllForUser, Goto, account, locals, IInv, TypeOK, TokensType

\* Refresh and logout keep the types; refresh because the JWT it verifies was
\* signed for a user.
LEMMA RefreshTyped ==
    ASSUME IInv, NEW r \in Requests,
           RefreshArrival(r) \/ RefreshStep(r) \/ LogoutArrival(r) \/ LogoutStep(r)
    PROVE  TypeOK'
<1> USE DEF SessionEnds, SecretEnds, Ends, Awaiting, LoggingIn, Saving, TokenTypes
<1>1. CASE RefreshClaim(r) \/ RefreshReused(r)
  BY <1>1, ClaimTyped DEF RefreshClaim, RefreshReused
<1>2. CASE RefreshUnknown(r) \/ RefreshExpired(r) \/ RefreshStale(r)
  BY <1>2, RejectTyped DEF RefreshUnknown, RefreshExpired, RefreshStale,
     RefuseUnknown, RefuseExpired
<1>3. CASE RefreshConsume(r) \/ LogoutConsume(r)
  BY <1>3, ConsumeTyped DEF RefreshConsume, LogoutConsume
<1>4. CASE RefreshRevoke(r)
  BY <1>4, RevokeTyped DEF RefreshRevoke
<1>5. CASE RefreshIssue(r)
  <2>1. found[r] \in Requests /\ pc[found[r]] \in SessionEnds \cup {"orphaned", "refresh.orphaned"}
    BY <1>5 DEF RefreshIssue, IInv, Settled, Found, Origin, Source, Refreshed, SessionEnds
  <2>2. issued[found[r]].sub \in Users
    BY <2>1 DEF IInv, Settled, Tokens, Token, Holders, Saved, SecretEnds
  <2> QED BY <1>5, <2>2, IssueTyped DEF RefreshIssue
<1>6. CASE RefreshSave(r)
  BY <1>6, SaveTyped, TtlAssumption DEF RefreshSave, SaveSession
<1>7. CASE LogoutClaim(r)
  <2>1. PICK t \in Holding : \E i \in FindByToken(t, "REFRESH_TOKEN") : Adopt(r, i)
    BY <1>7 DEF LogoutClaim
  <2>2. PICK i \in FindByToken(t, "REFRESH_TOKEN") : Adopt(r, i)
    BY <2>1
  <2>3. i \in Requests /\ tokens[i].user \in Users
    BY ClaimedRecord
  <2> QED BY <1>7, <2>2, <2>3
      DEF LogoutClaim, Adopt, Goto, account, IInv, TypeOK, TokensType
<1>8. CASE LogoutNothing(r) \/ RefreshVerify(r)
  BY <1>8 DEF LogoutNothing, RefreshVerify, Goto, account, locals, history, IInv, TypeOK,
     TokensType
<1> QED BY <1>1, <1>2, <1>3, <1>4, <1>5, <1>6, <1>7, <1>8
    DEF RefreshArrival, RefreshStep, LogoutArrival, LogoutStep

\* Login keeps the types.
LEMMA LoginTyped ==
    ASSUME IInv, NEW r \in Requests, LoginArrival(r) \/ LoginStep(r)
    PROVE  TypeOK'
<1> USE DEF SessionEnds, SecretEnds, Ends, Awaiting, LoggingIn, Saving, TokenTypes
<1>0. pc[r] \in Awaiting => subject[r] \in Users
  BY DEF IInv, Settled, Subjects
<1>1. CASE LoginArrival(r)
  <2>1. PICK u \in Users, label \in {"login.authenticate", "rejected", "login.unlock"} :
           LoginArrive(r, u, label)
    BY <1>1 DEF LoginArrival, LoginStart, LoginBlocked, LoginLapsed
  <2> QED BY <2>1 DEF LoginArrive, Goto, account, IInv, TypeOK, TokensType
<1>2. CASE LoginUnlock(r) \/ LoginRelease(r)
  BY <1>2 DEF LoginUnlock, LoginRelease, ClearLock, Goto, locals, history, IInv, TypeOK, TokensType
<1>3. CASE LoginForget(r) \/ LoginReset(r)
  <2>1. [count |-> 0, at |-> 0] \in Attempts
    BY DEF Attempts
  <2> QED BY <1>3, <2>1 DEF LoginForget, LoginReset, ClearFailed, Goto, locals, history,
      IInv, TypeOK, TokensType
<1>4. CASE LoginAuthenticated(r)
  <2>1. SignRefreshToken(subject[r]) \in Token
    BY <1>0, <1>4 DEF LoginAuthenticated, SignRefreshToken, Token, IInv, TypeOK
  <2> QED BY <1>0, <1>4, <2>1 DEF LoginAuthenticated, Goto, account, IInv, TypeOK, TokensType
<1>5. CASE LoginRefused(r)
  BY <1>5 DEF LoginRefused, Goto, account, locals, history, IInv, TypeOK, TokensType
<1>6. CASE LoginCount(r)
  <2>1. \A n \in LastCount(subject[r]) : n \in Nat
    BY <1>0, <1>6 DEF LoginCount, LastCount, Attempts, IInv, TypeOK
  <2> QED BY <1>6, <2>1 DEF LoginCount, Goto, account, history, IInv, TypeOK, TokensType
<1>7. CASE LoginRecord(r)
  BY <1>7 DEF LoginRecord, Goto, locals, history, Attempts, IInv, TypeOK, TokensType
<1>8. CASE LoginLock(r)
  <2>1. now + Lockout \in Nat
    BY TtlAssumption DEF IInv, TypeOK
  <2> QED BY <1>8, <2>1 DEF LoginLock, NoteRacing, Goto, locals, IInv, TypeOK, TokensType
<1>9. CASE LoginBranch(r)
  <2>1. Secret(r) \in Token
    BY <1>0, <1>9 DEF LoginBranch, Secret, Token
  <2> QED BY <1>9, <2>1 DEF LoginBranch, Goto, account, history, IInv, TypeOK, TokensType
<1>10. CASE LoginChallenge(r) \/ LoginSave(r)
  BY <1>10, SaveTyped, TtlAssumption DEF LoginChallenge, LoginSave, SaveSession
<1> QED BY <1>1, <1>2, <1>3, <1>4, <1>5, <1>6, <1>7, <1>8, <1>9, <1>10 DEF LoginStep

\* Completion and set-up of the second factor keep the types.
LEMMA CompleteTyped ==
    ASSUME IInv, NEW r \in Requests,
           CompleteArrival(r) \/ CompleteStep(r) \/ SetupArrival(r) \/ SetupStep(r)
    PROVE  TypeOK'
<1> USE DEF SessionEnds, SecretEnds, Ends, Awaiting, LoggingIn, Saving, TokenTypes
<1>1. CASE CompleteClaim(r)
  BY <1>1, ClaimTyped DEF CompleteClaim
<1>2. CASE CompleteUnknown(r) \/ CompleteUsed(r) \/ CompleteExpired(r) \/ CompleteMistyped(r)
  BY <1>2, RejectTyped DEF CompleteUnknown, CompleteUsed, CompleteExpired, CompleteMistyped,
     RefuseUnknown, RefuseUsed, RefuseExpired
<1>3. CASE CompleteVerified(r)
  BY <1>3 DEF CompleteVerified, Goto, account, locals, history, IInv, TypeOK, TokensType
<1>4. CASE CompleteConsume(r)
  BY <1>4, ConsumeTyped DEF CompleteConsume
<1>5. CASE CompleteIssue(r)
  <2>1. subject[r] \in Users
    BY <1>5 DEF CompleteIssue, IInv, Settled, Subjects
  <2> QED BY <1>5, <2>1, IssueTyped DEF CompleteIssue
<1>6. CASE CompleteSave(r)
  BY <1>6, SaveTyped, TtlAssumption DEF CompleteSave, SaveSession
<1>7. CASE SetupStart(r)
  BY <1>7 DEF SetupStart, Goto, account, history, IInv, TypeOK, TokensType
<1>8. CASE SetupSave(r)
  BY <1>8 DEF SetupSave, NoteRacing, Goto, locals, IInv, TypeOK, TokensType
<1>9. CASE SetupAnswer(r)
  BY <1>9 DEF SetupAnswer, Goto, account, locals, history, IInv, TypeOK, TokensType
<1> QED BY <1>1, <1>2, <1>3, <1>4, <1>5, <1>6, <1>7, <1>8, <1>9
    DEF CompleteArrival, CompleteStep, SetupArrival, SetupStep

\* The e-mail flows keep the types.
LEMMA RecoveryTyped ==
    ASSUME IInv, NEW r \in Requests,
           \/ LinkArrival(r) \/ LinkStep(r) \/ ResetArrival(r) \/ ResetStep(r)
           \/ VerifyArrival(r) \/ VerifyStep(r)
    PROVE  TypeOK'
<1> USE DEF SessionEnds, SecretEnds, Ends, Awaiting, LoggingIn, Saving, TokenTypes
<1>1. CASE ForgotStart(r) \/ SendStart(r)
  <2>1. PICK label \in {"forgot.save", "send.save"}, endpoint \in {"forgot", "send"} :
           LinkStart(r, endpoint, label)
    BY <1>1 DEF ForgotStart, SendStart
  <2>2. \A u \in Users : [by |-> r, sub |-> u, iat |-> 0] \in Token
    BY DEF Token
  <2> QED BY <2>1, <2>2 DEF LinkStart, Goto, account, IInv, TypeOK, TokensType
<1>2. CASE ForgotUnknown(r) \/ SendUnknown(r)
  BY <1>2, RejectTyped DEF ForgotUnknown, SendUnknown, LinkUnknown
<1>3. CASE ForgotSave(r) \/ SendSave(r) \/ VerifySave(r)
  BY <1>3, SaveTyped, TtlAssumption DEF ForgotSave, SendSave, VerifySave, SaveSession
<1>4. CASE ForgotSend(r) \/ SendSend(r)
  BY <1>4 DEF ForgotSend, SendSend, LinkSent, Goto, account, locals, history,
     IInv, TypeOK, TokensType
<1>5. CASE ResetClaim(r) \/ VerifyClaim(r)
  BY <1>5, ClaimTyped DEF ResetClaim, VerifyClaim
<1>6. CASE \/ ResetUnknown(r) \/ ResetUsed(r) \/ ResetExpired(r)
           \/ VerifyUnknown(r) \/ VerifyUsed(r) \/ VerifyExpired(r)
  BY <1>6, RejectTyped DEF ResetUnknown, ResetUsed, ResetExpired,
     VerifyUnknown, VerifyUsed, VerifyExpired, RefuseUnknown, RefuseUsed, RefuseExpired
<1>7. CASE ResetConsume(r) \/ VerifyConsume(r)
  BY <1>7, ConsumeTyped DEF ResetConsume, VerifyConsume
<1>8. CASE ResetChange(r)
  <2>1. subject[r] \in Users /\ password[subject[r]] + 1 \in Nat
    BY <1>8 DEF ResetChange, IInv, Settled, Subjects, TypeOK
  <2> QED BY <1>8, <2>1 DEF ResetChange, Goto, locals, history, IInv, TypeOK, TokensType
<1>9. CASE ResetRevoke(r)
  BY <1>9, RevokeTyped DEF ResetRevoke
<1>10. CASE VerifyIssue(r)
  <2>1. subject[r] \in Users
    BY <1>10 DEF VerifyIssue, IInv, Settled, Subjects
  <2> QED BY <1>10, <2>1, IssueTyped DEF VerifyIssue
<1> QED BY <1>1, <1>2, <1>3, <1>4, <1>5, <1>6, <1>7, <1>8, <1>9, <1>10
    DEF LinkArrival, LinkStep, ResetArrival, ResetStep, VerifyArrival, VerifyStep

\* The clock, the purge job, failures and restarts keep the types.
LEMMA SurroundingTyped ==
    ASSUME IInv, Tick \/ Purge \/ Restart \/ \E r \in Requests : Fail(r)
    PROVE  TypeOK'
<1>1. CASE Tick
  BY <1>1 DEF Tick, account, locals, history, IInv, TypeOK, TokensType
<1>2. CASE Purge
  BY <1>2 DEF Purge, DeleteExpired, account, locals, history, IInv, TypeOK, TokensType
<1>3. ASSUME NEW r \in Requests, Fail(r)
      PROVE  TypeOK'
  BY <1>3 DEF Fail, Broken, Goto, account, locals, history, IInv, TypeOK, TokensType, Ends
<1>4. CASE Restart
  <2>1. \A r \in Requests : Broken(pc[r]) \in Ends
    BY DEF Broken, Ends
  <2>2. [count |-> 0, at |-> 0] \in Attempts
    BY DEF Attempts
  <2> QED BY <1>4, <2>1, <2>2 DEF Restart, locals, history, IInv, TypeOK, TokensType
<1> QED BY <1>1, <1>2, <1>3, <1>4

-----------------------------------------------------------------------------
(* The theorems.                                                           *)

\* The invariant is inductive: no step of any handler, of the clock, of the purge
\* job and no failure breaks it.
THEOREM Inductive == IInv /\ [Next]_vars => IInv'
<1> SUFFICES ASSUME IInv, [Next]_vars
             PROVE  IInv'
  OBVIOUS
<1>1. ASSUME NEW r \in Requests, Arrival(r) \/ Step(r)
      PROVE  IInv'
  BY <1>1, RefreshSettled, LogoutSettled, LoginSettled, CompleteSettled, SetupSettled,
     LinkSettled, ResetSettled, VerifySettled, RefreshTyped, LoginTyped, CompleteTyped,
     RecoveryTyped DEF Arrival, Step, IInv
<1>2. CASE Tick \/ Purge \/ Restart \/ \E r \in Requests : Fail(r)
  BY <1>2, SurroundingSettled, SurroundingTyped DEF IInv
<1>3. CASE UNCHANGED vars
  BY <1>3 DEF vars, account, locals, history, IInv, Settled, TypeOK, TokensType, Subjects,
     Tokens, Secrets, Records, Found, Used, Spent, Consumable, SingleUse
<1> QED BY <1>1, <1>2, <1>3 DEF Next

\* Hence it holds throughout every behaviour.
LEMMA Invariance == Spec => []IInv
BY Initial, Inductive, PTL DEF Spec

\* Every variable keeps its type.
THEOREM TypeCorrect == Spec => []TypeOK
<1>1. IInv => TypeOK BY DEF IInv
<1> QED BY <1>1, Invariance, PTL

\* One request at most gets past markConsumed with a given token, whatever the
\* number of requests, tokens and users and however their steps interleave.
THEOREM TokensAreSpentOnce == Spec => []SingleUse
<1>1. IInv => SingleUse BY DEF IInv, Settled
<1> QED BY <1>1, Invariance, PTL

\* Every session and every password change rests on a token of the right kind,
\* issued for the same user and used up by the very request.
THEOREM SessionsAreEntitled == Spec => []Entitled
<1>1. IInv => Entitled
  <2> SUFFICES ASSUME IInv, NEW r \in Requests, Source(pc[r]) # {}
               PROVE  /\ spent[r] # None /\ spent[r] = found[r]
                      /\ pc[found[r]] \in Source(pc[r])
                      /\ subject[found[r]] = subject[r]
    BY DEF Entitled
  <2>1. Origin(pc[r]) = Source(pc[r])
    BY DEF Origin, Source, Refreshed
  <2>2. /\ found[r] \in Requests
        /\ pc[found[r]] \in Source(pc[r])
        /\ subject[found[r]] = subject[r]
    BY <2>1 DEF IInv, Settled, Found
  <2> QED BY <2>2, NoneAssumption DEF IInv, Settled, Used
<1> QED BY <1>1, Invariance, PTL

-----------------------------------------------------------------------------
(* What a step does to the store.                                          *)

StoreUntouched == tokens' = tokens
StoreConsumes(r) == Consumable(found[r]) /\ MarkConsumed(found[r])
StoreSaves(r) ==
    pc[r] \in Saving /\ \E type, ttl : Save(r, subject[r], type, issued[r], ttl)
StoreStep ==
    \/ Shrinks
    \/ \E r \in Requests : StoreConsumes(r) \/ StoreSaves(r)

\* Whatever the service does, the store sees deletions, one record consumed or
\* one new record.
LEMMA StoreSteps ==
    ASSUME IInv, Next
    PROVE  StoreStep
<1>1. StoreUntouched => StoreStep
  BY DEF StoreUntouched, StoreStep, Shrinks
<1>2. ASSUME NEW r \in Requests, NEW won, NEW lost, Consume(r, won, lost)
      PROVE  StoreStep
  BY <1>1, <1>2 DEF Consume, StoreUntouched, StoreStep, StoreConsumes
<1>3. ASSUME NEW r \in Requests, NEW label, Revoke(r, label)
      PROVE  StoreStep
  BY <1>3 DEF Revoke, DeleteAllForUser, StoreStep, Shrinks
<1>4. ASSUME NEW r \in Requests, NEW type, NEW ttl, NEW label, pc[r] \in Saving,
             SaveIssued(r, type, ttl, label)
      PROVE  StoreStep
  BY <1>4 DEF SaveIssued, StoreStep, StoreSaves
<1>5. ASSUME NEW r \in Requests,
             RefreshArrival(r) \/ RefreshStep(r) \/ LogoutArrival(r) \/ LogoutStep(r)
      PROVE  StoreStep
  BY <1>1, <1>2, <1>3, <1>4, <1>5
     DEF SaveSession,
     RefreshArrival, RefreshStep, LogoutArrival, LogoutStep, RefreshClaim, RefreshReused,
     RefreshUnknown, RefreshExpired, RefreshConsume, RefreshRevoke, RefreshVerify,
     RefreshIssue, RefreshStale, RefreshSave, LogoutClaim, LogoutNothing, LogoutConsume,
     Claim, ClaimUsed, RefuseUnknown, RefuseExpired, Reject, Issue, Saving, StoreUntouched
<1>6. ASSUME NEW r \in Requests, LoginArrival(r) \/ LoginStep(r)
      PROVE  StoreStep
  BY <1>1, <1>4, <1>6
     DEF SaveSession,
     LoginArrival, LoginStep, LoginStart, LoginBlocked, LoginLapsed, LoginArrive,
     LoginUnlock, LoginForget, LoginAuthenticated, LoginRefused, LoginCount, LoginRecord,
     LoginLock, LoginReset, LoginRelease, LoginBranch, LoginChallenge, LoginSave,
     ClearLock, ClearFailed, Saving, StoreUntouched
<1>7. ASSUME NEW r \in Requests,
             CompleteArrival(r) \/ CompleteStep(r) \/ SetupArrival(r) \/ SetupStep(r)
      PROVE  StoreStep
  BY <1>1, <1>2, <1>4, <1>7
     DEF SaveSession,
     CompleteArrival, CompleteStep, SetupArrival, SetupStep, CompleteClaim,
     CompleteUnknown, CompleteUsed, CompleteExpired, CompleteVerified, CompleteMistyped,
     CompleteConsume, CompleteIssue, CompleteSave, SetupStart, SetupSave, SetupAnswer,
     Claim, RefuseUnknown, RefuseUsed, RefuseExpired, Reject, Issue, Saving, StoreUntouched
<1>8. ASSUME NEW r \in Requests,
             \/ LinkArrival(r) \/ LinkStep(r) \/ ResetArrival(r) \/ ResetStep(r)
             \/ VerifyArrival(r) \/ VerifyStep(r)
      PROVE  StoreStep
  BY <1>1, <1>2, <1>3, <1>4, <1>8
     DEF SaveSession,
     LinkArrival, LinkStep, ResetArrival, ResetStep, VerifyArrival, VerifyStep,
     ForgotStart, ForgotUnknown, ForgotSave, ForgotSend, SendStart, SendUnknown, SendSave,
     SendSend, LinkStart, LinkUnknown, LinkSent, ResetClaim, ResetUnknown, ResetUsed,
     ResetExpired, ResetConsume, ResetChange, ResetRevoke, VerifyClaim, VerifyUnknown,
     VerifyUsed, VerifyExpired, VerifyConsume, VerifyIssue, VerifySave,
     Claim, RefuseUnknown, RefuseUsed, RefuseExpired, Reject, Issue, Saving, StoreUntouched
<1>9. CASE Tick \/ Purge \/ Restart \/ \E r \in Requests : Fail(r)
  BY <1>1, <1>9
     DEF Tick, Purge, Restart, Fail, DeleteExpired, StoreStep, Shrinks, StoreUntouched
<1> QED BY <1>5, <1>6, <1>7, <1>8, <1>9 DEF Next, Arrival, Step

\* What is revoked or purged never comes back, and what is consumed stays so.
THEOREM RevokedStaysRevoked == Spec => NoResurrection
<1> DEFINE StaysGone(i) ==
       /\ tokens[i] = None /\ pc[i] \notin Saving => tokens'[i] = None
       /\ i \in Stored /\ tokens[i].consumed /\ tokens'[i] # None => tokens'[i].consumed
<1>1. IInv /\ Next => \A i \in Requests : StaysGone(i)
  <2> SUFFICES ASSUME IInv, StoreStep, NEW i \in Requests
               PROVE  StaysGone(i)
    BY StoreSteps
  <2>1. CASE Shrinks
    BY <2>1 DEF Shrinks
  <2>2. ASSUME NEW r \in Requests, StoreConsumes(r)
        PROVE  StaysGone(i)
    <3>1. tokens' = [tokens EXCEPT ![found[r]] = [@ EXCEPT !.consumed = TRUE]]
      BY <2>2 DEF StoreConsumes, MarkConsumed
    <3>2. found[r] \in Requests /\ tokens[found[r]] # None /\ ~tokens[found[r]].consumed
      BY <2>2 DEF StoreConsumes, Consumable
    <3> QED BY <3>1, <3>2 DEF IInv, TypeOK, TokensType
  <2>3. ASSUME NEW r \in Requests, StoreSaves(r)
        PROVE  StaysGone(i)
    <3>1. CASE i = r
      BY <2>3, <3>1, UnsavedRecord
         DEF StoreSaves, Saving, Unsaved, Awaiting, LoggingIn
    <3>2. CASE i # r
      BY <2>3, <3>2 DEF StoreSaves, Save, IInv, TypeOK, TokensType
    <3> QED BY <3>1, <3>2
  <2> QED BY <2>1, <2>2, <2>3 DEF StoreStep
<1>2. IInv /\ [Next]_vars => [\A i \in Requests : StaysGone(i)]_vars
  BY <1>1
<1> QED BY <1>2, Invariance, PTL DEF Spec, NoResurrection

-----------------------------------------------------------------------------
(* Every step of a request brings it nearer to its end.                    *)

\* The request goes on to a label from which fewer calls are left.
Advances(r) ==
    \E label :
        /\ Goto(r, label)
        /\ pc[r] # "idle" => label # "idle" /\ Left(label) < Left(pc[r])

LEMMA SessionsAdvance ==
    ASSUME NEW r \in Requests,
           RefreshArrival(r) \/ RefreshStep(r) \/ LogoutArrival(r) \/ LogoutStep(r)
    PROVE  Advances(r)
<1>1. CASE RefreshArrival(r) \/ LogoutArrival(r)
  BY <1>1 DEF RefreshArrival, LogoutArrival, RefreshClaim, RefreshReused, RefreshUnknown,
     RefreshExpired, LogoutClaim, LogoutNothing, Arrive, Claim, ClaimUsed, RefuseUnknown,
     RefuseExpired, Reject, Advances
<1>2. CASE RefreshStep(r) \/ LogoutStep(r)
  BY <1>2 DEF RefreshStep, LogoutStep, RefreshConsume, RefreshRevoke, RefreshVerify,
     RefreshStale, RefreshIssue, RefreshSave, LogoutConsume, Consume, Revoke, Reject, Issue,
     SaveIssued, SaveSession, Advances, Left
<1> QED BY <1>1, <1>2

LEMMA LoginsAdvance ==
    ASSUME NEW r \in Requests,
           \/ LoginArrival(r) \/ LoginStep(r) \/ CompleteArrival(r) \/ CompleteStep(r)
           \/ SetupArrival(r) \/ SetupStep(r)
    PROVE  Advances(r)
<1>1. CASE LoginArrival(r) \/ CompleteArrival(r) \/ SetupArrival(r)
  BY <1>1 DEF LoginArrival, CompleteArrival, SetupArrival, LoginStart, LoginBlocked,
     LoginLapsed, LoginArrive, CompleteClaim, CompleteUnknown, CompleteUsed,
     CompleteExpired, SetupStart, Arrive, Claim, RefuseUnknown, RefuseUsed, RefuseExpired,
     Reject, Advances
<1>2. CASE LoginStep(r)
  BY <1>2 DEF LoginStep, LoginUnlock, LoginForget, LoginAuthenticated, LoginRefused,
     LoginCount, LoginRecord, LoginLock, LoginReset, LoginRelease, LoginBranch,
     LoginChallenge, LoginSave, ClearLock, ClearFailed, SaveIssued, SaveSession,
     Advances, Left
<1>3. CASE CompleteStep(r) \/ SetupStep(r)
  BY <1>3 DEF CompleteStep, SetupStep, CompleteVerified, CompleteMistyped,
     CompleteConsume, CompleteIssue, CompleteSave, SetupSave, SetupAnswer, Consume, Reject,
     Issue, SaveIssued, SaveSession, Advances, Left
<1> QED BY <1>1, <1>2, <1>3

LEMMA RecoveriesAdvance ==
    ASSUME NEW r \in Requests,
           \/ LinkArrival(r) \/ LinkStep(r) \/ ResetArrival(r) \/ ResetStep(r)
           \/ VerifyArrival(r) \/ VerifyStep(r)
    PROVE  Advances(r)
<1>1. CASE LinkArrival(r) \/ ResetArrival(r) \/ VerifyArrival(r)
  BY <1>1 DEF LinkArrival, ResetArrival, VerifyArrival, ForgotStart, ForgotUnknown,
     SendStart, SendUnknown, LinkStart, LinkUnknown, ResetClaim, ResetUnknown, ResetUsed,
     ResetExpired, VerifyClaim, VerifyUnknown, VerifyUsed, VerifyExpired, Arrive, Claim,
     RefuseUnknown, RefuseUsed, RefuseExpired, Reject, Advances
<1>2. CASE LinkStep(r) \/ ResetStep(r) \/ VerifyStep(r)
  BY <1>2 DEF LinkStep, ResetStep, VerifyStep, ForgotSave, ForgotSend, SendSave, SendSend,
     LinkSent, ResetConsume, ResetChange, ResetRevoke, VerifyConsume, VerifyIssue,
     VerifySave, Consume, Revoke, Issue, SaveIssued, SaveSession, Advances, Left
<1> QED BY <1>1, <1>2

\* A request that is broken off has no call left.
LEMMA BrokenAdvance ==
    \A label \in Awaiting : Broken(label) # "idle" /\ Left(Broken(label)) < Left(label)
BY DEF Awaiting, LoggingIn, Broken, Left

\* No handler makes the same call twice or starts again, and an answered request
\* is never taken up: what can be proved here of why every request ends.
THEOREM RequestsAdvance == Spec => HandlersAdvance
<1>1. ASSUME IInv, Next, NEW q \in Requests
      PROVE  pc[q] # "idle" /\ pc'[q] # pc[q] =>
                pc'[q] # "idle" /\ Left(pc'[q]) < Left(pc[q])
  <2> DEFINE Nearer == pc[q] # "idle" /\ pc'[q] # pc[q] =>
                          pc'[q] # "idle" /\ Left(pc'[q]) < Left(pc[q])
  <2>1. ASSUME NEW r \in Requests, Advances(r)
        PROVE  Nearer
    BY <1>1, <2>1 DEF Advances, Goto, IInv, TypeOK
  <2>2. ASSUME NEW r \in Requests, Fail(r)
        PROVE  Nearer
    BY <1>1, <2>2, BrokenAdvance DEF Fail, Goto, IInv, TypeOK
  <2>3. CASE Restart
    BY <2>3, BrokenAdvance DEF Restart
  <2>4. CASE Tick \/ Purge
    BY <2>4 DEF Tick, Purge
  <2>5. \/ \E r \in Requests : Advances(r) \/ Fail(r)
        \/ Tick \/ Purge \/ Restart
    BY <1>1, SessionsAdvance, LoginsAdvance, RecoveriesAdvance DEF Next, Arrival, Step
  <2> QED BY <2>1, <2>2, <2>3, <2>4, <2>5
<1>2. IInv /\ [Next]_vars =>
         [\A r \in Requests : pc[r] # "idle" /\ pc'[r] # pc[r] =>
             pc'[r] # "idle" /\ Left(pc'[r]) < Left(pc[r])]_vars
  BY <1>1
<1> QED BY <1>2, Invariance, PTL DEF Spec, HandlersAdvance
=============================================================================
