--------------------------- MODULE LockoutProofs ---------------------------
(***************************************************************************)
(* What TLAPS proves of the lockout after failed logins, and of the TOTP   *)
(* secret, both of which are read in one call and written in another.  The *)
(* counter in the store never exceeds the number of attempts that were     *)
(* refused, whichever of the interleaved reads and writes are lost; only   *)
(* attempts that were given the same number defer the lock; and who acts   *)
(* against a lock or a stored secret had looked before it was there.       *)
(***************************************************************************)
EXTENDS AuthServiceProofs, FiniteSetTheorems

USE DEF Stored, Maybe

\* The refused attempts on an account that got as far as being numbered.
Refused(u) == {r \in Requests : subject[r] = u /\ count[r] > 0}
Tries(u) == Cardinality(Refused(u))

\* The number of elements of a set of requests, and of one with one more.
LEMMA Numbers ==
    ASSUME NEW S \in SUBSET Requests
    PROVE  /\ Cardinality(S) \in Nat
           /\ \A r : r \notin S => Cardinality(S \cup {r}) = Cardinality(S) + 1
<1>1. IsFiniteSet(S)
  BY RequestsAssumption, FS_Subset
<1> QED BY <1>1, FS_CardinalityType, FS_AddElement

-----------------------------------------------------------------------------
(* The inductive invariant.                                                *)

\* A request that has not been refused has no number.
Unnumbered == {"idle", "login.unlock", "login.forget", "login.authenticate", "login.count"}

Numbered ==
    \A r \in Requests :
        /\ pc[r] \in Unnumbered => count[r] = 0
        /\ count[r] <= Tries(subject[r])
        /\ pc[r] = "login.lock" => count[r] >= MaxFailed

Counted ==
    \A u \in Users :
        /\ failed[u].count <= Tries(u)
        /\ locked[u] # None => Tries(u) >= MaxFailed

\* Steps that have no part in the counting.
Aside(r) ==
    /\ UNCHANGED <<failed, locked, count>>
    /\ \E label : Goto(r, label)
    /\ \A q \in Requests : q # r => subject'[q] = subject[q]
    /\ pc[r] # "idle" => subject'[r] = subject[r]
    /\ pc'[r] \in Unnumbered => pc[r] \in Unnumbered
    /\ pc'[r] # "login.lock"

\* What a step must do to keep the invariant when it numbers no attempt.
LEMMA SameTries ==
    ASSUME Numbered, count' = count,
           \A q \in Requests : subject'[q] = subject[q] \/ pc[q] = "idle"
    PROVE  \A u : Refused(u)' = Refused(u) /\ Tries(u)' = Tries(u)
<1>1. ASSUME NEW u
      PROVE  Refused(u)' = Refused(u)
  BY DEF Numbered, Unnumbered, Refused
<1> QED BY <1>1 DEF Tries

\* Steps that count nothing keep the invariant.
LEMMA AsideStep ==
    ASSUME IInv, Numbered, Counted, NEW r \in Requests, Aside(r)
    PROVE  Numbered' /\ Counted'
<1>1. \A u : Tries(u)' = Tries(u)
  BY SameTries DEF Aside
<1>2. Counted'
  BY <1>1 DEF Aside, Counted
<1>3. ASSUME NEW q \in Requests
      PROVE  /\ pc'[q] \in Unnumbered => count'[q] = 0
             /\ count'[q] <= Tries(subject'[q])
             /\ pc'[q] = "login.lock" => count'[q] >= MaxFailed
  <2>1. CASE q # r \/ pc[q] # "idle"
    BY <2>1 DEF Aside, Goto, Numbered, IInv, TypeOK
  <2>2. CASE q = r /\ pc[q] = "idle"
    <3>1. count[q] = 0
      BY <2>2 DEF Numbered, Unnumbered
    <3>2. Tries(subject'[q]) \in Nat
      BY Numbers DEF Tries, Refused
    <3> QED BY <2>2, <3>1, <3>2 DEF Aside
  <2> QED BY <2>1, <2>2
<1>4. Numbered'
  BY <1>1, <1>3 DEF Numbered
<1> QED BY <1>2, <1>4

\* A refused attempt is given a number that is at most the number of attempts,
\* itself included.
LEMMA CountStep ==
    ASSUME IInv, Numbered, Counted, NEW r \in Requests, LoginCount(r)
    PROVE  Numbered' /\ Counted'
<1>1. /\ subject[r] \in Users /\ count[r] = 0 /\ now \in Nat
      /\ failed[subject[r]].count \in Nat
  BY DEF LoginCount, IInv, Settled, Subjects, Awaiting, LoggingIn, Numbered,
     Unnumbered, TypeOK, Attempts
<1>2. PICK n \in {0, failed[subject[r]].count} : count' = [count EXCEPT ![r] = n + 1]
  BY DEF LoginCount, LastCount
<1>3. /\ UNCHANGED <<failed, locked, subject>>
      /\ count'[r] = n + 1 /\ \A q \in Requests : q # r => count'[q] = count[q]
      /\ pc'[r] = "login.record" /\ \A q \in Requests : q # r => pc'[q] = pc[q]
  BY <1>2 DEF LoginCount, Goto, account, IInv, TypeOK
<1>4. \A u : u # subject[r] => Refused(u)' = Refused(u)
  BY <1>3 DEF Refused
<1>5. r \notin Refused(subject[r]) /\ Refused(subject[r])' = Refused(subject[r]) \cup {r}
  BY <1>1, <1>2, <1>3 DEF Refused
<1>6. \A u : Refused(u) \in SUBSET Requests
  BY DEF Refused
<1>7. Tries(subject[r])' = Tries(subject[r]) + 1
  BY <1>5, <1>6, Numbers DEF Tries
<1>8. \A u : Tries(u) \in Nat /\ (u # subject[r] => Tries(u)' = Tries(u))
  BY <1>4, <1>6, Numbers DEF Tries
<1>9. n <= Tries(subject[r])
  BY <1>1, <1>8 DEF Counted
<1>10. Counted'
  BY <1>1, <1>3, <1>7, <1>8, TtlAssumption DEF Counted, IInv, TypeOK, Attempts
<1>11. ASSUME NEW q \in Requests
       PROVE  /\ pc'[q] \in Unnumbered => count'[q] = 0
              /\ count'[q] <= Tries(subject[q])'
              /\ pc'[q] = "login.lock" => count'[q] >= MaxFailed
  BY <1>1, <1>3, <1>7, <1>8, <1>9 DEF Numbered, Unnumbered, IInv, TypeOK
<1> QED BY <1>3, <1>10, <1>11 DEF Numbered

\* Writing the counter or the lock, or deleting them, keeps the invariant.
LEMMA WriteStep ==
    ASSUME IInv, Numbered, Counted, NEW r \in Requests,
           \/ LoginUnlock(r) \/ LoginForget(r) \/ LoginRecord(r) \/ LoginLock(r)
           \/ LoginReset(r) \/ LoginRelease(r)
    PROVE  Numbered' /\ Counted'
<1>1. subject[r] \in Users
  BY DEF LoginUnlock, LoginForget, LoginRecord, LoginLock, LoginReset, LoginRelease,
     IInv, Settled, Subjects, Awaiting, LoggingIn
<1>2. UNCHANGED <<count, subject>> /\ \A q \in Requests : q # r => pc'[q] = pc[q]
  BY DEF LoginUnlock, LoginForget, LoginRecord, LoginLock, LoginReset, LoginRelease,
     ClearLock, ClearFailed, Goto, locals, IInv, TypeOK
<1>3. \A u : Tries(u)' = Tries(u)
  BY <1>2, SameTries
<1>4. /\ pc'[r] \in Unnumbered => pc[r] \in Unnumbered
      /\ pc'[r] = "login.lock" => count[r] >= MaxFailed
  BY DEF LoginUnlock, LoginForget, LoginRecord, LoginLock, LoginReset, LoginRelease,
     ClearLock, ClearFailed, TooMany, Unnumbered, Goto, IInv, TypeOK
<1>5. Numbered'
  BY <1>2, <1>3, <1>4 DEF Numbered
<1>6. \A u : Tries(u) \in Nat
  BY Numbers DEF Tries, Refused
<1>7. ASSUME NEW u \in Users
      PROVE  \/ failed'[u] = failed[u]
             \/ failed'[u].count = 0
             \/ u = subject[r] /\ failed'[u].count = count[r]
  BY <1>1 DEF LoginUnlock, LoginForget, LoginRecord, LoginLock, LoginReset, LoginRelease,
     ClearLock, ClearFailed, IInv, TypeOK
<1>8. ASSUME NEW u \in Users, locked'[u] # None
      PROVE  \/ locked[u] # None
             \/ u = subject[r] /\ count[r] >= MaxFailed
  BY <1>1, <1>8 DEF LoginUnlock, LoginForget, LoginRecord, LoginLock, LoginReset,
     LoginRelease, ClearLock, ClearFailed, Numbered, IInv, TypeOK
<1>9. count[r] <= Tries(subject[r]) /\ count[r] \in Nat
  BY DEF Numbered, IInv, TypeOK
<1>10. Counted'
  <2>1. ASSUME NEW u \in Users
        PROVE  failed'[u].count <= Tries(u)
    BY <1>6, <1>7, <1>9 DEF Counted
  <2>2. ASSUME NEW u \in Users, locked'[u] # None
        PROVE  Tries(u) >= MaxFailed
    BY <1>6, <1>8, <1>9, <2>2, TtlAssumption DEF Counted
  <2> QED BY <1>3, <2>1, <2>2 DEF Counted
<1> QED BY <1>5, <1>10

\* A step of a request to another endpoint: whatever it does, it does not touch the
\* counter or the lock.
Apart(r) ==
    /\ UNCHANGED <<now, failed, locked, count>> /\ racing \subseteq racing'
    /\ pc[r] \in {"idle"} \cup (Awaiting \ LoggingIn)
    /\ \E label \in (Awaiting \cup Ends)
                      \ (LoggingIn \cup {"login.denied", "login.challenged", "login.done"}) :
          Goto(r, label)
    /\ \A q \in Requests : q # r => subject'[q] = subject[q]
    /\ pc[r] # "idle" => subject'[r] = subject[r]
    /\ SetupStart(r) \/ SetupSave(r) \/ (UNCHANGED totp /\ pc'[r] # "setup.save")

LEMMA Elsewhere ==
    ASSUME IInv, NEW r \in Requests, Arrival(r) \/ Step(r)
    PROVE  Apart(r) \/ LoginArrival(r) \/ LoginStep(r)
<1> USE DEF Awaiting, LoggingIn, Ends, SecretEnds, SessionEnds
<1>1. CASE RefreshArrival(r) \/ RefreshStep(r) \/ LogoutArrival(r) \/ LogoutStep(r)
  BY <1>1
     DEF RefreshArrival, RefreshStep, LogoutArrival, LogoutStep, RefreshClaim, RefreshReused,
     RefreshUnknown, RefreshExpired, RefreshConsume, RefreshRevoke, RefreshVerify,
     RefreshIssue, RefreshStale, RefreshSave, LogoutClaim, LogoutNothing, LogoutConsume,
     Arrive, Claim, ClaimUsed, Adopt, RefuseUnknown, RefuseExpired, Reject, Consume, Issue,
     SaveIssued, SaveSession, Revoke, Goto, account, locals, history, Apart, IInv, TypeOK
<1>2. CASE CompleteArrival(r) \/ CompleteStep(r) \/ SetupAnswer(r)
  BY <1>2
     DEF CompleteArrival, CompleteStep, CompleteClaim, CompleteUnknown, CompleteUsed,
     CompleteExpired, CompleteVerified, CompleteMistyped, CompleteConsume, CompleteIssue,
     CompleteSave, SetupAnswer, Arrive, Claim, Adopt, RefuseUnknown, RefuseUsed,
     RefuseExpired, Reject, Consume, Issue, SaveIssued, SaveSession, Goto, account, locals,
     history,
     Apart, IInv, TypeOK
<1>3. CASE SetupStart(r) \/ SetupSave(r)
  <2>1. /\ UNCHANGED <<now, failed, locked, count>> /\ racing \subseteq racing'
        /\ pc[r] \in {"idle"} \cup (Awaiting \ LoggingIn)
        /\ \A q \in Requests : q # r => subject'[q] = subject[q]
        /\ pc[r] # "idle" => subject'[r] = subject[r]
    BY <1>3 DEF SetupStart, SetupSave, Arrive, NoteRacing, account, locals, history, IInv, TypeOK
  <2>2. \E label \in {"rejected", "setup.save", "setup.qrcode"} : Goto(r, label)
    BY <1>3 DEF SetupStart, SetupSave
  <2>3. \E label \in (Awaiting \cup Ends)
                      \ (LoggingIn \cup {"login.denied", "login.challenged", "login.done"}) :
           Goto(r, label)
    BY <2>2
  <2>4. SetupStart(r) \/ SetupSave(r)
    BY <1>3
  <2> HIDE DEF Awaiting, LoggingIn, Ends
  <2> QED BY <2>1, <2>3, <2>4 DEF Apart
<1>4. CASE \/ LinkArrival(r) \/ LinkStep(r) \/ ResetArrival(r) \/ ResetStep(r)
           \/ VerifyArrival(r) \/ VerifyStep(r)
  BY <1>4
     DEF LinkArrival, LinkStep, ResetArrival, ResetStep, VerifyArrival, VerifyStep,
     ForgotStart, ForgotUnknown, ForgotSave, ForgotSend, SendStart, SendUnknown, SendSave,
     SendSend, LinkStart, LinkUnknown, LinkSent, ResetClaim, ResetUnknown, ResetUsed,
     ResetExpired, ResetConsume, ResetChange, ResetRevoke, VerifyClaim, VerifyUnknown,
     VerifyUsed, VerifyExpired, VerifyConsume, VerifyIssue, VerifySave,
     Arrive, Claim, Adopt, RefuseUnknown, RefuseUsed, RefuseExpired, Reject, Consume, Issue,
     SaveIssued, SaveSession, Revoke, Goto, account, locals, history, Apart, IInv, TypeOK
<1> QED BY <1>1, <1>2, <1>3, <1>4 DEF Arrival, Step, SetupArrival, SetupStep

\* The steps that count and write are those; all others stand aside.
LEMMA Sorted ==
    ASSUME IInv, [Next]_vars
    PROVE  \/ UNCHANGED <<failed, locked, count, pc, subject>>
           \/ Restart
           \/ \E r \in Requests :
                 \/ Aside(r) \/ LoginCount(r)
                 \/ LoginUnlock(r) \/ LoginForget(r) \/ LoginRecord(r) \/ LoginLock(r)
                 \/ LoginReset(r) \/ LoginRelease(r)
<1> USE DEF Unnumbered
<1>1. ASSUME NEW r \in Requests, Apart(r)
      PROVE  Aside(r)
  BY <1>1 DEF Apart, Aside, Goto, Awaiting, LoggingIn, Ends, SecretEnds, SessionEnds,
     IInv, TypeOK
<1>2. ASSUME NEW r \in Requests,
             \/ LoginArrival(r) \/ LoginAuthenticated(r) \/ LoginRefused(r)
             \/ LoginBranch(r) \/ LoginChallenge(r) \/ LoginSave(r)
      PROVE  Aside(r)
  BY <1>2
     DEF LoginArrival, LoginStart, LoginBlocked, LoginLapsed, LoginArrive, Arrive,
     LoginAuthenticated, LoginRefused, LoginBranch, LoginChallenge, LoginSave, SaveIssued,
     SaveSession,
     Goto, account, locals, Aside, IInv, TypeOK
<1>3. ASSUME NEW r \in Requests, Fail(r)
      PROVE  Aside(r)
  BY <1>3 DEF Fail, Broken, Goto, account, locals, Aside, IInv, TypeOK,
     Awaiting, LoggingIn
<1>4. CASE Tick \/ Purge \/ UNCHANGED vars
  BY <1>4 DEF Tick, Purge, vars, account, locals
<1> QED BY <1>1, <1>2, <1>3, <1>4, Elsewhere DEF Next, LoginStep

\* No account is locked before MaxFailed attempts on it were refused, for every
\* interleaving of the reads and writes of the counter.
THEOREM LockIsEarned == Spec => []NoPrematureLock
<1> DEFINE CInv == Numbered /\ Counted
<1>1. Init => CInv
  <2> SUFFICES ASSUME Init
               PROVE  Numbered /\ Counted
    OBVIOUS
  <2>1. \A u : Tries(u) \in Nat
    BY Numbers DEF Tries, Refused, Init
  <2>2. /\ \A r \in Requests : pc[r] = "idle" /\ count[r] = 0
        /\ \A u \in Users : failed[u].count = 0 /\ locked[u] = None
    BY DEF Init
  <2>3. ASSUME NEW r \in Requests
        PROVE  count[r] <= Tries(subject[r]) /\ pc[r] # "login.lock"
    <3>1. Tries(subject[r]) \in Nat
      BY <2>1
    <3> QED BY <2>2, <3>1
  <2>4. Counted
    BY <2>1, <2>2 DEF Counted
  <2> QED BY <2>2, <2>3, <2>4 DEF Numbered
<1>2. IInv /\ CInv /\ [Next]_vars => CInv'
  <2> SUFFICES ASSUME IInv, Numbered, Counted, [Next]_vars
               PROVE  Numbered' /\ Counted'
    OBVIOUS
  <2>1. CASE UNCHANGED <<failed, locked, count, pc, subject>>
    <3>1. \A u : Tries(u)' = Tries(u)
      BY <2>1, SameTries
    <3> QED BY <2>1, <3>1 DEF Numbered, Counted
  <2>2. CASE Restart
    <3>1. /\ \A u : Tries(u)' = Tries(u)
          /\ \A u : Tries(u) \in Nat
      BY <2>2, SameTries, Numbers DEF Restart, locals, Tries, Refused
    <3>2. /\ \A r \in Requests : pc'[r] \in Unnumbered \cup {"login.lock"} => pc'[r] = pc[r]
          /\ \A u \in Users : failed'[u].count = 0 /\ locked'[u] = None
          /\ UNCHANGED <<count, subject>>
      BY <2>2 DEF Restart, Broken, locals, Unnumbered, Awaiting, LoggingIn
    <3> QED BY <3>1, <3>2 DEF Numbered, Counted
  <2> QED BY <2>1, <2>2, Sorted, AsideStep, CountStep, WriteStep
<1>3. CInv => NoPrematureLock
  BY DEF Counted, NoPrematureLock, Tries, Refused
<1> QED BY <1>1, <1>2, <1>3, Invariance, PTL DEF Spec

-----------------------------------------------------------------------------
(* While a lock is in force.  LockHolds is inductive by itself: what sets a  *)
(* lock notes the logins it finds in flight, and what lets a login in has    *)
(* read that there is no lock, or that it has run out.                       *)

\* A step that lets no login in and sets no lock, whatever it deletes.
Calm ==
    /\ \A u \in Users : locked'[u] \in {locked[u], None}
    /\ \A q \in Requests :
          pc'[q] \in LoggingIn => pc[q] \in LoggingIn /\ subject'[q] = subject[q]
    /\ now' \in Nat /\ now <= now'
    /\ racing \subseteq racing'

LEMMA CalmStep ==
    ASSUME IInv, LockHolds, Calm
    PROVE  LockHolds'
<1> SUFFICES ASSUME NEW q \in Requests, pc'[q] \in LoggingIn,
                    locked'[subject'[q]] # None, now' < locked'[subject'[q]]
             PROVE  q \in racing'
  BY DEF LockHolds
<1>1. pc[q] \in LoggingIn /\ subject'[q] = subject[q]
  BY DEF Calm
<1>2. subject[q] \in Users
  BY <1>1 DEF IInv, Settled, Subjects, Awaiting
<1>3. locked'[subject[q]] = locked[subject[q]] /\ locked[subject[q]] \in Nat
  BY <1>1, <1>2 DEF Calm, IInv, TypeOK
<1>4. now < locked[subject[q]]
  BY <1>1, <1>3 DEF Calm, IInv, TypeOK
<1> QED BY <1>1, <1>3, <1>4 DEF Calm, LockHolds

\* A login is let in where no lock is in force.
LEMMA ArriveHolds ==
    ASSUME IInv, LockHolds, NEW r \in Requests, LoginArrival(r)
    PROVE  LockHolds'
<1>1. PICK u \in Users : \E label \in {"login.authenticate", "login.unlock", "rejected"} :
         /\ LoginArrive(r, u, label)
         /\ label # "rejected" => locked[u] = None \/ locked[u] <= now
  BY DEF LoginArrival, LoginStart, LoginBlocked, LoginLapsed
<1>2. PICK label \in {"login.authenticate", "login.unlock", "rejected"} :
         /\ LoginArrive(r, u, label)
         /\ label # "rejected" => locked[u] = None \/ locked[u] <= now
  BY <1>1
<1>3. /\ pc'[r] = label /\ \A q \in Requests : q # r => pc'[q] = pc[q]
      /\ subject'[r] = u /\ \A q \in Requests : q # r => subject'[q] = subject[q]
      /\ UNCHANGED <<now, locked, racing>>
  BY <1>2 DEF LoginArrive, Goto, account, IInv, TypeOK
<1>4. ASSUME pc'[r] \in LoggingIn
      PROVE  locked[u] = None \/ ~ now < locked[u]
  <2>1. label # "rejected"
    BY <1>3, <1>4 DEF LoggingIn
  <2> QED BY <1>2, <2>1 DEF IInv, TypeOK
<1> QED BY <1>3, <1>4 DEF LockHolds

\* A lock that is set notes the logins in flight.
LEMMA LockNotes ==
    ASSUME IInv, LockHolds, NEW r \in Requests, LoginLock(r)
    PROVE  LockHolds'
<1>1. subject[r] \in Users
  BY DEF LoginLock, IInv, Settled, Subjects, Awaiting, LoggingIn
<1>2. /\ pc'[r] = "login.denied" /\ \A q \in Requests : q # r => pc'[q] = pc[q]
      /\ UNCHANGED <<now, subject>>
      /\ \A u \in Users : u # subject[r] => locked'[u] = locked[u]
      /\ racing' = racing \cup {q \in Requests \ {r} :
                       pc[q] \in LoggingIn /\ subject[q] = subject[r]}
  BY DEF LoginLock, NoteRacing, Goto, locals, IInv, TypeOK
<1> SUFFICES ASSUME NEW q \in Requests, pc'[q] \in LoggingIn,
                    locked'[subject'[q]] # None, now' < locked'[subject'[q]]
             PROVE  q \in racing'
  BY DEF LockHolds
<1>3. q # r /\ pc[q] \in LoggingIn
  BY <1>2 DEF LoggingIn
<1>4. subject[q] \in Users
  BY <1>3 DEF IInv, Settled, Subjects, Awaiting
<1>5. CASE subject[q] = subject[r]
  BY <1>2, <1>3, <1>5
<1>6. CASE subject[q] # subject[r]
  BY <1>2, <1>3, <1>4, <1>6 DEF LockHolds
<1> QED BY <1>5, <1>6

\* Every other step is calm.
LEMMA Calmed ==
    ASSUME IInv, [Next]_vars
    PROVE  Calm \/ \E r \in Requests : LoginArrival(r) \/ LoginLock(r)
<1> USE DEF Calm
<1>1. ASSUME NEW r \in Requests, Apart(r)
      PROVE  Calm
  BY <1>1 DEF Apart, Goto, IInv, TypeOK
<1>2. ASSUME NEW r \in Requests,
             \/ LoginAuthenticated(r) \/ LoginRefused(r) \/ LoginCount(r) \/ LoginRecord(r)
             \/ LoginBranch(r) \/ LoginChallenge(r) \/ LoginSave(r)
             \/ LoginUnlock(r) \/ LoginForget(r) \/ LoginReset(r) \/ LoginRelease(r)
      PROVE  Calm
  BY <1>2
     DEF LoginAuthenticated, LoginRefused, LoginCount, LoginRecord, LoginBranch,
     LoginChallenge, LoginSave, SaveIssued, SaveSession, LoginUnlock, LoginForget, LoginReset,
     LoginRelease, ClearLock, ClearFailed, Goto, account, locals, history, LoggingIn,
     IInv, TypeOK
<1>3. ASSUME NEW r \in Requests, Fail(r)
      PROVE  Calm
  BY <1>3 DEF Fail, Broken, Goto, account, locals, history, LoggingIn, IInv, TypeOK
<1>4. CASE Tick \/ Purge \/ UNCHANGED vars
  BY <1>4 DEF Tick, Purge, vars, account, locals, history, IInv, TypeOK
<1>5. CASE Restart
  BY <1>5 DEF Restart, Broken, locals, history, Awaiting, LoggingIn, IInv, TypeOK
<1> QED BY <1>1, <1>2, <1>3, <1>4, <1>5, Elsewhere DEF Next, Arrival, Step, LoginStep

\* While an account is locked, the only logins that try a password, or may
\* delete the lock or the counter, were in flight when it was set.
THEOREM LocksHold == Spec => []LockHolds
<1>1. Init => LockHolds
  BY DEF Init, LockHolds, LoggingIn
<1>2. IInv /\ LockHolds /\ [Next]_vars => LockHolds'
  BY CalmStep, ArriveHolds, LockNotes, Calmed
<1> QED BY <1>1, <1>2, Invariance, PTL DEF Spec

-----------------------------------------------------------------------------
(* The same for the TOTP secret: what saves one notes the set-ups it finds   *)
(* about to save another, and a later one is turned away.                    *)

\* A step that has no part in setting up.
Uninvolved ==
    /\ \A u \in Users : totp'[u] \in {totp[u], None}
    /\ \A q \in Requests :
          pc'[q] = "setup.save" => pc[q] = "setup.save" /\ subject'[q] = subject[q]
    /\ racing \subseteq racing'

LEMMA SetupKinds ==
    ASSUME IInv, [Next]_vars
    PROVE  Uninvolved \/ \E r \in Requests : SetupStart(r) \/ SetupSave(r)
<1> USE DEF Uninvolved
<1>1. ASSUME NEW r \in Requests, Apart(r), ~SetupStart(r), ~SetupSave(r)
      PROVE  Uninvolved
  BY <1>1 DEF Apart, Goto, IInv, TypeOK
<1>2. ASSUME NEW r \in Requests, LoginArrival(r)
      PROVE  Uninvolved
  BY <1>2 DEF LoginArrival, LoginStart, LoginBlocked, LoginLapsed, LoginArrive, Goto,
     account, IInv, TypeOK
<1>3. ASSUME NEW r \in Requests, LoginStep(r)
      PROVE  Uninvolved
  BY <1>3
     DEF LoginStep, LoginAuthenticated, LoginRefused, LoginCount, LoginRecord, LoginLock,
     LoginBranch, LoginChallenge, LoginSave, SaveIssued, SaveSession, LoginUnlock, LoginForget,
     LoginReset, LoginRelease, ClearLock, ClearFailed, NoteRacing, Goto, account, locals,
     history, IInv, TypeOK
<1>4. ASSUME NEW r \in Requests, Fail(r)
      PROVE  Uninvolved
  BY <1>4 DEF Fail, Broken, Goto, account, locals, history, IInv, TypeOK
<1>5. CASE Tick \/ Purge \/ UNCHANGED vars
  BY <1>5 DEF Tick, Purge, vars, account, locals, history
<1>6. CASE Restart
  BY <1>6 DEF Restart, Broken, locals, history, Awaiting, IInv, TypeOK
<1> QED BY <1>1, <1>2, <1>3, <1>4, <1>5, <1>6, Elsewhere DEF Next

\* A TOTP secret is only ever replaced by a set-up that had looked for one before it
\* was saved.
THEOREM SecretsReplacedInRaces == Spec => []LateSetupsRefused
<1>1. Init => LateSetupsRefused
  BY DEF Init, LateSetupsRefused
<1>2. IInv /\ LateSetupsRefused /\ [Next]_vars => LateSetupsRefused'
  <2> SUFFICES ASSUME IInv, LateSetupsRefused, [Next]_vars, NEW q \in Requests,
                      pc'[q] = "setup.save", totp'[subject'[q]] # None
               PROVE  q \in racing'
    BY DEF LateSetupsRefused
  <2>1. CASE Uninvolved
    <3>1. pc[q] = "setup.save" /\ subject'[q] = subject[q] /\ subject[q] \in Users
      BY <2>1 DEF Uninvolved, IInv, Settled, Subjects, Awaiting
    <3> QED BY <2>1, <3>1 DEF Uninvolved, LateSetupsRefused
  <2>2. ASSUME NEW r \in Requests, SetupStart(r)
        PROVE  q \in racing'
    <3>1. PICK u \in Users : /\ subject' = [subject EXCEPT ![r] = u]
                             /\ Goto(r, IF TotpConfigured(u) THEN "rejected" ELSE "setup.save")
      BY <2>2 DEF SetupStart
    <3>2. UNCHANGED <<totp, racing>>
      BY <2>2 DEF SetupStart, account, history
    <3>3. CASE q = r
      BY <3>1, <3>2, <3>3 DEF TotpConfigured, Goto, IInv, TypeOK
    <3>4. CASE q # r
      BY <3>1, <3>2, <3>4 DEF Goto, LateSetupsRefused, IInv, TypeOK
    <3> QED BY <3>3, <3>4
  <2>3. ASSUME NEW r \in Requests, SetupSave(r)
        PROVE  q \in racing'
    <3>1. /\ subject[r] \in Users /\ UNCHANGED subject
          /\ pc'[r] = "setup.qrcode" /\ \A p \in Requests : p # r => pc'[p] = pc[p]
          /\ \A u \in Users : u # subject[r] => totp'[u] = totp[u]
          /\ racing' = racing \cup {p \in Requests \ {r} :
                           pc[p] \in {"setup.save"} /\ subject[p] = subject[r]}
      BY <2>3 DEF SetupSave, NoteRacing, Goto, locals, IInv, TypeOK, Settled, Subjects,
         Awaiting
    <3>2. q # r /\ pc[q] = "setup.save"
      BY <3>1
    <3>3. subject[q] \in Users
      BY <3>2 DEF IInv, Settled, Subjects, Awaiting
    <3> QED BY <3>1, <3>2, <3>3 DEF LateSetupsRefused
  <2> QED BY <2>1, <2>2, <2>3, SetupKinds
<1> QED BY <1>1, <1>2, Invariance, PTL DEF Spec

-----------------------------------------------------------------------------
(* When refused attempts do lock.  An attempt numbered MaxFailed or higher   *)
(* sets the lock; before any lock can have run out, only a login with the    *)
(* right password deletes it, and that login stays on record.                *)

\* A login that has deleted the lock after the right password, however it ends.
Cleared == {"login.branch", "login.challenge", "login.save", "login.challenged",
            "login.done", "orphaned", "failed"}
\* A refused login that has its number.
Given == {"login.record", "login.lock", "login.denied"}

Deferred ==
    /\ \A u \in Users : locked[u] # None => locked[u] >= Lockout
    /\ \A r \in Requests :
          /\ pc[r] = "login.unlock" => now >= Lockout
          /\ pc[r] \in Given => subject[r] \in Users /\ count[r] >= 1
          /\ pc[r] = "login.denied" /\ count[r] >= MaxFailed /\ now < Lockout /\ ~Volatile =>
                \/ locked[subject[r]] # None
                \/ \E q \in Requests : subject[q] = subject[r] /\ pc[q] \in Cleared

\* A step that neither numbers, locks nor unlocks.
Steady ==
    /\ now' \in Nat /\ now <= now' /\ UNCHANGED locked
    /\ \A q \in Requests :
          /\ pc[q] # "idle" => subject'[q] = subject[q]
          /\ pc[q] \in Cleared => pc'[q] \in Cleared
          /\ pc'[q] \in Given => pc[q] \in Given /\ count'[q] = count[q]
          /\ pc'[q] \in {"login.denied", "login.unlock"} => pc[q] = pc'[q]

LEMMA SteadyStep ==
    ASSUME IInv, Deferred, Steady
    PROVE  Deferred'
<1>1. ASSUME NEW r \in Requests, pc'[r] \in Given
      PROVE  /\ pc[r] \in Given /\ subject'[r] = subject[r] /\ count'[r] = count[r]
             /\ subject[r] \in Users /\ count[r] >= 1
  BY <1>1 DEF Steady, Given, Deferred
<1>2. ASSUME NEW r \in Requests, pc'[r] = "login.denied", count'[r] >= MaxFailed,
             now' < Lockout, ~Volatile
      PROVE  \/ locked'[subject'[r]] # None
             \/ \E q \in Requests : subject'[q] = subject'[r] /\ pc'[q] \in Cleared
  <2>1. pc[r] = "login.denied" /\ subject'[r] = subject[r] /\ count'[r] = count[r]
    BY <1>1, <1>2 DEF Steady, Given
  <2>2. now < Lockout
    BY <1>2, TtlAssumption DEF Steady, IInv, TypeOK
  <2>3. \/ locked[subject[r]] # None
        \/ \E q \in Requests : subject[q] = subject[r] /\ pc[q] \in Cleared
    BY <1>2, <2>1, <2>2 DEF Deferred
  <2>4. \A q \in Requests : pc[q] \in Cleared =>
           pc'[q] \in Cleared /\ subject'[q] = subject[q]
    BY DEF Steady, Cleared
  <2> QED BY <2>1, <2>3, <2>4 DEF Steady
<1>3. \A r \in Requests : pc'[r] = "login.unlock" => now' >= Lockout
  BY TtlAssumption DEF Steady, Deferred, IInv, TypeOK
<1>4. \A u \in Users : locked'[u] # None => locked'[u] >= Lockout
  BY DEF Steady, Deferred
<1> QED BY <1>1, <1>2, <1>3, <1>4 DEF Deferred

LEMMA SteadyKinds ==
    ASSUME IInv, [Next]_vars
    PROVE  \/ Steady \/ Restart
           \/ \E r \in Requests :
                 \/ LoginArrival(r) \/ LoginCount(r) \/ LoginRecord(r) \/ LoginLock(r)
                 \/ LoginUnlock(r) \/ LoginRelease(r)
<1> USE DEF Steady, Cleared, Given
<1>1. ASSUME NEW r \in Requests, Apart(r)
      PROVE  Steady
  <2>1. /\ pc[r] \notin Cleared /\ pc[r] \notin Given
        /\ pc'[r] \notin Given \cup {"login.unlock"}
    BY <1>1 DEF Apart, Goto, Awaiting, LoggingIn, Ends, SecretEnds, SessionEnds, IInv, TypeOK
  <2>2. \A q \in Requests : q # r => pc'[q] = pc[q]
    BY <1>1 DEF Apart, Goto, IInv, TypeOK
  <2> QED BY <1>1, <2>1, <2>2 DEF Apart, IInv, TypeOK
<1>2. ASSUME NEW r \in Requests,
             \/ LoginAuthenticated(r) \/ LoginRefused(r) \/ LoginBranch(r)
             \/ LoginChallenge(r) \/ LoginSave(r) \/ LoginForget(r) \/ LoginReset(r)
      PROVE  Steady
  <2>1. CASE LoginAuthenticated(r) \/ LoginRefused(r) \/ LoginBranch(r)
    BY <2>1
       DEF LoginAuthenticated, LoginRefused, LoginBranch, Goto, account, locals, IInv, TypeOK
  <2>2. CASE LoginChallenge(r)
    BY <2>2 DEF LoginChallenge, SaveIssued, Goto, account, locals, IInv, TypeOK
  <2>3. CASE LoginSave(r)
    BY <2>3 DEF LoginSave, SaveSession, SaveIssued, Goto, account, locals, IInv, TypeOK
  <2>4. CASE LoginForget(r) \/ LoginReset(r)
    BY <2>4 DEF LoginForget, LoginReset, ClearFailed, Goto, account, locals, IInv, TypeOK
  <2> QED BY <1>2, <2>1, <2>2, <2>3, <2>4
<1>3. ASSUME NEW r \in Requests, Fail(r)
      PROVE  Steady
  BY <1>3 DEF Fail, Broken, Goto, account, locals, Awaiting, LoggingIn, IInv, TypeOK
<1>4. CASE Tick \/ Purge \/ UNCHANGED vars
  BY <1>4 DEF Tick, Purge, vars, account, locals, IInv, TypeOK
<1> QED BY <1>1, <1>2, <1>3, <1>4, Elsewhere DEF Next, LoginStep

\* A login that is let in, and one that is given its number.
LEMMA DeferredArrive ==
    ASSUME IInv, Deferred, NEW r \in Requests, LoginArrival(r) \/ LoginCount(r)
    PROVE  Deferred'
<1>1. CASE LoginArrival(r)
  <2>1. PICK u \in Users, label \in {"login.authenticate", "login.unlock", "rejected"} :
           /\ LoginArrive(r, u, label)
           /\ label = "login.unlock" => locked[u] # None /\ locked[u] <= now
    BY <1>1 DEF LoginArrival, LoginStart, LoginBlocked, LoginLapsed
  <2>2. label = "login.unlock" => now >= Lockout
    BY <2>1, TtlAssumption DEF Deferred, IInv, TypeOK
  <2>3. /\ pc[r] = "idle" /\ pc'[r] = label /\ \A q \in Requests : q # r => pc'[q] = pc[q]
        /\ \A q \in Requests : q # r => subject'[q] = subject[q]
        /\ UNCHANGED <<now, locked, count>>
    BY <2>1 DEF LoginArrive, Arrive, Goto, account, IInv, TypeOK
  <2>4. /\ \A q \in Requests : pc'[q] \in Given => pc[q] = pc'[q] /\ q # r
        /\ \A q \in Requests : pc[q] \in Cleared => pc'[q] = pc[q] /\ q # r
    BY <2>3 DEF Given, Cleared
  <2>5. \A q \in Requests : pc'[q] = "login.unlock" => now >= Lockout
    BY <2>2, <2>3 DEF Deferred
  <2> QED BY <2>3, <2>4, <2>5 DEF Deferred, Given
<1>2. CASE LoginCount(r)
  <2>1. subject[r] \in Users /\ failed[subject[r]].count \in Nat
    BY <1>2 DEF LoginCount, IInv, Settled, Subjects, Awaiting, LoggingIn, TypeOK, Attempts
  <2>2. PICK n \in {0, failed[subject[r]].count} : count' = [count EXCEPT ![r] = n + 1]
    BY <1>2 DEF LoginCount, LastCount
  <2>3. /\ count'[r] >= 1 /\ \A q \in Requests : q # r => count'[q] = count[q]
        /\ pc[r] = "login.count" /\ pc'[r] = "login.record"
        /\ \A q \in Requests : q # r => pc'[q] = pc[q]
        /\ UNCHANGED <<now, locked, subject>>
    BY <1>2, <2>1, <2>2 DEF LoginCount, Goto, account, IInv, TypeOK
  <2>4. \A q \in Requests : pc[q] \in Cleared => pc'[q] \in Cleared
    BY <2>3 DEF Cleared
  <2> QED BY <2>1, <2>3, <2>4 DEF Deferred, Given
<1> QED BY <1>1, <1>2

\* The number is recorded, and the lock is set or not; the lock is deleted.
LEMMA DeferredWrite ==
    ASSUME IInv, Deferred, NEW r \in Requests,
           LoginRecord(r) \/ LoginLock(r) \/ LoginUnlock(r) \/ LoginRelease(r)
    PROVE  Deferred'
<1>1. subject[r] \in Users /\ now \in Nat /\ count[r] \in Nat
  BY DEF LoginRecord, LoginLock, LoginUnlock, LoginRelease, IInv, Settled, Subjects,
     Awaiting, LoggingIn, TypeOK
<1>2. /\ \A q \in Requests : q # r => pc'[q] = pc[q]
      /\ UNCHANGED <<now, subject, count>>
      /\ \A u \in Users : u # subject[r] => locked'[u] = locked[u]
  BY DEF LoginRecord, LoginLock, LoginUnlock, LoginRelease, ClearLock, Goto, locals, IInv, TypeOK
<1>3. CASE LoginRecord(r)
  <2>1. pc[r] = "login.record" /\ UNCHANGED locked
    BY <1>3 DEF LoginRecord
  <2>2. \/ pc'[r] = "login.lock"
        \/ pc'[r] = "login.denied" /\ ~(count[r] >= MaxFailed)
    BY <1>3 DEF LoginRecord, TooMany, Goto, IInv, TypeOK
  <2>3. \A q \in Requests : pc[q] \in Cleared => pc'[q] \in Cleared
    BY <1>2, <2>1 DEF Cleared
  <2> QED BY <1>2, <2>1, <2>2, <2>3 DEF Deferred, Given
<1>4. CASE LoginLock(r)
  <2>1. /\ pc[r] = "login.lock" /\ pc'[r] = "login.denied"
        /\ locked'[subject[r]] = now + Lockout
    BY <1>1, <1>4 DEF LoginLock, Goto, IInv, TypeOK
  <2>2. locked'[subject[r]] # None /\ locked'[subject[r]] >= Lockout
    BY <1>1, <2>1, TtlAssumption, NoneAssumption
  <2>3. \A q \in Requests : pc[q] \in Cleared => pc'[q] \in Cleared
    BY <1>2, <2>1 DEF Cleared
  <2>4. \A u \in Users : locked[u] # None => locked'[u] # None /\ locked'[u] >= Lockout
    BY <1>2, <2>2 DEF Deferred
  <2> QED BY <1>1, <1>2, <2>1, <2>2, <2>3, <2>4 DEF Deferred, Given
<1>5. CASE LoginUnlock(r)
  <2>1. pc[r] = "login.unlock" /\ pc'[r] = "login.forget" /\ locked'[subject[r]] = None
    BY <1>1, <1>5 DEF LoginUnlock, ClearLock, Goto, IInv, TypeOK
  <2>2. ~(now < Lockout)
    BY <1>1, <2>1, TtlAssumption DEF Deferred
  <2> QED BY <1>2, <2>1, <2>2 DEF Deferred, Given
<1>6. CASE LoginRelease(r)
  <2>1. pc[r] = "login.release" /\ pc'[r] = "login.branch" /\ locked'[subject[r]] = None
    BY <1>1, <1>6 DEF LoginRelease, ClearLock, Goto, IInv, TypeOK
  <2>2. \A q \in Requests : pc[q] \in Cleared \/ q = r => pc'[q] \in Cleared
    BY <1>2, <2>1 DEF Cleared
  <2> QED BY <1>2, <2>1, <2>2 DEF Deferred, Given
<1> QED BY <1>3, <1>4, <1>5, <1>6

\* As many refused attempts as the threshold, no two of which were given the same
\* number, have locked the account.
LEMMA Threshold ==
    ASSUME IInv, Deferred
    PROVE  OnlyMiscountsDefer
<1> SUFFICES ASSUME NEW u \in Users,
                    NEW refused, refused = {r \in Requests : subject[r] = u /\ pc[r] = "login.denied"},
                    now < Lockout, ~Volatile,
                    \A r \in Requests : subject[r] = u => pc[r] \in {"login.denied", "rejected"},
                    refused # {}, Cardinality(refused) >= MaxFailed,
                    \A q, r \in refused : count[q] = count[r] => q = r
             PROVE  locked[u] # None
  BY DEF OnlyMiscountsDefer
<1>1. IsFiniteSet(refused) /\ Cardinality(refused) \in Nat
  BY RequestsAssumption, FS_Subset, FS_CardinalityType
<1>2. \A r \in refused : count[r] \in Nat /\ count[r] >= 1
  BY DEF Deferred, Given, IInv, TypeOK
<1>3. \E r \in refused : count[r] >= MaxFailed
  <2> SUFFICES ASSUME \A r \in refused : ~(count[r] >= MaxFailed)
               PROVE  FALSE
    OBVIOUS
  <2> DEFINE T == 1..(MaxFailed - 1)
             number == [r \in refused |-> count[r]]
  <2>1. ASSUME NEW r \in refused
        PROVE  count[r] \in T /\ MaxFailed >= 2
    <3>1. count[r] \in Nat /\ count[r] >= 1 /\ MaxFailed \in Nat /\ ~(count[r] >= MaxFailed)
      BY <1>2, TtlAssumption
    <3> QED BY <3>1
  <2>2. MaxFailed \in Nat /\ MaxFailed >= 2
    BY <2>1, TtlAssumption
  <2>3. IsFiniteSet(T) /\ Cardinality(T) = MaxFailed - 1
    <3>1. 1 \in Int /\ MaxFailed - 1 \in Int /\ ~(1 > MaxFailed - 1)
      BY <2>2
    <3>2. (MaxFailed - 1) - 1 + 1 = MaxFailed - 1
      BY <2>2
    <3> QED BY <3>1, <3>2, FS_Interval
  <2>4. Cardinality(T) < Cardinality(refused)
    BY <1>1, <2>2, <2>3
  <2> HIDE DEF T
  <2>5. number \in [refused -> T]
    BY <2>1
  <2> HIDE DEF number
  <2>6. \E q, r \in refused : q # r /\ number[q] = number[r]
    BY <1>1, <2>3, <2>4, <2>5, FS_PigeonHole
  <2> QED BY <2>6 DEF number
<1>4. PICK r \in refused : count[r] >= MaxFailed
  BY <1>3
<1>5. \/ locked[u] # None
      \/ \E q \in Requests : subject[q] = u /\ pc[q] \in Cleared
  BY <1>4 DEF Deferred
<1> QED BY <1>5 DEF Cleared

\* As many refused attempts as the threshold lock the account, unless interleaved
\* attempts were given the same number.
THEOREM ThresholdLocks == Spec => []OnlyMiscountsDefer
<1>1. Init => Deferred
  BY DEF Init, Deferred, Given
<1>2. IInv /\ Deferred /\ [Next]_vars => Deferred'
  <2> SUFFICES ASSUME IInv, Deferred, [Next]_vars
               PROVE  Deferred'
    OBVIOUS
  <2>1. CASE Restart
    <3>1. Volatile /\ UNCHANGED <<now, count, subject>>
      BY <2>1 DEF Restart, locals
    <3>2. \A r \in Requests : pc'[r] \in Given \cup {"login.unlock"} => pc'[r] = pc[r]
      BY <2>1 DEF Restart, Broken, Given
    <3>3. \A u \in Users : locked'[u] = None
      BY <2>1 DEF Restart
    <3> QED BY <3>1, <3>2, <3>3 DEF Deferred, Given
  <2> QED BY <2>1, SteadyStep, SteadyKinds, DeferredArrive, DeferredWrite
<1> QED BY <1>1, <1>2, Threshold, Invariance, PTL DEF Spec
=============================================================================
