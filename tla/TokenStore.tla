----------------------------- MODULE TokenStore -----------------------------
(***************************************************************************)
(* The ITokenStore port and its implementations: a table of single-use     *)
(* token records (refresh sessions, pre-auth tokens, reset and magic       *)
(* links), each operation being one atomic statement of the database (or   *)
(* one synchronous stretch of the in-memory map).                          *)
(*                                                                         *)
(* A use case saves at most one record per request, under a fresh random   *)
(* UUID, so a record is identified here by the request that saves it.      *)
(*                                                                         *)
(* An operator named Wrong... is never used: it is the operator defined    *)
(* after it with a plausible mistake, kept to show that the properties     *)
(* notice the mistake.                                                     *)
(***************************************************************************)
EXTENDS Naturals

CONSTANTS
    Requests,   \* the HTTP requests the service ever receives
    Users,      \* the accounts; each stands for its id and its e-mail address
    None        \* no request, no record, no secret

VARIABLES
    now,        \* the clock, in whole seconds
    tokens      \* the records by id; None where there is no such record

\* The values of the "type" column the use cases write.
TokenTypes == {"REFRESH_TOKEN", "PRE_AUTH_2FA", "RESET_PASSWORD", "MAGIC_LINK"}

\* The value of a token. A random secret is named by the request that drew it.
\* A JWT has no random part (by = None): it is a function of its claims, the
\* user and the second it was signed in, and two equal JWTs are one token.
Token == [by : Requests \cup {None}, sub : Users, iat : Nat]

Record == [user : Users, type : TokenTypes, token : Token,
           expiresAt : Nat, consumed : BOOLEAN]

\* The null value of each kind of variable is no value of that kind.
ASSUME NoneAssumption ==
    None \notin Requests \cup Nat /\ None \notin Token /\ None \notin Record

Stored == {i \in Requests : tokens[i] # None}

TokensType == tokens \in [Requests -> Record \cup {None}]

-----------------------------------------------------------------------------
(***************************************************************************)
(* Expiry.  Stored times have milliseconds and the model's clock counts    *)
(* seconds: within the second of the deadline, "expiresAt < now" may go    *)
(* either way, so a record can then be seen both fresh and expired.        *)
(***************************************************************************)
MaybeExpired(i) == tokens[i].expiresAt <= now
MaybeFresh(i)   == now <= tokens[i].expiresAt

\* findByToken: a record with this token and type, consumed or not.  When
\* several match (equal JWTs) the store may return any of them.
WrongFindByToken(t, type) == {i \in Stored : tokens[i].token = t}
FindByToken(t, type) ==
    {i \in Stored : tokens[i].token = t /\ tokens[i].type = type}

\* save: a new, unconsumed record that lives for ttl seconds.
Save(id, user, type, token, ttl) ==
    tokens' = [tokens EXCEPT ![id] =
                  [user |-> user, type |-> type, token |-> token,
                   expiresAt |-> now + ttl, consumed |-> FALSE]]

\* markConsumed succeeds on a record that exists and is not consumed ...
WrongConsumable(i) == i \in Stored
Consumable(i) == i \in Stored /\ ~tokens[i].consumed

\* ... and then marks it.  (Wrong: the record is removed, and with it the memory
\* that the token was used.)
WrongMarkConsumed(i) == tokens' = [tokens EXCEPT ![i] = None]
MarkConsumed(i) ==
    tokens' = [tokens EXCEPT ![i] = [@ EXCEPT !.consumed = TRUE]]

\* deleteAllForUser: every record of the user, whatever its type.
DeleteAllForUser(user) ==
    tokens' = [i \in Requests |->
                  IF i \in Stored /\ tokens[i].user = user
                  THEN None ELSE tokens[i]]

\* deleteExpired, run by a scheduled job of the host application: everything
\* past its deadline, and any part of what expires within this second.
DeleteExpired ==
    \E gone \in SUBSET {i \in Stored : MaybeExpired(i)} :
        /\ gone # {}
        /\ {i \in Stored : ~MaybeFresh(i)} \subseteq gone
        /\ tokens' = [i \in Requests |-> IF i \in gone THEN None ELSE tokens[i]]
=============================================================================
