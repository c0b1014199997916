------------------------------ MODULE Keycloak ------------------------------
(***************************************************************************)
(* The Keycloak server as packages/auth/src sees it through its admin API, *)
(* and the two clients the package has for that API, the provider of a     *)
(* running server and the command-line tool: both keep an admin token      *)
(* until shortly before it expires, in the same code.                      *)
(*                                                                         *)
(* Whatever is run against a deployment is a job: a command, a server, or  *)
(* a request to one.  Its steps are mostly admin calls: each gets a token  *)
(* (phase "token", and "fetching" while Keycloak's answer is on its way)   *)
(* and then calls (phase "calling"), and any of them may fail.             *)
(***************************************************************************)
EXTENDS Integers, Sequences, FiniteSets

CONSTANTS
    Jobs, None,
    Preset,         \* names what was there before the first job
    ClientIds,      \* client ids of the realm
    Account,        \* the client Keycloak itself puts into every realm
    Life,           \* expires_in of an admin token
    Margin,         \* how long before its expiry a token is given up (30 s)
    MaxNow,         \* bound on the clock
    MaxBusy         \* bound on the jobs under way at a time, running servers aside

ASSUME LifeAssumption == Life \in Nat /\ Margin \in Nat
ASSUME JobsAssumption == None \notin Jobs /\ Preset \notin Jobs /\ None # Preset

VARIABLES
    now,
    realm,          \* Keycloak: whether the realm is switched on, None without one
    clients,        \* its clients by id, with who wrote each last
    accounts,       \* its users: e-mail, name, verified, and who created it
    cache,          \* adminTokenCache of each tool and server
    job             \* what each job is doing

keycloak == <<realm, clients, accounts>>

\* A secret is named by whoever drew it; Keycloak's own clients have none.
Secrets     == Jobs \cup {None, Preset}
Credentials == [id : ClientIds, secret : Secrets]

\* What lets a client have an admin token, its secret aside: it is enabled, and it
\* is a confidential client with a service account.
Switch == {"on", "off"}
Client == [secret : Secrets, enabled : Switch, service : Switch,
           by : Jobs \cup {Preset}]

ASSUME SwitchAssumption == None \notin Switch

\* A realm configuration file: what it says of the realm and of its clients, in
\* order; it need not say everything.
Said    == Switch \cup {None}
Entry   == [id : ClientIds, secret : Secrets, enabled : Said, service : Said]
Content == Seq(Entry)
File    == [enabled : Said, clients : Content]

\* A token by the time it was granted; lag is how long the answer took; a job
\* holds it since picked, the cache until the time given.
Bearer == [granted : Nat, lag : Nat, picked : Nat]
Cached == [granted : Nat, lag : Nat, until : Int]

ASSUME BearerAssumption == None \notin Bearer

Calls == {"exists", "update", "create", "find", "put", "post",
          "realm", "clients", "secret", "register", "lookup", "verify"}
Over  == {"done", "failed"}
Steps == Calls \cup Over \cup {"idle", "building", "running",
                               "look", "insert", "replace", "write", "delete"}

\* kind and step of a job; the server that serves it; the client it or the server
\* is; the admin token it carries; the jobs that had ended when it began; what it
\* has read of the realm and its clients, and how far it is with them; a server's
\* options and what is built of it; a request's input, and what it has found.
NoJob == [kind |-> None, step |-> "idle", phase |-> "token", server |-> None,
          creds |-> None, bearer |-> None, before |-> {},
          enabled |-> None, plan |-> <<>>, at |-> 1,
          options |-> None, built |-> {}, input |-> None, found |-> None]

FrameType ==
    /\ now \in Nat
    /\ realm \in Said
    /\ \E ids \in SUBSET ClientIds : clients \in [ids -> Client]
    /\ cache \in [Jobs -> Cached \cup {None}]
    /\ \A j \in Jobs :
          /\ job[j].step \in Steps /\ job[j].phase \in {"token", "fetching", "calling"}
          /\ job[j].server \in Jobs \cup {None}
          /\ job[j].creds \in Credentials \cup {None}
          /\ job[j].bearer \in Bearer \cup {None}
          /\ job[j].phase # "token" <=> job[j].bearer # None
          /\ job[j].enabled \in Said
          /\ job[j].plan \in Content /\ job[j].at \in 1..(Len(job[j].plan) + 1)

-----------------------------------------------------------------------------
(* Jobs.                                                                   *)

At(j, label) == job[j].step = label

\* A job that may begin: the bound leaves out what would run at the same time as
\* the start of a server, but for what is done in one step.
Busy == {k \in Jobs : job[k].step \notin Over \cup {"idle", "running"}}
Idle(j) ==
    /\ At(j, "idle")
    /\ Cardinality(Busy) < MaxBusy /\ \A k \in Busy : job[k].step # "building"

\* The instance whose token cache a job uses: the server's, or a tool's own.
Holder(j) == IF job[j].server = None THEN j ELSE job[j].server

\* A job as it begins, as it goes on to its next step, and when nothing more is
\* known of it than how it ended.
First(j, what, label) ==
    [NoJob EXCEPT !.kind = what, !.step = label,
                  !.before = {k \in Jobs : job[k].step \in Over}]
Ended(what, how) == [NoJob EXCEPT !.kind = what, !.step = how]
\* (Wrong: does not give the token back.)
WrongTo(j, next) ==
    IF next = "failed" THEN Ended(job[j].kind, "failed")
    ELSE [job[j] EXCEPT !.step = next, !.phase = "token",
                        !.creds = IF next = "done" THEN None ELSE @]
To(j, next) ==
    IF next = "failed" THEN Ended(job[j].kind, "failed")
    ELSE [job[j] EXCEPT !.step = next, !.phase = "token", !.bearer = None,
                        !.creds = IF next = "done" THEN None ELSE @]

\* A tool closes its client at the end, whatever happened.
Move(j, next) ==
    /\ job' = [job EXCEPT ![j] = next]
    /\ cache' = IF next.step \in Over THEN [cache EXCEPT ![j] = None] ELSE cache

-----------------------------------------------------------------------------
(* getAdminToken and adminRequest.                                         *)

Existing == DOMAIN clients

\* Keycloak grants a token to a client of the realm that knows its secret, if the
\* realm and the client are enabled and the client has a service account.
Granted(c) ==
    /\ realm = "on" /\ c # None
    /\ c.id \in Existing /\ c.secret # None
    /\ LET client == clients[c.id]
       IN  client.secret = c.secret /\ client.enabled = "on" /\ client.service = "on"

Fresh(j) == cache[Holder(j)] # None /\ cache[Holder(j)].until > now

\* The cached token, while it is good ...
TakeCached(j) ==
    /\ job[j].step \in Calls /\ job[j].phase = "token" /\ Fresh(j)
    /\ LET token == cache[Holder(j)]
       IN  job' = [job EXCEPT ![j] = [@ EXCEPT !.phase = "calling",
              !.bearer = [granted |-> token.granted, lag |-> token.lag, picked |-> now]]]
    /\ UNCHANGED <<now, keycloak, cache>>

\* ... or a new one, which Keycloak grants now ...
Fetch(j) ==
    /\ job[j].step \in Calls /\ job[j].phase = "token" /\ ~Fresh(j)
    /\ Granted(job[Holder(j)].creds)
    /\ job' = [job EXCEPT ![j] = [@ EXCEPT !.phase = "fetching",
          !.bearer = [granted |-> now, lag |-> 0, picked |-> now]]]
    /\ UNCHANGED <<now, keycloak, cache>>

\* ... and whose life, as cached, is counted from the moment the answer arrives.
Keep(j, until) ==
    /\ job[j].phase = "fetching"
    /\ LET token == [granted |-> job[j].bearer.granted, lag |-> now - job[j].bearer.granted]
       IN  /\ cache' = [cache EXCEPT ![Holder(j)] =
                  [granted |-> token.granted, lag |-> token.lag, until |-> until]]
           /\ job' = [job EXCEPT ![j] = [@ EXCEPT !.phase = "calling",
                  !.bearer = [granted |-> token.granted, lag |-> token.lag, picked |-> now]]]
    /\ UNCHANGED <<now, keycloak>>

\* Wrong: kept to the end of its life.
WrongArrive(j) == Keep(j, now + Life)
Arrive(j)      == Keep(j, now + (Life - Margin))

\* The call reaches Keycloak with a token that has not expired ...
Accepted(j) ==
    /\ job[j].phase = "calling"
    /\ realm # None /\ now < job[j].bearer.granted + Life

\* ... and its answer, if it is not lost, leads on to the next step.
Answer(j, next) == Move(j, next) \/ Move(j, To(j, "failed"))

\* Or it fails before it has any effect.  Three steps make up for that.
Fail(j) ==
    /\ job[j].step \in Calls \ {"exists", "secret", "verify"}
    /\ Move(j, To(j, "failed"))
    /\ UNCHANGED <<now, keycloak>>

\* Time passes unnoticed while nobody has a token.
Tick ==
    /\ now < MaxNow
    /\ \E j \in Jobs : cache[j] # None \/ job[j].bearer # None
    /\ now' = now + 1
    /\ UNCHANGED <<keycloak, cache, job>>
=============================================================================
