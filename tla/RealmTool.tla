----------------------------- MODULE RealmTool -----------------------------
(***************************************************************************)
(* The command-line tool: init writes a realm configuration file, export   *)
(* writes one from Keycloak, import brings Keycloak in line with it.  The  *)
(* last two are admin calls in a row; nothing is undone when a later one   *)
(* fails, and nothing keeps two of them from running at once.              *)
(***************************************************************************)
EXTENDS Keycloak, Filtering, SequencesExt

CONSTANTS
    Listing,        \* the client ids in the order in which Keycloak lists them
    Operator        \* the client whose credentials operators type in

\* Keycloak lists its own client, too.
ASSUME ListingAssumption == Listing \in Seq(ClientIds) /\ Account \in ToSet(Listing)

VARIABLE file       \* keycloak-realm.json, None if missing

CredentialsOf(e) == [id |-> e.id, secret |-> e.secret]

\* Keycloak leaves alone what it is not told about (external) ...
Heed(said, old) == IF said = None THEN old ELSE said

\* ... and a client it creates is enabled and has no service account by default.
Created(e, secret, j) ==
    [secret |-> secret, by |-> j,
     enabled |-> Heed(e.enabled, "on"), service |-> Heed(e.service, "off")]

\* The wizard writes one client, with the secret typed in or a random one.
InitFile(j) ==
    /\ At(j, "idle")
    /\ Move(j, Ended("init", "done"))
    /\ \E i \in ClientIds \ {Account} :
          file' = [enabled |-> "on", clients |->
                     <<[id |-> i, secret |-> j, enabled |-> None, service |-> "on"]>>]
    /\ UNCHANGED <<now, keycloak>>

\* Keycloak started with --import-realm (external): a realm that is not there yet
\* is created with the clients of the file, secrets and all, and its own client.
RealmOf(content, j) ==
    [i \in {Account} \cup {e.id : e \in ToSet(content)} |->
       IF i = Account
       THEN [secret |-> None, by |-> j, enabled |-> "on", service |-> "off"]
       ELSE LET e == CHOOSE e \in ToSet(content) : e.id = i IN Created(e, e.secret, j)]

Seed(j) ==
    /\ At(j, "idle") /\ file # None /\ realm = None
    /\ Move(j, Ended("seed", "done"))
    /\ realm' = Heed(file.enabled, "on") /\ clients' = RealmOf(file.clients, j)
    /\ UNCHANGED <<now, accounts, file>>

\* What they type in is the secret in the file, or the one that Keycloak shows.
Known ==
    LET shown   == {[id |-> i, secret |-> clients[i].secret] : i \in Existing}
        written == IF file = None THEN {} ELSE {CredentialsOf(e) : e \in ToSet(file.clients)}
    IN  {c \in shown \cup written : c.id = Operator}

-----------------------------------------------------------------------------
(* import                                                                  *)

ImportStart(j) ==
    /\ Idle(j) /\ file # None
    /\ \E c \in Known :
          Move(j, [First(j, "import", "exists") EXCEPT
                      !.enabled = file.enabled, !.plan = file.clients, !.creds = c])
    /\ UNCHANGED <<now, keycloak, file>>

\* realmExists: whatever goes wrong counts as "does not exist".
Exists(j) ==
    /\ At(j, "exists")
    /\ \/ Accepted(j) /\ Move(j, To(j, "update"))
       \/ Move(j, To(j, "create"))
    /\ UNCHANGED <<now, keycloak, file>>

\* The clients of the file come next, one by one.  (Wrong: but for the last.)
WrongClientAt(j, n) ==
    [To(j, IF n >= Len(job[j].plan) THEN "done" ELSE "find") EXCEPT !.at = n]
ClientAt(j, n) ==
    [To(j, IF n > Len(job[j].plan) THEN "done" ELSE "find") EXCEPT !.at = n]

Update(j) ==
    /\ At(j, "update") /\ Accepted(j)
    /\ realm' = Heed(job[j].enabled, realm)
    /\ Answer(j, ClientAt(j, 1))
    /\ UNCHANGED <<now, clients, accounts, file>>

\* createRealm asks the very realm that is to be created for the token, and one
\* that is there by now cannot be created: no outcome but failure.
Create(j) ==
    /\ At(j, "create") /\ Accepted(j)
    /\ realm' = (IF realm = None THEN Heed(job[j].enabled, "on") ELSE realm)
    /\ Move(j, IF realm = None THEN ClientAt(j, 1) ELSE To(j, "failed"))
    /\ UNCHANGED <<now, clients, accounts, file>>

\* getClientByClientId.
Current(j) == job[j].plan[job[j].at]

Find(j) ==
    /\ At(j, "find") /\ Accepted(j)
    /\ Move(j, To(j, IF Current(j).id \in Existing THEN "put" ELSE "post"))
    /\ UNCHANGED <<now, keycloak, file>>

\* updateClient sends everything that the file says of the client but its secret,
\* so that Keycloak keeps the one it has.  (Wrong: secret and all.)
WrongPayload(j) ==
    LET e == Current(j)
        old == clients[e.id]
    IN  [secret |-> Heed(e.secret, old.secret), by |-> j,
         enabled |-> Heed(e.enabled, old.enabled), service |-> Heed(e.service, old.service)]
Payload(j) ==
    LET e == Current(j)
        old == clients[e.id]
    IN  [secret |-> old.secret, by |-> j,
         enabled |-> Heed(e.enabled, old.enabled), service |-> Heed(e.service, old.service)]

Put(j) ==
    /\ At(j, "put") /\ Accepted(j)
    /\ clients' = [clients EXCEPT ![Current(j).id] = Payload(j)]
    /\ Answer(j, ClientAt(j, job[j].at + 1))
    /\ UNCHANGED <<now, realm, accounts, file>>

\* createClient leaves it out as well: Keycloak draws one.  If another import was
\* faster, Keycloak refuses (409) and this one fails.
Post(j) ==
    /\ At(j, "post") /\ Accepted(j)
    /\ IF Current(j).id \in Existing
       THEN Move(j, To(j, "failed")) /\ UNCHANGED clients
       ELSE /\ clients' = [i \in Existing \cup {Current(j).id} |->
                  IF i \in Existing THEN clients[i] ELSE Created(Current(j), j, j)]
            /\ Answer(j, ClientAt(j, job[j].at + 1))
    /\ UNCHANGED <<now, realm, accounts, file>>

-----------------------------------------------------------------------------
(* export                                                                  *)

ExportStart(j) ==
    /\ Idle(j)
    /\ \E c \in Known : Move(j, [First(j, "export", "realm") EXCEPT !.creds = c])
    /\ UNCHANGED <<now, keycloak, file>>

GetRealm(j) ==
    /\ At(j, "realm") /\ Accepted(j)
    /\ Move(j, [To(j, "clients") EXCEPT !.enabled = realm])
    /\ UNCHANGED <<now, keycloak, file>>

\* getClients: all of them, Keycloak's own included, with or without the secrets;
\* buildExportConfig does not say whether they are enabled.
GetClients(j) ==
    /\ At(j, "clients") /\ Accepted(j)
    /\ \E shown \in BOOLEAN :
          LET listed == Only(Listing, Existing)
          IN  Move(j, [To(j, "secret") EXCEPT !.plan = [k \in DOMAIN listed |->
                 LET client == clients[listed[k]]
                 IN  [id |-> listed[k], enabled |-> None, service |-> client.service,
                      secret |-> IF shown THEN client.secret ELSE None]]])
    /\ UNCHANGED <<now, keycloak, file>>

\* getClientSecret, client by client: one that fails leaves what the list said.
\* After the last the file is written.
GetSecret(j) ==
    /\ At(j, "secret")
    /\ \E got \in {Current(j).secret}
                  \cup IF Accepted(j) THEN {clients[Current(j).id].secret} ELSE {} :
          LET read == [job[j].plan EXCEPT ![job[j].at].secret = got]
              last == job[j].at = Len(read)
          IN  /\ Move(j, IF last THEN Ended("export", "done")
                         ELSE [To(j, "secret") EXCEPT !.plan = read, !.at = @ + 1])
              /\ file' = IF last THEN [enabled |-> job[j].enabled, clients |-> read]
                         ELSE file
    /\ UNCHANGED <<now, keycloak>>
=============================================================================
