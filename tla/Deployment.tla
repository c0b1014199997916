----------------------------- MODULE Deployment -----------------------------
(***************************************************************************)
(* A deployment: operators at the command line, servers that start, and    *)
(* requests that use Keycloak's admin API or the store's user data, all at *)
(* the same time.                                                          *)
(***************************************************************************)
EXTENDS Requests

CONSTANT Handwritten    \* realm configuration files written by hand

ASSUME HandwrittenAssumption == Handwritten \subseteq File

vars == <<now, realm, clients, accounts, cache, job, file, row>>

\* A deployment is begun from nothing, or with a realm made from a file that was
\* written by hand, which may have been edited since.
Init ==
    /\ now = 0
    /\ \/ file = None /\ realm = None /\ clients = <<>>
       \/ /\ file \in Handwritten
          /\ \E first \in Handwritten :
                /\ realm = Heed(first.enabled, "on")
                /\ clients = RealmOf(first.clients, Preset)
    /\ accounts = {} /\ row = None
    /\ cache = [j \in Jobs |-> None]
    /\ job = [j \in Jobs |-> NoJob]

AdminStep(j) ==
    /\ TakeCached(j) \/ Fetch(j) \/ Arrive(j) \/ Fail(j)
    /\ UNCHANGED <<file, row>>

Command(j) ==
    /\ \/ InitFile(j) \/ Seed(j)
       \/ ImportStart(j) \/ Exists(j) \/ Update(j) \/ Create(j)
       \/ Find(j) \/ Put(j) \/ Post(j)
       \/ ExportStart(j) \/ GetRealm(j) \/ GetClients(j) \/ GetSecret(j)
    /\ UNCHANGED row

ServerStart(j) ==
    /\ Boot(j) \/ \E p \in Parts : Build(j, p)
    /\ UNCHANGED row

Request(j) ==
    \/ RegisterStart(j) \/ Register(j) \/ Lookup(j) \/ Verify(j)
    \/ SaveStart(j) \/ DeleteStart(j)
    \/ Write(j) \/ Look(j) \/ Replace(j) \/ Insert(j) \/ Delete(j)

Next ==
    \/ Tick /\ UNCHANGED <<file, row>>
    \/ \E j \in Jobs : AdminStep(j) \/ Command(j) \/ ServerStart(j) \/ Request(j)

Spec == Init /\ [][Next]_vars

-----------------------------------------------------------------------------
(* Properties.                                                             *)

\* Every variable has the values its module names, and a job has an admin token
\* exactly from the request for one to the end of the call it was for.
TypeOK ==
    /\ FrameType
    /\ \A j \in Jobs : job[j].options \in Options \cup {None} /\ job[j].built \subseteq Parts
    /\ file \in File \cup {None}
    /\ row \in Row \cup {None}

\* An admin token is still good when it is used, unless Keycloak's answer and the
\* call that carries the token took longer together than the margin (30 seconds)
\* or the token's whole life: the margin of getAdminToken is enough.
AdminTokenInTime ==
    \A j \in Jobs :
        LET t == job[j].bearer IN
        job[j].phase = "calling" /\ now >= t.granted + Life
            => LET late == t.lag + (now - t.picked) IN late > Margin \/ late >= Life

\* A server that could get an admin token can still get one, unless an import just
\* switched it off, having read so in its file: the realm, the server's client or
\* its service account.  No import, of whatever file, takes its secret away, and
\* none by something that the file does not say.
ServersKeepAccess ==
    [][\A j \in Jobs :
          At(j, "running") /\ Granted(job[j].creds) /\ ~Granted(job[j].creds)' =>
             \E k \in Jobs :
                /\ job'[k] # job[k]
                /\ \/ At(k, "update") /\ job[k].enabled = "off"
                   \/ /\ At(k, "put") /\ Current(k).id = job[j].creds.id
                      /\ "off" \in {Current(k).enabled, Current(k).service}]_vars

\* When an import reports success, every client of the file it read is in Keycloak,
\* as this import or one that ran at the same time or later wrote it.
ImportConverges ==
    \A j \in Jobs :
        job[j].kind = "import" /\ At(j, "done") =>
            \A k \in DOMAIN job[j].plan :
                LET i == job[j].plan[k].id
                IN  i \in Existing /\ clients[i].by \notin job[j].before \cup {Preset}

\* Who is told that they registered is told about the account they registered,
\* never about one that another request made with the same e-mail or name.
RegisterAnswersOwn ==
    \A j \in Jobs :
        job[j].kind = "register" /\ At(j, "done") =>
            /\ job[j].found = j
            /\ \E a \in accounts : a.by = j /\ a.email = job[j].input.email

\* The comments of auth.module.ts hold whatever the order in which NestJS builds:
\* the default sender is given an e-mail configuration ("`email` presence is
\* enforced by validation", line 194), the provider's factory has a configuration
\* to use ("Unreachable", line 228), and tokens of the two kinds in a server that
\* runs are signed with different keys, of full length.
BuiltOnValidOptions ==
    \A j \in Jobs :
        LET o == job[j].options
            built == job[j].built
        IN  /\ "sender" \in built => o.sender # None \/ o.email
            /\ "provider" \in built => o.inline \/ o.path
            /\ At(j, "running") =>
                  /\ o.access # o.refresh /\ {o.access, o.refresh} \cap {None, Short} = {}
                  /\ o.store # None /\ Templates \subseteq Renders(o)

\* A value whose save was acknowledged, with no other save or deletion since that
\* save began, is the value in the store.
SavedDataStays ==
    \A j \in Jobs :
        /\ job[j].kind = "save" /\ At(j, "done")
        /\ \A k \in Jobs \ {j} : job[k].kind \in {"save", "delete"} => k \in job[j].before
        => row # None /\ row.value = j
=============================================================================
