---------------------------- MODULE ImportProofs ----------------------------
(***************************************************************************)
(* What TLAPS proves of the data of a deployment: every variable has its   *)
(* type, though jobs index what they have read of a realm that others      *)
(* change; an import that reports success has written every client of the  *)
(* file it read; and what an import takes away from a running server, its  *)
(* file says.                                                              *)
(***************************************************************************)
EXTENDS DeploymentProofs, FilteringProofs

USE DEF At

-----------------------------------------------------------------------------
(* The invariant.                                                          *)

\* A realm has Keycloak's own client, and none has clients without a realm.
Realms ==
    /\ realm \in Said
    /\ clients = [i \in Existing |-> clients[i]] /\ Existing \subseteq ClientIds
    /\ \A i \in Existing : clients[i] \in Client
    /\ realm = None => Existing = {}
    /\ realm # None => Account \in Existing

\* The fields of a job have the values the modules name ...
Fits(t) ==
    /\ DOMAIN t = Fields
    /\ t.step \in Steps /\ t.phase \in {"token", "fetching", "calling"}
    /\ t.server \in Jobs \cup {None}
    /\ t.creds \in Credentials \cup {None}
    /\ t.bearer \in Bearer \cup {None}
    /\ t.phase # "token" <=> t.bearer # None
    /\ t.enabled \in Said
    /\ t.plan \in Content /\ t.at \in 1..(Len(t.plan) + 1)
    /\ t.options \in Options \cup {None} /\ t.built \subseteq Parts
    /\ t.step \in {"realm", "clients"} => t.at = 1
    /\ t.step \in {"find", "put", "post", "secret"} => t.at <= Len(t.plan)

\* ... and a client it is about to ask for by its id is there.
Reads(t) ==
    /\ t.step = "put" => t.plan[t.at].id \in Existing
    /\ t.step = "secret" => \A k \in 1..Len(t.plan) : t.plan[k].id \in Existing

Typed ==
    /\ Realms
    /\ cache \in [Jobs -> Cached \cup {None}]
    /\ file \in File \cup {None}
    /\ \A j \in Jobs : Fits(job[j]) /\ Reads(job[j])

-----------------------------------------------------------------------------
(* Sequences of clients.                                                   *)

LEMMA NoClients == <<>> \in Content /\ Len(<<>>) = 0
BY DEF Content

LEMMA ClientsOf ==
    ASSUME NEW s \in Content
    PROVE  /\ Len(s) \in Nat /\ \A k \in 1..Len(s) : s[k] \in Entry
           /\ ToSet(s) \subseteq Entry
           /\ s # <<>> => Head(s) \in Entry
<1>1. Len(s) \in Nat /\ \A k \in 1..Len(s) : s[k] \in Entry
  BY DEF Content
<1>2. ToSet(s) \subseteq Entry
  BY <1>1 DEF ToSet, Content
<1> QED BY <1>1, <1>2 DEF Content

LEMMA ReadFits ==
    ASSUME NEW s \in Content, NEW n \in 1..Len(s), NEW got \in Secrets
    PROVE  LET read == [s EXCEPT ![n].secret = got]
           IN  /\ read \in Content /\ Len(read) = Len(s)
               /\ \A k \in 1..Len(s) : read[k].id = s[k].id
<1> DEFINE read == [s EXCEPT ![n].secret = got]
<1>1. Len(s) \in Nat /\ DOMAIN s = 1..Len(s) /\ \A k \in 1..Len(s) : s[k] \in Entry
  BY DEF Content
<1>2. read = [k \in 1..Len(s) |-> IF k = n THEN [s[k] EXCEPT !.secret = got] ELSE s[k]]
  BY <1>1
<1>3. ASSUME NEW k \in 1..Len(s)
      PROVE  read[k] \in Entry /\ read[k].id = s[k].id
  <2>1. read[k] = IF k = n THEN [s[k] EXCEPT !.secret = got] ELSE s[k]
    BY <1>2
  <2>2. s[k] \in Entry
    BY <1>1
  <2> HIDE DEF read
  <2> QED BY <2>1, <2>2 DEF Entry
<1>4. read = [k \in 1..Len(s) |-> read[k]]
  BY <1>2
<1> HIDE DEF read
<1>5. read \in Content /\ Len(read) = Len(s)
  BY <1>1, <1>3, <1>4 DEF Content
<1> QED BY <1>3, <1>5 DEF read

\* Keycloak's own client is in every list of a realm's clients.
LEMMA Listed ==
    ASSUME Account \in Existing
    PROVE  LET t == Only(Listing, Existing)
           IN  t \in Seq(ClientIds \cap Existing) /\ Len(t) \in Nat \ {0}
<1>1. PICK n \in 1..Len(Listing) : Listing[n] = Account
  BY ListingAssumption DEF ToSet
<1> DEFINE t == Only(Listing, Existing)
<1>2. t \in Seq(ClientIds \cap Existing) /\ Len(t) \in Nat
  BY ListingAssumption, OnlyType
<1>3. Picks(t, Listing, Existing, Len(Listing))
  BY ListingAssumption, OnlyFilters
<1> HIDE DEF t
<1>4. \E i \in 1..Len(t) : TRUE
  BY <1>1, <1>3 DEF Picks
<1> QED BY <1>2, <1>4 DEF t

\* What a file says of a switch, and what a client is made or changed to by it.
LEMMA HeedFits ==
    ASSUME NEW said \in Said, NEW old \in Switch
    PROVE  Heed(said, old) \in Switch
BY DEF Heed, Said

LEMMA CreatedFits ==
    ASSUME NEW e \in Entry, NEW secret \in Secrets, NEW j \in Jobs \cup {Preset}
    PROVE  Created(e, secret, j) \in Client
<1>1. "on" \in Switch /\ "off" \in Switch /\ e.enabled \in Said /\ e.service \in Said
  BY DEF Switch, Entry
<1>2. Heed(e.enabled, "on") \in Switch /\ Heed(e.service, "off") \in Switch
  BY <1>1, HeedFits
<1> QED BY <1>2 DEF Created, Client

\* A realm made from a file has the clients of the file, and Keycloak's.
LEMMA RealmFits ==
    ASSUME NEW s \in Content, NEW j \in Jobs \cup {Preset}
    PROVE  LET c == RealmOf(s, j)
           IN  /\ c = [i \in DOMAIN c |-> c[i]] /\ DOMAIN c \subseteq ClientIds
               /\ Account \in DOMAIN c /\ \A i \in DOMAIN c : c[i] \in Client
<1> DEFINE c == RealmOf(s, j)
           ids == {Account} \cup {e.id : e \in ToSet(s)}
<1>1. Account \in ClientIds
  BY ListingAssumption DEF ToSet
<1>2. ids \subseteq ClientIds
  BY <1>1, ClientsOf DEF Entry
<1>3. DOMAIN c = ids /\ c = [i \in DOMAIN c |-> c[i]]
  BY DEF RealmOf
<1>4. ASSUME NEW i \in ids
      PROVE  c[i] \in Client
  <2>1. CASE i = Account
    <3>1. c[i] = [secret |-> None, by |-> j, enabled |-> "on", service |-> "off"]
      BY <2>1 DEF RealmOf
    <3> HIDE DEF c
    <3> QED BY <3>1 DEF Client, Secrets, Switch
  <2>2. CASE i # Account
    <3> DEFINE e == CHOOSE e \in ToSet(s) : e.id = i
    <3>1. c[i] = Created(e, e.secret, j)
      BY <2>2 DEF RealmOf
    <3>2. e \in ToSet(s)
      BY <2>2
    <3> HIDE DEF c, e
    <3>3. e \in Entry /\ e.secret \in Secrets
      BY <3>2, ClientsOf DEF Entry
    <3> QED BY <3>1, <3>3, CreatedFits
  <2> QED BY <2>1, <2>2
<1> HIDE DEF c, ids
<1> QED BY <1>2, <1>3, <1>4 DEF c, ids

-----------------------------------------------------------------------------
(* The fields of a job as it takes a step.                                 *)

LEMMA EndedFits ==
    ASSUME NEW what, NEW how \in Over
    PROVE  Fits(Ended(what, how)) /\ Reads(Ended(what, how))
BY NoClients DEF Fits, Reads, Ended, NoJob, Fields, Over, Steps, Said

LEMMA FirstFits ==
    ASSUME NEW j, NEW what, NEW label \in Steps \ {"find", "put", "post", "secret"}
    PROVE  Fits(First(j, what, label)) /\ Reads(First(j, what, label))
BY NoClients DEF Fits, Reads, First, NoJob, Fields, Said

LEMMA ToFits ==
    ASSUME NEW j \in Jobs, Fits(job[j]), NEW label \in Steps,
           label \in {"realm", "clients"} => job[j].at = 1,
           label \in {"find", "put", "post", "secret"} => job[j].at <= Len(job[j].plan)
    PROVE  /\ Fits(To(j, label))
           /\ label # "failed" => /\ To(j, label).plan = job[j].plan
                                  /\ To(j, label).at = job[j].at
           /\ label \notin {"put", "secret"} => Reads(To(j, label))
<1>1. CASE label = "failed"
  BY <1>1, EndedFits DEF To, Over
<1>2. CASE label # "failed"
  <2> DEFINE t == To(j, label)
  <2>1. /\ DOMAIN t = Fields /\ t.step = label /\ t.phase = "token" /\ t.bearer = None
        /\ t.server = job[j].server /\ t.creds \in {job[j].creds, None}
        /\ t.enabled = job[j].enabled /\ t.plan = job[j].plan /\ t.at = job[j].at
        /\ t.options = job[j].options /\ t.built = job[j].built
    BY <1>2 DEF To, Fits, Fields
  <2> HIDE DEF t
  <2>2. Fits(t)
    BY <2>1 DEF Fits
  <2> QED BY <2>1, <2>2 DEF Reads, t
<1> QED BY <1>1, <1>2

LEMMA ClientAtFits ==
    ASSUME NEW j \in Jobs, Fits(job[j]), NEW n \in 1..(Len(job[j].plan) + 1)
    PROVE  LET t == ClientAt(j, n)
           IN  /\ Fits(t) /\ Reads(t) /\ t.at = n /\ t.plan = job[j].plan
               /\ t.step = "done" => n = Len(t.plan) + 1
<1> DEFINE label == IF n > Len(job[j].plan) THEN "done" ELSE "find"
           t == ClientAt(j, n)
<1>1. /\ DOMAIN t = Fields /\ t.step = label /\ t.phase = "token" /\ t.bearer = None
      /\ t.server = job[j].server /\ t.creds \in {job[j].creds, None}
      /\ t.enabled = job[j].enabled /\ t.plan = job[j].plan /\ t.at = n
      /\ t.options = job[j].options /\ t.built = job[j].built
  BY DEF ClientAt, To, Fits, Fields
<1>2. Len(job[j].plan) \in Nat
  BY ClientsOf DEF Fits
<1>3. label \in Steps /\ label \in {"find", "done"}
  BY DEF Steps, Calls, Over
<1>4. /\ label = "find" => n <= Len(job[j].plan)
      /\ label = "done" => n = Len(job[j].plan) + 1
  BY <1>2
<1> HIDE DEF t, label
<1>5. Fits(t)
  BY <1>1, <1>3, <1>4 DEF Fits
<1> QED BY <1>1, <1>3, <1>4, <1>5 DEF Reads, t

\* What a job goes on as.
Good(j) == Fits(job'[j]) /\ Reads(job'[j])

LEMMA Moved ==
    ASSUME Shaped, NEW j \in Jobs, NEW next, Move(j, next)
    PROVE  /\ job'[j] = next /\ \A k \in Jobs \ {j} : job'[k] = job[k]
           /\ \A k \in Jobs : cache'[k] \in {cache[k], None}
BY DEF Move, Shaped

LEMMA KnownFits ==
    ASSUME Typed, NEW c \in Known
    PROVE  c \in Credentials
<1>1. CASE \E i \in Existing : c = [id |-> i, secret |-> clients[i].secret]
  BY <1>1 DEF Typed, Realms, Credentials, Client
<1>2. CASE file # None /\ \E e \in ToSet(file.clients) : c = CredentialsOf(e)
  <2>1. file.clients \in Content
    BY <1>2 DEF Typed, File
  <2>2. PICK e \in ToSet(file.clients) : c = CredentialsOf(e)
    BY <1>2
  <2> QED BY <2>1, <2>2, ClientsOf DEF CredentialsOf, Credentials, Entry
<1> QED BY <1>1, <1>2 DEF Known

\* Imports.
LEMMA ImportFits ==
    ASSUME Shaped, Labels, Typed, NEW j \in Jobs,
           ImportStart(j) \/ Exists(j) \/ Update(j) \/ Create(j) \/ Find(j) \/ Put(j) \/ Post(j)
    PROVE  Good(j)
<1> USE DEF Good
<1>0. Fits(job[j]) /\ Reads(job[j]) /\ Len(job[j].plan) \in Nat
  BY ClientsOf DEF Typed, Fits
<1>1. \A n \in 1..(Len(job[j].plan) + 1) : Fits(ClientAt(j, n)) /\ Reads(ClientAt(j, n))
  BY <1>0, ClientAtFits
<1>2. \A label \in {"update", "create", "failed"} : Fits(To(j, label)) /\ Reads(To(j, label))
  BY <1>0, ToFits DEF Steps, Calls, Over
<1>3. CASE ImportStart(j)
  <2> DEFINE t == First(j, "import", "exists")
             u(c) == [t EXCEPT !.enabled = file.enabled, !.plan = file.clients, !.creds = c]
  <2>1. PICK c \in Known : job'[j] = u(c)
    BY <1>3, Moved DEF ImportStart
  <2>2. /\ file.enabled \in Said /\ file.clients \in Content /\ Len(file.clients) \in Nat
        /\ c \in Credentials
    BY <1>3, KnownFits, ClientsOf DEF ImportStart, Typed, File
  <2>3. Fits(t) /\ t.at = 1 /\ t.step = "exists"
    BY FirstFits DEF Steps, Calls, First, NoJob
  <2> HIDE DEF t
  <2>4. /\ DOMAIN u(c) = Fields /\ u(c).enabled = file.enabled
        /\ u(c).plan = file.clients /\ u(c).creds = c
        /\ \A f \in Fields \ {"enabled", "plan", "creds"} : u(c)[f] = t[f]
    BY <2>3 DEF Fits, Fields
  <2> HIDE DEF u
  <2>5. Fits(u(c))
    BY <2>2, <2>3, <2>4 DEF Fits, Fields
  <2> QED BY <2>1, <2>3, <2>4, <2>5 DEF Reads, Fields
<1>4. CASE Exists(j)
  BY <1>2, <1>4, Moved DEF Exists
<1>5. CASE Update(j)
  BY <1>0, <1>1, <1>2, <1>5, Moved DEF Update, Answer
<1>6. CASE Create(j)
  BY <1>0, <1>1, <1>2, <1>6, Moved DEF Create
<1>7. CASE Find(j)
  <2>1. job[j].at <= Len(job[j].plan)
    BY <1>0, <1>7 DEF Find, Fits
  <2>2. \A label \in {"put", "post"} :
           Fits(To(j, label)) /\ To(j, label).plan = job[j].plan /\ To(j, label).at = job[j].at
    BY <1>0, <2>1, ToFits DEF Steps, Calls
  <2>3. CASE Current(j).id \in Existing
    <3>1. job'[j] = To(j, "put")
      BY <1>7, <2>3, Moved DEF Find
    <3>2. To(j, "put").step = "put"
      BY Tos
    <3> QED BY <2>2, <2>3, <3>1, <3>2 DEF Reads, Current
  <2>4. CASE Current(j).id \notin Existing
    <3>1. job'[j] = To(j, "post")
      BY <1>7, <2>4, Moved DEF Find
    <3> QED BY <2>2, <3>1, <1>0, <2>1, ToFits DEF Steps, Calls
  <2> QED BY <2>3, <2>4
<1>8. CASE Put(j) \/ Post(j)
  <2>1. job[j].at + 1 \in 1..(Len(job[j].plan) + 1)
    BY <1>0, <1>8 DEF Put, Post, Fits
  <2>2. job'[j] \in {ClientAt(j, job[j].at + 1), To(j, "failed")}
    BY <1>8, Moved DEF Put, Post, Answer
  <2> QED BY <1>1, <1>2, <2>1, <2>2
<1> QED BY <1>3, <1>4, <1>5, <1>6, <1>7, <1>8

\* The other commands.
LEMMA ToolFits ==
    ASSUME Shaped, Labels, Typed, NEW j \in Jobs,
           \/ InitFile(j) \/ Seed(j) \/ ExportStart(j) \/ GetRealm(j) \/ GetClients(j)
           \/ GetSecret(j)
    PROVE  Good(j)
<1> USE DEF Good
<1>0. Fits(job[j]) /\ Reads(job[j]) /\ Len(job[j].plan) \in Nat
  BY ClientsOf DEF Typed, Fits
<1>1. CASE InitFile(j) \/ Seed(j)
  <2>1. \E what : job'[j] = Ended(what, "done")
    BY <1>1, Moved DEF InitFile, Seed
  <2> QED BY <2>1, EndedFits DEF Over
<1>2. CASE ExportStart(j)
  <2>1. PICK c \in Known : job'[j] = [First(j, "export", "realm") EXCEPT !.creds = c]
    BY <1>2, Moved DEF ExportStart
  <2> DEFINE t == First(j, "export", "realm")
  <2>2. Fits(t) /\ t.step = "realm"
    BY FirstFits DEF Steps, Calls, First, NoJob
  <2> HIDE DEF t
  <2>3. c \in Credentials
    BY KnownFits
  <2>4. LET u == [t EXCEPT !.creds = c] IN
          /\ DOMAIN u = Fields /\ u.creds = c
          /\ \A f \in Fields \ {"creds"} : u[f] = t[f]
    BY <2>2 DEF Fits, Fields
  <2>5. Fits([t EXCEPT !.creds = c])
    BY <2>2, <2>3, <2>4 DEF Fits, Fields
  <2> QED BY <2>1, <2>2, <2>4, <2>5 DEF Reads, t, Fields
<1>3. CASE GetRealm(j)
  <2> DEFINE t == To(j, "clients")
             u == [t EXCEPT !.enabled = realm]
  <2>1. job'[j] = u
    BY <1>3, Moved DEF GetRealm
  <2>2. Fits(t) /\ Reads(t) /\ t.step = "clients"
    BY <1>0, <1>3, ToFits, Tos DEF Steps, Calls, GetRealm, Fits
  <2> HIDE DEF t
  <2>3. /\ DOMAIN u = Fields /\ u.enabled = realm
        /\ \A f \in Fields \ {"enabled"} : u[f] = t[f]
    BY <2>2 DEF Fits, Fields
  <2> HIDE DEF u
  <2> QED BY <2>1, <2>2, <2>3 DEF Fits, Reads, Fields, Typed, Realms
<1>4. CASE GetClients(j)
  <2> DEFINE listed == Only(Listing, Existing)
             content(shown) == [k \in DOMAIN listed |->
                 LET client == clients[listed[k]]
                 IN  [id |-> listed[k], enabled |-> None, service |-> client.service,
                      secret |-> IF shown THEN client.secret ELSE None]]
  <2>1. PICK shown \in BOOLEAN : job'[j] = [To(j, "secret") EXCEPT !.plan = content(shown)]
    BY <1>4, Moved DEF GetClients
  <2>2. listed \in Seq(ClientIds \cap Existing) /\ Len(listed) \in Nat \ {0}
    BY <1>4, Listed DEF GetClients, Accepted, Typed, Realms
  <2> HIDE DEF listed
  <2> DEFINE p == content(shown)
  <2>3. ASSUME NEW k \in 1..Len(listed)
        PROVE  p[k].id \in Existing /\ p[k] \in Entry
    <3>1. DOMAIN listed = 1..Len(listed) /\ listed[k] \in ClientIds /\ listed[k] \in Existing
      BY <2>2
    <3>2. clients[listed[k]].secret \in Secrets /\ clients[listed[k]].service \in Said
      BY <3>1 DEF Typed, Realms, Client, Said
    <3>3. p[k] = [id |-> listed[k], enabled |-> None, service |-> clients[listed[k]].service,
                  secret |-> IF shown THEN clients[listed[k]].secret ELSE None]
      BY <3>1
    <3> HIDE DEF p
    <3> QED BY <3>1, <3>2, <3>3 DEF Entry, Secrets, Said
  <2>4. p = [k \in 1..Len(listed) |-> p[k]]
    BY <2>2
  <2> HIDE DEF content, p
  <2>5. p \in Content /\ Len(p) = Len(listed)
    BY <2>2, <2>3, <2>4 DEF Content
  <2> DEFINE u == [To(j, "secret") EXCEPT !.plan = p]
  <2>6. job[j].at = 1
    BY <1>0, <1>4 DEF GetClients, Fits
  <2>7. /\ DOMAIN u = Fields /\ u.plan = p /\ u.step = "secret" /\ u.at = 1
        /\ u.server = job[j].server /\ u.creds = job[j].creds
        /\ u.enabled = job[j].enabled /\ u.bearer = None /\ u.phase = "token"
        /\ u.options = job[j].options /\ u.built = job[j].built
    BY <1>0, <2>6 DEF To, Fits, Fields
  <2> HIDE DEF u
  <2>8. Fits(u)
    BY <1>0, <2>2, <2>5, <2>7 DEF Fits, Steps, Calls
  <2>9. Reads(u)
    BY <2>2, <2>3, <2>5, <2>7 DEF Reads
  <2> QED BY <2>1, <2>8, <2>9 DEF u, p
<1>5. CASE GetSecret(j)
  <2>1. PICK got :
          /\ got \in {Current(j).secret}
                  \cup IF Accepted(j) THEN {clients[Current(j).id].secret} ELSE {}
          /\ LET read == [job[j].plan EXCEPT ![job[j].at].secret = got]
                 last == job[j].at = Len(read)
             IN  job'[j] = IF last THEN Ended("export", "done")
                           ELSE [To(j, "secret") EXCEPT !.plan = read, !.at = @ + 1]
    BY <1>5, Moved DEF GetSecret
  <2> DEFINE read == [job[j].plan EXCEPT ![job[j].at].secret = got]
             u == [To(j, "secret") EXCEPT !.plan = read, !.at = @ + 1]
  <2>2. /\ job[j].step = "secret" /\ job[j].at \in 1..Len(job[j].plan)
        /\ \A k \in 1..Len(job[j].plan) : job[j].plan[k].id \in Existing
        /\ job[j].plan \in Content
    <3>1. job[j].step = "secret"
      BY <1>5 DEF GetSecret
    <3>2. job[j].at \in Nat /\ 1 <= job[j].at /\ job[j].at <= Len(job[j].plan)
      BY <1>0, <3>1 DEF Fits
    <3> QED BY <1>0, <3>1, <3>2 DEF Fits, Reads
  <2>3. Current(j) \in Entry /\ Current(j).id \in Existing
    BY <2>2, ClientsOf DEF Current
  <2>4. got \in Secrets
    BY <2>1, <2>3 DEF Entry, Client, Typed, Realms
  <2>5. read \in Content /\ Len(read) = Len(job[j].plan)
        /\ \A k \in 1..Len(read) : read[k].id = job[j].plan[k].id
    BY <2>2, <2>4, ReadFits
  <2> HIDE DEF read
  <2>6. job'[j] = IF job[j].at = Len(read) THEN Ended("export", "done") ELSE u
    BY <2>1 DEF read
  <2>7. /\ DOMAIN u = Fields /\ u.plan = read /\ u.step = "secret" /\ u.at = job[j].at + 1
        /\ u.server = job[j].server /\ u.creds = job[j].creds
        /\ u.enabled = job[j].enabled /\ u.bearer = None /\ u.phase = "token"
        /\ u.options = job[j].options /\ u.built = job[j].built
    BY <1>0 DEF To, Fits, Fields
  <2> HIDE DEF u
  <2>8. ASSUME job[j].at # Len(read)
        PROVE  Fits(u) /\ Reads(u)
    <3>1. u.at \in 1..Len(read) /\ u.at \in 1..(Len(read) + 1) /\ u.at <= Len(read)
      BY <1>0, <2>2, <2>5, <2>7, <2>8
    <3>2. Fits(u)
      BY <1>0, <2>5, <2>7, <3>1 DEF Fits, Steps, Calls
    <3> QED BY <2>2, <2>5, <2>7, <3>2 DEF Reads
  <2>9. Fits(Ended("export", "done")) /\ Reads(Ended("export", "done"))
    BY EndedFits DEF Over
  <2> QED BY <2>6, <2>8, <2>9
<1> QED BY <1>1, <1>2, <1>3, <1>4, <1>5

\* The start of a server.
LEMMA ServerFits ==
    ASSUME Shaped, Labels, Typed, NEW j \in Jobs, ServerStart(j)
    PROVE  Good(j)
<1> USE DEF Good
<1>0. Fits(job[j]) /\ Reads(job[j])
  BY DEF Typed
<1>1. Fits(Ended("boot", "failed")) /\ Reads(Ended("boot", "failed"))
  BY EndedFits DEF Over
<1>2. CASE Boot(j)
  <2> DEFINE t == First(j, "boot", "building")
  <2>1. PICK o \in Options :
          \/ job'[j] = Ended("boot", "failed")
          \/ job'[j] = [t EXCEPT !.options = o]
          \/ job'[j] = [t EXCEPT !.options = o, !.built = {"options"}]
    BY <1>2, Moved DEF Boot
  <2>2. Fits(t) /\ t.step = "building" /\ t.built = {}
    BY FirstFits DEF Steps, First, NoJob
  <2> HIDE DEF t
  <2>3. ASSUME NEW u, u \in {[t EXCEPT !.options = o],
                             [t EXCEPT !.options = o, !.built = {"options"}]}
        PROVE  Fits(u) /\ Reads(u)
    <3>1. /\ DOMAIN u = Fields /\ u.step = "building" /\ u.options = o
          /\ u.built \in {{}, {"options"}}
          /\ \A f \in Fields \ {"options", "built"} : u[f] = t[f]
      BY <2>2, <2>3 DEF Fits, Fields
    <3> QED BY <2>2, <3>1 DEF Fits, Reads, Fields, Parts
  <2> QED BY <1>1, <2>1, <2>3
<1>3. ASSUME NEW p \in Parts, Build(j, p)
      PROVE  Good(j)
  <2> DEFINE t == [job[j] EXCEPT !.built = @ \cup {p}]
  <2>1. \/ job'[j] \in {Ended("boot", "failed"), t, [t EXCEPT !.step = "running"]}
        \/ \E c \in Sources(job[j].options) : job'[j] = [t EXCEPT !.creds = c]
    BY <1>3, Moved DEF Build
  <2>2. job[j].step = "building"
    BY <1>3 DEF Build
  <2>3. Fits(t) /\ t.step = "building" /\ t.phase = "token"
    <3>1. /\ DOMAIN t = Fields /\ t.built = job[j].built \cup {p}
          /\ \A f \in Fields \ {"built"} : t[f] = job[j][f]
      BY <1>0 DEF Fits, Fields
    <3>2. job[j].phase = "token"
      BY <2>2 DEF Shaped, Plain, Calls
    <3> QED BY <1>0, <2>2, <3>1, <3>2 DEF Fits, Fields
  <2> HIDE DEF t
  <2>4. ASSUME NEW c \in Sources(job[j].options)
        PROVE  c \in Credentials \cup {None}
    BY KnownFits, ClientsOf DEF Sources, Typed, File, CredentialsOf, Credentials, Entry
  <2>5. ASSUME NEW u,
               \/ u = [t EXCEPT !.step = "running"]
               \/ \E c \in Credentials \cup {None} : u = [t EXCEPT !.creds = c]
        PROVE  Fits(u) /\ Reads(u)
    <3>1. /\ DOMAIN u = Fields /\ u.step \in {"building", "running"}
          /\ u.creds \in Credentials \cup {None}
          /\ \A f \in Fields \ {"step", "creds"} : u[f] = t[f]
      BY <2>3, <2>5 DEF Fits, Fields
    <3> QED BY <2>3, <3>1 DEF Fits, Reads, Fields, Steps
  <2> QED BY <1>1, <2>1, <2>3, <2>4, <2>5 DEF Reads
<1> QED BY <1>2, <1>3 DEF ServerStart

\* Requests to a server, and calls that fail.
LEMMA RequestFits ==
    ASSUME Shaped, Labels, Typed, NEW j \in Jobs, Request(j) \/ Fail(j)
    PROVE  Good(j)
<1> USE DEF Good
<1>0. Fits(job[j]) /\ Reads(job[j])
  BY DEF Typed
<1>1. ASSUME NEW s \in Jobs, NEW what, NEW label, NEW input,
             label \in {"register", "look", "write", "delete", "failed"},
             Arrives(j, s, what, label, input)
      PROVE  Good(j)
  <2> DEFINE t == First(j, what, label)
             u == [t EXCEPT !.server = s, !.input = input]
  <2>1. job'[j] = IF label = "failed" THEN Ended(what, "failed") ELSE u
    BY <1>1, Moved DEF Arrives
  <2>2. Fits(t) /\ t.step = label
    BY <1>1, FirstFits DEF Steps, Calls, Over, First, NoJob
  <2> HIDE DEF t
  <2>3. /\ DOMAIN u = Fields /\ u.server = s
        /\ \A f \in Fields \ {"server", "input"} : u[f] = t[f]
    BY <2>2 DEF Fits, Fields
  <2> HIDE DEF u
  <2>4. Fits(u) /\ Reads(u)
    BY <1>1, <2>2, <2>3 DEF Fits, Reads, Fields
  <2> QED BY <2>1, <2>4, EndedFits DEF Over
<1>2. CASE RegisterStart(j) \/ SaveStart(j) \/ DeleteStart(j)
  BY <1>1, <1>2 DEF RegisterStart, SaveStart, DeleteStart
<1>3. \A label \in {"failed", "lookup", "verify", "insert", "replace", "done"} :
        Fits(To(j, label)) /\ Reads(To(j, label))
  BY <1>0, ToFits DEF Steps, Calls, Over
<1>4. ASSUME NEW label \in {"verify", "done", "replace"}, NEW who
      PROVE  LET u == [To(j, label) EXCEPT !.found = who] IN Fits(u) /\ Reads(u)
  <2> DEFINE t == To(j, label)
             u == [t EXCEPT !.found = who]
  <2>1. Fits(t) /\ Reads(t)
    BY <1>3
  <2> HIDE DEF t
  <2>2. DOMAIN u = Fields /\ \A f \in Fields \ {"found"} : u[f] = t[f]
    BY <2>1 DEF Fits, Fields
  <2> HIDE DEF u
  <2>3. Fits(u) /\ Reads(u)
    BY <2>1, <2>2 DEF Fits, Reads, Fields
  <2> QED BY <2>3 DEF u, t
<1>5. CASE Register(j) \/ Verify(j) \/ Write(j) \/ Replace(j) \/ Insert(j) \/ Delete(j) \/ Fail(j)
  <2>1. \E label \in {"failed", "lookup", "done"} : job'[j] = To(j, label)
    BY <1>5, Moved DEF Register, Answer, Verify, Write, Replace, Insert, Delete, Fail
  <2> QED BY <1>3, <2>1
<1>6. CASE Lookup(j) \/ Look(j)
  <2>1. \/ job'[j] = To(j, "insert")
        \/ \E label \in {"verify", "done", "replace"} :
             \E who : job'[j] = [To(j, label) EXCEPT !.found = who]
    <3>1. CASE Lookup(j)
      <4>1. PICK a \in accounts :
               job'[j] = [To(j, IF Serving(j).verification THEN "verify" ELSE "done")
                            EXCEPT !.found = a.by]
        BY <3>1, Moved DEF Lookup
      <4> QED BY <4>1
    <3>2. CASE Look(j)
      <4>1. job'[j] = IF row = None THEN To(j, "insert")
                      ELSE [To(j, "replace") EXCEPT !.found = row.id]
        BY <3>2, Moved DEF Look
      <4> QED BY <4>1
    <3> QED BY <1>6, <3>1, <3>2
  <2> QED BY <1>3, <1>4, <2>1
<1> QED BY <1>2, <1>5, <1>6 DEF Request

\* Admin tokens.
LEMMA TokenFits ==
    ASSUME Shaped, Labels, Typed, Bearers, NEW j \in Jobs, Tokens(j)
    PROVE  /\ Good(j) /\ \A k \in Jobs \ {j} : job'[k] = job[k]
           /\ cache' \in [Jobs -> Cached \cup {None}]
<1> USE DEF Good
<1>0. Fits(job[j]) /\ Reads(job[j])
  BY DEF Typed
<1>1. Holder(j) \in Jobs
  BY DEF Holder, Shaped
<1>2. PICK phase \in {"fetching", "calling"}, bearer \in Bearer :
        /\ job' = [job EXCEPT ![j] = [@ EXCEPT !.phase = phase, !.bearer = bearer]]
        /\ cache' = cache \/ \E c \in Cached : cache' = [cache EXCEPT ![Holder(j)] = c]
  <2> USE LifeAssumption
  <2>1. CASE TakeCached(j)
    <3>1. cache[Holder(j)] \in Cached
      BY <1>1, <2>1 DEF TakeCached, Fresh, Typed
    <3> DEFINE b == [granted |-> cache[Holder(j)].granted, lag |-> cache[Holder(j)].lag,
                     picked |-> now]
    <3>2. b \in Bearer
      BY <3>1 DEF Bearers, Bearer, Cached
    <3>3. /\ job' = [job EXCEPT ![j] = [@ EXCEPT !.phase = "calling", !.bearer = b]]
          /\ cache' = cache
      BY <2>1 DEF TakeCached
    <3> HIDE DEF b
    <3> QED BY <3>2, <3>3
  <2>2. CASE Fetch(j)
    <3> DEFINE b == [granted |-> now, lag |-> 0, picked |-> now]
    <3>1. b \in Bearer
      BY DEF Bearers, Bearer
    <3>2. /\ job' = [job EXCEPT ![j] = [@ EXCEPT !.phase = "fetching", !.bearer = b]]
          /\ cache' = cache
      BY <2>2 DEF Fetch
    <3> HIDE DEF b
    <3> QED BY <3>1, <3>2
  <2>3. CASE Arrive(j)
    <3> DEFINE g == job[j].bearer.granted
    <3>1. g \in Nat /\ now \in Nat /\ now - g \in Nat /\ now + (Life - Margin) \in Int
      BY <2>3 DEF Arrive, Keep, Bearers
    <3>2. /\ [granted |-> g, lag |-> now - g, picked |-> now] \in Bearer
          /\ [granted |-> g, lag |-> now - g, until |-> now + (Life - Margin)] \in Cached
      BY <3>1 DEF Bearer, Cached
    <3>3. /\ job' = [job EXCEPT ![j] = [@ EXCEPT !.phase = "calling",
                       !.bearer = [granted |-> g, lag |-> now - g, picked |-> now]]]
          /\ cache' = [cache EXCEPT ![Holder(j)] =
                       [granted |-> g, lag |-> now - g, until |-> now + (Life - Margin)]]
      BY <2>3 DEF Arrive, Keep
    <3> HIDE DEF g
    <3> QED BY <3>2, <3>3
  <2> QED BY <2>1, <2>2, <2>3 DEF Tokens
<1>3. /\ \A k \in Jobs \ {j} : job'[k] = job[k]
      /\ cache' \in [Jobs -> Cached \cup {None}]
  BY <1>1, <1>2 DEF Shaped, Typed
<1>4. LET u == job'[j] IN
        /\ DOMAIN u = Fields /\ u.phase = phase /\ u.bearer = bearer
        /\ \A f \in Fields \ {"phase", "bearer"} : u[f] = job[j][f]
  BY <1>2 DEF Shaped, Fields
<1>5. Good(j)
  BY <1>0, <1>2, <1>4, BearerAssumption DEF Fits, Reads, Fields
<1> QED BY <1>3, <1>5

-----------------------------------------------------------------------------
(* The realm and the file.                                                 *)

LEMMA TypedInit == ASSUME Init PROVE Typed
<1>1. \A j \in Jobs : Fits(job[j]) /\ Reads(job[j])
  BY NoClients DEF Init, Fits, Reads, NoJob, Fields, Steps, Said
<1>2. cache \in [Jobs -> Cached \cup {None}]
  BY DEF Init
<1>3. CASE file = None /\ realm = None /\ clients = <<>>
  <2>1. Existing = {} /\ clients = [i \in Existing |-> clients[i]]
    BY <1>3 DEF Existing
  <2> QED BY <1>1, <1>2, <1>3, <2>1, ListingAssumption DEF Typed, Realms, Said
<1>4. ASSUME file \in Handwritten, NEW first \in Handwritten,
             realm = Heed(first.enabled, "on"), clients = RealmOf(first.clients, Preset)
      PROVE  Typed
  <2>1. file \in File /\ first.enabled \in Said /\ first.clients \in Content
    BY <1>4, HandwrittenAssumption DEF File
  <2>2. realm \in Switch
    BY <1>4, <2>1, HeedFits DEF Switch
  <2>3. Realms
    BY <1>4, <2>1, <2>2, RealmFits, SwitchAssumption DEF Realms, Existing, Said
  <2> QED BY <1>1, <1>2, <2>1, <2>3 DEF Typed
<1> QED BY <1>3, <1>4 DEF Init

\* Who writes the realm and its clients.
LEMMA ClientWriters ==
    ASSUME [Next]_vars
    PROVE  \/ UNCHANGED <<realm, clients>>
           \/ \E j \in Jobs : Seed(j) \/ Update(j) \/ Create(j) \/ Put(j) \/ Post(j)
<1>1. CASE Tick \/ UNCHANGED vars
  BY <1>1 DEF Tick, keycloak, vars
<1>2. ASSUME NEW j \in Jobs, AdminStep(j) \/ ServerStart(j) \/ Request(j)
      PROVE  UNCHANGED <<realm, clients>>
  BY <1>2 DEF AdminStep, TakeCached, Fetch, Arrive, Keep, Fail, ServerStart, Boot, Build,
     Request, RegisterStart, Register, Lookup, Verify, SaveStart, DeleteStart, Write, Look,
     Replace, Insert, Delete, keycloak
<1>3. ASSUME NEW j \in Jobs,
             \/ InitFile(j) \/ ImportStart(j) \/ Exists(j) \/ Find(j) \/ ExportStart(j)
             \/ GetRealm(j) \/ GetClients(j) \/ GetSecret(j)
      PROVE  UNCHANGED <<realm, clients>>
  BY <1>3 DEF InitFile, ImportStart, Exists, Find, ExportStart, GetRealm, GetClients, GetSecret,
     keycloak
<1> QED BY <1>1, <1>2, <1>3 DEF Next, Command

LEMMA RealmsStep ==
    ASSUME Shaped, Labels, Typed, [Next]_vars
    PROVE  Realms' /\ Existing \subseteq Existing'
<1>1. CASE UNCHANGED <<realm, clients>>
  BY <1>1 DEF Typed, Realms, Existing
<1>2. ASSUME NEW j \in Jobs, Seed(j)
      PROVE  Realms' /\ Existing \subseteq Existing'
  <2>1. /\ file.clients \in Content /\ file.enabled \in Said /\ realm = None
        /\ realm' = Heed(file.enabled, "on") /\ clients' = RealmOf(file.clients, j)
    BY <1>2 DEF Seed, Typed, File
  <2>2. Existing = {} /\ realm' \in Switch
    BY <2>1, HeedFits DEF Typed, Realms, Switch
  <2> QED BY <2>1, <2>2, RealmFits, SwitchAssumption DEF Realms, Existing, Said
<1>3. ASSUME NEW j \in Jobs, Update(j) \/ Create(j)
      PROVE  Realms' /\ Existing \subseteq Existing'
  <2>1. realm \in Switch /\ job[j].enabled \in Said
    BY <1>3 DEF Update, Create, Accepted, Typed, Realms, Fits, Said
  <2>2. realm' \in Switch /\ UNCHANGED clients
    BY <1>3, <2>1, HeedFits DEF Update, Create, Accepted
  <2> QED BY <2>1, <2>2, SwitchAssumption DEF Typed, Realms, Existing, Said
<1>4. ASSUME NEW j \in Jobs, Put(j) \/ Post(j)
      PROVE  Realms' /\ Existing \subseteq Existing'
  <2> DEFINE c == Current(j).id
  <2>1. Current(j) \in Entry /\ c \in ClientIds /\ (job[j].step = "put" => c \in Existing)
    <3>1. job[j].step \in {"put", "post"}
      BY <1>4 DEF Put, Post
    <3>2. job[j].at \in 1..Len(job[j].plan)
      BY <3>1, ClientsOf DEF Typed, Fits
    <3>3. Current(j) \in Entry
      BY <3>2, ClientsOf DEF Typed, Fits, Current
    <3> QED BY <3>3 DEF Typed, Reads, Current, Entry
  <2>2. UNCHANGED realm
    BY <1>4 DEF Put, Post
  <2>3. CASE Put(j)
    <3>1. Payload(j) \in Client /\ c \in Existing
      <4>1. c \in Existing /\ clients[c] \in Client
        BY <2>1, <2>3 DEF Put, Typed, Realms
      <4> DEFINE e == Current(j)
      <4>2. /\ Payload(j) = [secret |-> clients[c].secret, by |-> j,
                              enabled |-> Heed(e.enabled, clients[c].enabled),
                              service |-> Heed(e.service, clients[c].service)]
            /\ e \in Entry
        BY <2>1 DEF Payload
      <4> HIDE DEF c, e
      <4>3. /\ Heed(e.enabled, clients[c].enabled) \in Switch
            /\ Heed(e.service, clients[c].service) \in Switch
        BY <4>1, <4>2, HeedFits DEF Client, Entry
      <4> QED BY <4>1, <4>2, <4>3 DEF Client
    <3>2. clients' = [clients EXCEPT ![c] = Payload(j)]
      BY <2>3 DEF Put
    <3> HIDE DEF c
    <3>3. clients' = [i \in Existing |-> IF i = c THEN Payload(j) ELSE clients[i]]
      BY <3>1, <3>2 DEF Typed, Realms
    <3> QED BY <2>2, <3>1, <3>3 DEF Typed, Realms, Existing
  <2>4. CASE Post(j)
    <3>1. CASE c \in Existing
      BY <2>2, <2>4, <3>1 DEF Post, Typed, Realms, Existing
    <3>2. CASE c \notin Existing
      <4>1. clients' = [i \in Existing \cup {c} |->
                          IF i \in Existing THEN clients[i] ELSE Created(Current(j), j, j)]
        BY <2>4, <3>2 DEF Post
      <4>2. realm # None
        BY <2>4 DEF Post, Accepted
      <4>3. Created(Current(j), j, j) \in Client
        BY <2>1, CreatedFits DEF Secrets
      <4> HIDE DEF c
      <4> QED BY <2>1, <2>2, <4>1, <4>2, <4>3 DEF Typed, Realms, Existing
    <3> QED BY <3>1, <3>2
  <2> QED BY <1>4, <2>3, <2>4
<1>5. \/ UNCHANGED <<realm, clients>>
      \/ \E j \in Jobs : Seed(j) \/ Update(j) \/ Create(j) \/ Put(j) \/ Post(j)
  BY ClientWriters
<1> QED BY <1>1, <1>2, <1>3, <1>4, <1>5

LEMMA FileStep ==
    ASSUME Typed, [Next]_vars
    PROVE  file' \in File \cup {None}
<1>1. \/ UNCHANGED file
      \/ \E j \in Jobs : InitFile(j) \/ GetSecret(j)
  BY DEF Next, vars, Tick, AdminStep, Command, Seed, ImportStart, Exists, Update, Create, Find,
     Put, Post, ExportStart, GetRealm, GetClients, ServerStart, Boot, Build, Request,
     RegisterStart, Register, Lookup, Verify, SaveStart, DeleteStart, Write, Look, Replace,
     Insert, Delete
<1>2. ASSUME NEW j \in Jobs, InitFile(j)
      PROVE  file' \in File
  <2> DEFINE e(i) == [id |-> i, secret |-> j, enabled |-> None, service |-> "on"]
  <2>1. PICK i \in ClientIds : file' = [enabled |-> "on", clients |-> <<e(i)>>]
    BY <1>2 DEF InitFile
  <2>2. e(i) \in Entry
    BY DEF Entry, Secrets, Said, Switch
  <2> HIDE DEF e
  <2> QED BY <2>1, <2>2 DEF File, Content, Said, Switch
<1>3. ASSUME NEW j \in Jobs, GetSecret(j)
      PROVE  file' \in File \cup {None}
  <2> DEFINE read(got) == [job[j].plan EXCEPT ![job[j].at].secret = got]
  <2>1. PICK got :
          /\ got \in {Current(j).secret}
                  \cup IF Accepted(j) THEN {clients[Current(j).id].secret} ELSE {}
          /\ file' \in {[enabled |-> job[j].enabled, clients |-> read(got)], file}
    BY <1>3 DEF GetSecret
  <2>2. job[j].step = "secret"
    BY <1>3 DEF GetSecret
  <2>3. /\ job[j].plan \in Content /\ job[j].at \in 1..Len(job[j].plan)
        /\ job[j].enabled \in Said
    BY <2>2, ClientsOf DEF Typed, Fits
  <2>4. Current(j) \in Entry /\ Current(j).id \in Existing
    BY <2>2, <2>3, ClientsOf DEF Typed, Reads, Current
  <2>5. got \in Secrets
    BY <2>1, <2>4 DEF Entry, Client, Typed, Realms
  <2>6. read(got) \in Content
    BY <2>3, <2>5, ReadFits
  <2> HIDE DEF read
  <2> QED BY <2>1, <2>3, <2>6 DEF Typed, File
<1> QED BY <1>1, <1>2, <1>3 DEF Typed

LEMMA CacheStep ==
    ASSUME Shaped, Labels, Typed, Bearers, [Next]_vars
    PROVE  cache' \in [Jobs -> Cached \cup {None}]
<1>1. CASE Tick \/ UNCHANGED vars
  BY <1>1 DEF Tick, vars, Typed
<1>2. ASSUME NEW j \in Jobs, Tokens(j)
      PROVE  cache' \in [Jobs -> Cached \cup {None}]
  BY <1>2, TokenFits
<1>3. ASSUME NEW j \in Jobs, NEW next, Moves(j, next)
      PROVE  cache' \in [Jobs -> Cached \cup {None}]
  BY <1>3 DEF Moves, Move, Typed
<1> QED BY <1>1, <1>2, <1>3, Kinds

\* Which job takes a step, and as what it goes on.
LEMMA JobStep ==
    ASSUME Shaped, Labels, Typed, Bearers, [Next]_vars
    PROVE  \/ UNCHANGED job
           \/ \E j \in Jobs : Good(j) /\ \A k \in Jobs \ {j} : job'[k] = job[k]
<1>1. CASE Tick \/ UNCHANGED vars
  BY <1>1 DEF Tick, vars
<1>2. ASSUME NEW j \in Jobs, AdminStep(j) \/ Command(j) \/ ServerStart(j) \/ Request(j)
      PROVE  Good(j) /\ \A k \in Jobs \ {j} : job'[k] = job[k]
  <2>1. CASE Tokens(j)
    BY <2>1, TokenFits
  <2>2. CASE ~Tokens(j)
    <3>1. Good(j)
      BY <1>2, <2>2, ImportFits, ToolFits, ServerFits, RequestFits
         DEF AdminStep, Command, Tokens
    <3>2. \E next : Moves(j, next)
      BY <1>2, <2>2, ImportMoves, ToolMoves, ServerMoves, RequestMoves
         DEF AdminStep, Command, Tokens
    <3> QED BY <3>1, <3>2, Moved DEF Moves
  <2> QED BY <2>1, <2>2
<1> QED BY <1>1, <1>2 DEF Next

LEMMA TypedStep ==
    ASSUME Shaped, Labels, Typed, Bearers, [Next]_vars
    PROVE  Typed'
<1>1. ASSUME NEW j \in Jobs
      PROVE  (Fits(job[j]) /\ Reads(job[j]))'
  <2>1. Fits(job'[j]) /\ Reads(job'[j])
    BY JobStep DEF Typed, Good
  <2>2. Existing \subseteq Existing'
    BY RealmsStep
  <2> QED BY <2>1, <2>2 DEF Fits, Reads
<1> QED BY <1>1, RealmsStep, FileStep, CacheStep DEF Typed

\* Every variable has the values the modules name.
THEOREM DeploymentTypeCorrect == Spec => []TypeOK
<1> DEFINE I == Shaped /\ Labels /\ Bearers /\ Stays /\ Typed
<1>1. Init => I
  BY FrameInit, BearersInit, StaysInit, TypedInit
<1>2. I /\ [Next]_vars => I'
  BY FrameStep, BearersStep, StaysStep, TypedStep
<1>3. I => TypeOK
  <2> SUFFICES ASSUME I PROVE TypeOK
    OBVIOUS
  <2>1. clients \in [Existing -> Client]
    BY DEF Typed, Realms
  <2>2. FrameType
    BY <2>1 DEF FrameType, Typed, Realms, Fits, Bearers
  <2> QED BY <2>2 DEF TypeOK, Typed, Fits, Stays
<1> QED BY <1>1, <1>2, <1>3, PTL DEF Spec

-----------------------------------------------------------------------------
(* Imports that report success.                                            *)

\* Behind the place where an import is, every client of its file is in Keycloak as
\* this import or a later or simultaneous one wrote it.
Written(t) ==
    \A k \in 1..(t.at - 1) :
        LET i == t.plan[k].id
        IN  i \in Existing /\ clients[i].by \notin t.before \cup {Preset}

Imported ==
    \A j \in Jobs :
        job[j].kind = "import" /\ job[j].step \in {"find", "put", "post", "done"} =>
            /\ Written(job[j])
            /\ job[j].step = "done" => job[j].at = Len(job[j].plan) + 1

LEMMA ImportedInit == ASSUME Init PROVE Imported
BY DEF Init, Imported, NoJob

\* Who writes a client now had not ended when another job began.
LEMMA WritersLate ==
    ASSUME Shaped, Labels, Typed, [Next]_vars, NEW i \in Existing,
           clients'[i].by # clients[i].by
    PROVE  /\ clients'[i].by \in Jobs
           /\ job[clients'[i].by].step \in {"put", "post"}
<1>1. ASSUME NEW j \in Jobs, Seed(j)
      PROVE  FALSE
  BY <1>1 DEF Seed, Typed, Realms
<1>2. ASSUME NEW j \in Jobs, Put(j)
      PROVE  clients'[i].by \in {clients[i].by, j} /\ job[j].step = "put"
  BY <1>2 DEF Put, Payload, Existing
<1>3. ASSUME NEW j \in Jobs, Post(j)
      PROVE  clients'[i].by = clients[i].by
  BY <1>3 DEF Post
<1> QED BY <1>1, <1>2, <1>3, ClientWriters DEF Update, Create

\* What was written stays written, by a job that is not in the past.
LEMMA WrittenStays ==
    ASSUME Shaped, Labels, Typed, [Next]_vars, NEW j \in Jobs, Written(job[j])
    PROVE  \A k \in 1..(job[j].at - 1) :
              LET i == job[j].plan[k].id
              IN  i \in Existing' /\ clients'[i].by \notin job[j].before \cup {Preset}
<1> SUFFICES ASSUME NEW k \in 1..(job[j].at - 1)
             PROVE  LET i == job[j].plan[k].id
                    IN  i \in Existing' /\ clients'[i].by \notin job[j].before \cup {Preset}
  OBVIOUS
<1> DEFINE i == job[j].plan[k].id
<1>1. i \in Existing /\ clients[i].by \notin job[j].before \cup {Preset}
  BY DEF Written
<1> HIDE DEF i
<1>2. i \in Existing'
  BY <1>1, RealmsStep
<1>3. ASSUME clients'[i].by # clients[i].by
      PROVE  clients'[i].by \notin job[j].before \cup {Preset}
  BY <1>1, <1>3, WritersLate, JobsAssumption DEF Labels, Past, Over
<1> QED BY <1>1, <1>2, <1>3 DEF i

\* How an import comes to its next client, or to its end.
LEMMA ImportsGoOn ==
    ASSUME Shaped, Labels, Typed, [Next]_vars, NEW j \in Jobs, NEW next, Moves(j, next),
           next.kind = "import", next.step \in {"find", "put", "post", "done"}
    PROVE  /\ job[j].kind = "import" /\ job'[j] = next
           /\ \/ next = ClientAt(j, 1)
              \/ job[j].step = "find" /\ next \in {To(j, "put"), To(j, "post")}
              \/ /\ job[j].step \in {"put", "post"}
                 /\ next = ClientAt(j, job[j].at + 1)
                 /\ Current(j).id \in Existing' /\ clients'[Current(j).id].by = j
<1>1. job'[j] = next
  BY Moved DEF Moves
<1>2. Update(j) \/ Create(j) \/ Find(j) \/ Put(j) \/ Post(j)
  BY DEF Moves
<1>3. job[j].step \in {"update", "create", "find", "put", "post"} /\ job[j].kind = "import"
  BY <1>2 DEF Update, Create, Find, Put, Post, Labels, Labelled, Over
<1>4. next.step # "failed"
  OBVIOUS
<1>5. To(j, "failed").step = "failed"
  BY Tos
<1>6. CASE Update(j) \/ Create(j)
  BY <1>1, <1>3, <1>4, <1>5, <1>6, Moved DEF Update, Create, Answer
<1>7. CASE Find(j)
  BY <1>1, <1>3, <1>7, Moved DEF Find
<1>8. CASE Put(j)
  <2>1. Current(j).id \in Existing
    BY <1>8 DEF Put, Typed, Reads, Current
  <2>2. next = ClientAt(j, job[j].at + 1)
    BY <1>1, <1>4, <1>5, <1>8, Moved DEF Put, Answer
  <2>3. clients'[Current(j).id] = Payload(j) /\ Payload(j).by = j /\ Current(j).id \in Existing'
    BY <2>1, <1>8 DEF Put, Payload, Existing, Typed, Realms
  <2> QED BY <1>1, <1>3, <1>8, <2>2, <2>3 DEF Put
<1>9. CASE Post(j)
  <2>1. Current(j).id \notin Existing /\ next = ClientAt(j, job[j].at + 1)
    BY <1>1, <1>4, <1>5, <1>9, Moved DEF Post, Answer
  <2>2. clients'[Current(j).id] = Created(Current(j), j, j) /\ Current(j).id \in Existing'
    BY <2>1, <1>9 DEF Post, Existing
  <2>3. clients'[Current(j).id].by = j
    BY <2>2 DEF Created
  <2> QED BY <1>1, <1>3, <1>9, <2>1, <2>2, <2>3 DEF Post
<1> QED BY <1>2, <1>6, <1>7, <1>8, <1>9

LEMMA ImportedStep ==
    ASSUME Shaped, Labels, Typed, Imported, [Next]_vars
    PROVE  Imported'
<1> SUFFICES ASSUME NEW j \in Jobs, job'[j].kind = "import",
                    job'[j].step \in {"find", "put", "post", "done"}
             PROVE  /\ Written(job[j])'
                    /\ job'[j].step = "done" => job'[j].at = Len(job'[j].plan) + 1
  BY DEF Imported
<1>1. ASSUME job'[j].kind = job[j].kind, job'[j].step = job[j].step,
             job'[j].at = job[j].at, job'[j].plan = job[j].plan, job'[j].before = job[j].before
      PROVE  /\ Written(job[j])'
             /\ job'[j].step = "done" => job'[j].at = Len(job'[j].plan) + 1
  <2>1. Written(job[j]) /\ (job[j].step = "done" => job[j].at = Len(job[j].plan) + 1)
    BY <1>1 DEF Imported
  <2> QED BY <1>1, <2>1, WrittenStays DEF Written
<1>2. ASSUME NEW next, Moves(j, next)
      PROVE  /\ Written(job[j])'
             /\ job'[j].step = "done" => job'[j].at = Len(job'[j].plan) + 1
  <2>0. job'[j] = next /\ Fits(job[j]) /\ Len(job[j].plan) \in Nat
    BY <1>2, Moved, ClientsOf DEF Moves, Typed, Fits
  <2>1. CASE next = ClientAt(j, 1)
    <3>1. next.at = 1 /\ (next.step = "done" => 1 = Len(next.plan) + 1)
      BY <2>0, <2>1, ClientAtFits
    <3> QED BY <2>0, <3>1 DEF Written
  <2>2. CASE job[j].step = "find" /\ next \in {To(j, "put"), To(j, "post")}
    <3>1. /\ next.at = job[j].at /\ next.plan = job[j].plan /\ next.before = job[j].before
          /\ next.step # "done"
      BY <2>0, <2>2, ToFits, Tos DEF Fits, Steps, Calls
    <3>2. Written(job[j])
      BY <1>2, <2>0, <2>2, ImportsGoOn DEF Imported
    <3> QED BY <2>0, <3>1, <3>2, WrittenStays DEF Written
  <2>3. CASE /\ job[j].step \in {"put", "post"}
             /\ next = ClientAt(j, job[j].at + 1)
             /\ Current(j).id \in Existing' /\ clients'[Current(j).id].by = j
    <3>1. job[j].at \in 1..Len(job[j].plan) /\ job[j].at + 1 \in 1..(Len(job[j].plan) + 1)
      BY <2>0, <2>3 DEF Fits
    <3>2. /\ next.at = job[j].at + 1 /\ next.plan = job[j].plan
          /\ next.step = "done" => next.at = Len(next.plan) + 1
      BY <2>0, <2>3, <3>1, ClientAtFits
    <3>3. next.before = job[j].before
      BY <2>3, Tos DEF ClientAt, Plain, Fields
    <3>4. Written(job[j])
      BY <1>2, <2>0, <2>3, ImportsGoOn DEF Imported
    <3>5. j \notin job[j].before \cup {Preset}
      BY <2>3, JobsAssumption DEF Labels, Past, Over
    <3>6. ASSUME NEW k \in 1..(next.at - 1)
          PROVE  LET i == next.plan[k].id
                 IN  i \in Existing' /\ clients'[i].by \notin next.before \cup {Preset}
      <4>1. CASE k = job[j].at
        BY <2>3, <3>2, <3>3, <3>5, <4>1 DEF Current
      <4>2. CASE k # job[j].at
        <5>1. k \in 1..(job[j].at - 1)
          BY <3>1, <3>2, <4>2
        <5> QED BY <3>2, <3>3, <3>4, <5>1, WrittenStays
      <4> QED BY <4>1, <4>2
    <3> QED BY <2>0, <3>2, <3>6 DEF Written
  <2> QED BY <1>2, <2>0, <2>1, <2>2, <2>3, ImportsGoOn
<1>3. ASSUME NEW k \in Jobs, Tokens(k)
      PROVE  /\ Written(job[j])'
             /\ job'[j].step = "done" => job'[j].at = Len(job'[j].plan) + 1
  <2>1. PICK phase, bearer : job' = [job EXCEPT ![k] = [@ EXCEPT !.phase = phase, !.bearer = bearer]]
    BY <1>3 DEF Tokens, TakeCached, Fetch, Arrive, Keep
  <2>2. /\ job'[j].kind = job[j].kind /\ job'[j].step = job[j].step
        /\ job'[j].at = job[j].at /\ job'[j].plan = job[j].plan
        /\ job'[j].before = job[j].before
    BY <2>1 DEF Shaped, Fields
  <2> QED BY <1>1, <2>2
<1>4. ASSUME NEW k \in Jobs, NEW next, Moves(k, next)
      PROVE  job'[j] = job[j] \/ Moves(j, next)
  BY <1>4 DEF Moves, Move, Shaped
<1>5. Tick \/ UNCHANGED vars => job'[j] = job[j]
  BY DEF Tick, vars
<1> QED BY <1>1, <1>2, <1>3, <1>4, <1>5, Kinds

\* An import that reports success has every client of its file in Keycloak, as it
\* or one beside or after it wrote it.
THEOREM ImportsConverge == Spec => []ImportConverges
<1> DEFINE I == Shaped /\ Labels /\ Bearers /\ Typed /\ Imported
<1>1. Init => I
  BY FrameInit, BearersInit, TypedInit, ImportedInit
<1>2. I /\ [Next]_vars => I'
  BY FrameStep, BearersStep, TypedStep, ImportedStep
<1>3. I => ImportConverges
  <2> SUFFICES ASSUME I, NEW j \in Jobs, job[j].kind = "import", job[j].step = "done",
                      NEW k \in DOMAIN job[j].plan
               PROVE  LET i == job[j].plan[k].id
                      IN  i \in Existing /\ clients[i].by \notin job[j].before \cup {Preset}
    BY DEF ImportConverges
  <2>1. Written(job[j]) /\ job[j].at = Len(job[j].plan) + 1
    BY DEF Imported
  <2>2. k \in 1..(job[j].at - 1)
    BY <2>1, ClientsOf DEF Typed, Fits, Content
  <2> QED BY <2>1, <2>2 DEF Written
<1> QED BY <1>1, <1>2, <1>3, PTL DEF Spec

-----------------------------------------------------------------------------
(* Imports under running servers.                                          *)

\* An import goes on, or ends, from its update of the realm or of a client.
LEMMA ImportsGo ==
    ASSUME Shaped, NEW k \in Jobs, Update(k) \/ Put(k)
    PROVE  job'[k] # job[k]
<1>1. \A n : ClientAt(k, n).step \in {"done", "find"}
  BY Tos DEF ClientAt, Plain, Fields
<1>2. To(k, "failed").step = "failed"
  BY Tos
<1>3. PICK next : Move(k, next) /\ next.step \in {"done", "find", "failed"}
  BY <1>1, <1>2 DEF Update, Put, Answer
<1> QED BY <1>3 DEF Update, Put, Move, Shaped

\* What a step does to a realm and its clients.
LEMMA RealmSteps ==
    ASSUME Shaped, Labels, [Next]_vars, realm = "on"
    PROVE  \/ UNCHANGED realm /\ \A i \in Existing : i \in Existing' /\ clients'[i] = clients[i]
           \/ \E k \in Jobs : Update(k)
           \/ \E k \in Jobs : Put(k)
<1>1. ASSUME NEW j \in Jobs
      PROVE  ~Seed(j)
  BY SwitchAssumption DEF Seed, Switch
<1>2. ASSUME NEW j \in Jobs, Create(j)
      PROVE  UNCHANGED <<realm, clients>>
  BY <1>2, SwitchAssumption DEF Create, Switch
<1>3. ASSUME NEW j \in Jobs, Post(j)
      PROVE  UNCHANGED realm /\ \A i \in Existing : i \in Existing' /\ clients'[i] = clients[i]
  BY <1>3 DEF Post, Existing
<1> QED BY <1>1, <1>2, <1>3, ClientWriters DEF Existing

\* A server that runs does nothing of its own.
LEMMA ServersRest ==
    ASSUME Shaped, Labels, [Next]_vars, NEW j \in Jobs, job[j].step = "running"
    PROVE  job'[j] = job[j]
<1>1. ASSUME NEW k \in Jobs, Tokens(k)
      PROVE  job'[j] = job[j]
  <2>1. job[k].step \in Calls
    BY <1>1 DEF Tokens, TakeCached, Fetch, Arrive, Keep, Shaped, Plain
  <2>2. PICK next : job' = [job EXCEPT ![k] = next]
    BY <1>1 DEF Tokens, TakeCached, Fetch, Arrive, Keep
  <2> QED BY <2>1, <2>2 DEF Shaped, Calls
<1>2. ASSUME NEW k \in Jobs, NEW next, Moves(k, next)
      PROVE  job'[j] = job[j]
  BY <1>2 DEF Moves, Move, Shaped
<1> QED BY <1>1, <1>2, Kinds DEF Tick, vars

\* A server loses its right to an admin token only by an import that has read in its
\* file that the realm, the client or its service account is off.
THEOREM ServersKeepAdminAccess == Spec => ServersKeepAccess
<1> DEFINE I == Shaped /\ Labels /\ Bearers /\ Typed
<1>1. Init => I
  BY FrameInit, BearersInit, TypedInit
<1>2. I /\ [Next]_vars => I'
  BY FrameStep, BearersStep, TypedStep
<1> DEFINE Told(j, k) ==
      /\ job'[k] # job[k]
      /\ \/ At(k, "update") /\ job[k].enabled = "off"
         \/ /\ At(k, "put") /\ Current(k).id = job[j].creds.id
            /\ "off" \in {Current(k).enabled, Current(k).service}
<1>3. ASSUME I, [Next]_vars, NEW j \in Jobs,
             At(j, "running"), Granted(job[j].creds), ~Granted(job[j].creds)'
      PROVE  \E k \in Jobs : Told(j, k)
  <2>1. job'[j] = job[j] /\ realm = "on"
    BY <1>3, ServersRest DEF Granted
  <2> DEFINE c == job[j].creds
  <2>2. /\ c # None /\ c.id \in Existing /\ c.secret # None
        /\ clients[c.id].secret = c.secret
        /\ clients[c.id].enabled = "on" /\ clients[c.id].service = "on"
    BY <1>3 DEF Granted
  <2>3. \/ realm' # "on" \/ c.id \notin Existing' \/ clients'[c.id].secret # c.secret
        \/ clients'[c.id].enabled # "on" \/ clients'[c.id].service # "on"
    BY <1>3, <2>1, <2>2 DEF Granted
  <2> HIDE DEF c
  <2>4. CASE UNCHANGED realm /\ \A i \in Existing : i \in Existing' /\ clients'[i] = clients[i]
    BY <2>1, <2>2, <2>3, <2>4
  <2>5. ASSUME NEW k \in Jobs, Update(k)
        PROVE  Told(j, k)
    <3>1. realm' # "on"
      BY <2>2, <2>3, <2>5 DEF Update, Existing
    <3>2. job[k].enabled = "off"
      BY <1>3, <2>1, <2>5, <3>1 DEF Update, Heed, Typed, Fits, Said, Switch
    <3> QED BY <1>3, <2>5, <3>2, ImportsGo DEF Update
  <2>6. ASSUME NEW k \in Jobs, Put(k)
        PROVE  Told(j, k)
    <3> DEFINE e == Current(k)
    <3>1. UNCHANGED realm /\ clients' = [clients EXCEPT ![e.id] = Payload(k)]
      BY <2>6 DEF Put
    <3>2. e.id = c.id
      BY <2>1, <2>2, <2>3, <3>1 DEF Existing
    <3>3. clients'[c.id] = Payload(k)
      BY <2>2, <3>1, <3>2 DEF Existing
    <3>4. /\ Payload(k).secret = clients[c.id].secret
          /\ Payload(k).enabled = Heed(e.enabled, clients[c.id].enabled)
          /\ Payload(k).service = Heed(e.service, clients[c.id].service)
      BY <3>2 DEF Payload
    <3>5. c.id \in Existing'
      BY <2>2, <3>1 DEF Existing
    <3> HIDE DEF e
    <3>6. Heed(e.enabled, "on") # "on" \/ Heed(e.service, "on") # "on"
      BY <2>1, <2>2, <2>3, <3>1, <3>3, <3>4, <3>5
    <3>7. "off" \in {e.enabled, e.service}
      <4>1. job[k].step = "put"
        BY <2>6 DEF Put
      <4>2. job[k].at \in 1..Len(job[k].plan)
        BY <1>3, <4>1, ClientsOf DEF Typed, Fits
      <4>3. e \in Entry
        BY <1>3, <4>2, ClientsOf DEF Typed, Fits, Current, e
      <4> QED BY <3>6, <4>3 DEF Heed, Entry, Said, Switch
    <3>8. job'[k] # job[k] /\ job[k].step = "put"
      BY <1>3, <2>6, ImportsGo DEF Put
    <3> QED BY <3>2, <3>7, <3>8 DEF e, c
  <2> QED BY <1>3, <2>1, <2>4, <2>5, <2>6, RealmSteps
<1>4. I /\ [Next]_vars
        => [\A j \in Jobs :
              At(j, "running") /\ Granted(job[j].creds) /\ ~Granted(job[j].creds)' =>
                 \E k \in Jobs : Told(j, k)]_vars
  BY <1>3
<1> QED BY <1>1, <1>2, <1>4, PTL DEF Spec, ServersKeepAccess

=============================================================================
