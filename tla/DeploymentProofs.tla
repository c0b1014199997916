-------------------------- MODULE DeploymentProofs --------------------------
(***************************************************************************)
(* What TLAPS proves of a deployment, for any number of jobs, clients and  *)
(* configurations, any life of admin tokens and any margin: admin tokens   *)
(* are good when used, servers run on valid options, registrations and     *)
(* saves answer for their own effect.                                      *)
(***************************************************************************)
EXTENDS Deployment, TLAPS

USE DEF At

-----------------------------------------------------------------------------
(* Jobs, and the steps they take.                                          *)

Fields == {"kind", "step", "phase", "server", "creds", "bearer", "before", "enabled",
           "plan", "at", "options", "built", "input", "found"}

\* A job that is not in an admin call, and so carries no token.
Plain(next) ==
    /\ DOMAIN next = Fields /\ next.server \in Jobs \cup {None}
    /\ next.phase = "token" /\ next.bearer = None

Shaped ==
    /\ job = [j \in Jobs |-> job[j]] /\ cache = [j \in Jobs |-> cache[j]]
    /\ \A j \in Jobs :
          /\ DOMAIN job[j] = Fields /\ job[j].server \in Jobs \cup {None}
          /\ job[j].step \notin Calls => Plain(job[j])

\* What a job of each kind may be at.
Labelled(kind, step) ==
    \/ step \in Over
    \/ kind = "import" /\ step \in {"exists", "update", "create", "find", "put", "post"}
    \/ kind = "export" /\ step \in {"realm", "clients", "secret"}
    \/ kind = "boot" /\ step \in {"building", "running"}
    \/ kind = "register" /\ step \in {"register", "lookup", "verify"}
    \/ kind = "save" /\ step \in {"look", "insert", "replace", "write"}
    \/ kind = "delete" /\ step = "delete"

Past == {k \in Jobs : job[k].step \in Over}

\* The jobs that ended before another began have ended for good.
Labels == \A j \in Jobs :
    /\ job[j].step = "idle" \/ Labelled(job[j].kind, job[j].step)
    /\ job[j].before \subseteq Past

\* Any step but an admin token's: a job begins, or goes on as the kind it is.
Moves(j, next) ==
    /\ job[j].step \notin Over \cup {"running"}
    /\ UNCHANGED now
    /\ Move(j, next) /\ Plain(next)
    /\ Labelled(next.kind, next.step)
    /\ \/ /\ job[j].step = "idle"
          /\ next.step \notin {"find", "put", "post", "lookup", "verify", "insert", "replace"}
          /\ next.step = "done" => next.kind \in {"init", "seed"}
          /\ next.before \subseteq Past
       \/ next.kind = job[j].kind /\ next.before \in {job[j].before, {}}
    /\ \/ next.step \in {"building", "running"} /\ ServerStart(j)
       \/ /\ next.step \notin {"building", "running"}
          /\ \/ next.built = {}
             \/ next.built = job[j].built /\ job[j].step # "building"
    /\ next.kind = "import" /\ next.step \in {"find", "put", "post", "done"}
          => Update(j) \/ Create(j) \/ Find(j) \/ Put(j) \/ Post(j)
    /\ next.kind = "register" /\ next.step \in {"lookup", "verify", "done"}
          => Register(j) \/ Lookup(j) \/ Verify(j)
    /\ next.kind = "save" /\ next.step \in {"insert", "replace", "done"}
          => Write(j) \/ Look(j) \/ Replace(j) \/ Insert(j)

\* What is known of a job that ended, that began, and that went on.
LEMMA Ends == \A what, how :
    /\ Plain(Ended(what, how)) /\ Ended(what, how).kind = what
    /\ Ended(what, how).step = how
    /\ Ended(what, how).before = {} /\ Ended(what, how).built = {}
BY DEF Plain, Fields, Ended, NoJob

LEMMA Firsts == \A j, what, how :
    /\ Plain(First(j, what, how)) /\ First(j, what, how).kind = what
    /\ First(j, what, how).step = how
    /\ First(j, what, how).before = Past /\ First(j, what, how).built = {}
BY DEF Plain, Fields, First, NoJob, Past

LEMMA Tos ==
    ASSUME Shaped, NEW j \in Jobs, NEW label
    PROVE  /\ Plain(To(j, label)) /\ To(j, label).kind = job[j].kind
           /\ To(j, label).step = label
           /\ To(j, label).before \in {job[j].before, {}}
           /\ \/ To(j, label).built = {}
              \/ To(j, label).built = job[j].built /\ To(j, label).options = job[j].options
           /\ label # "failed" =>
                 /\ To(j, label).before = job[j].before /\ To(j, label).input = job[j].input
                 /\ To(j, label).found = job[j].found
<1>1. CASE label = "failed"
  BY <1>1, Ends DEF To
<1>2. CASE label # "failed"
  BY <1>2 DEF Plain, Fields, To, Shaped
<1> QED BY <1>1, <1>2

\* Imports.
LEMMA ImportMoves ==
    ASSUME Shaped, Labels, NEW j \in Jobs,
           ImportStart(j) \/ Exists(j) \/ Update(j) \/ Create(j) \/ Find(j) \/ Put(j) \/ Post(j)
    PROVE  \E next : Moves(j, next)
<1>1. CASE ImportStart(j)
  <2>1. PICK e, p, c : Move(j, [First(j, "import", "exists") EXCEPT
                                  !.enabled = e, !.plan = p, !.creds = c])
    BY <1>1 DEF ImportStart
  <2> DEFINE next == [First(j, "import", "exists") EXCEPT !.enabled = e, !.plan = p, !.creds = c]
  <2>2. /\ Plain(next) /\ next.kind = "import" /\ next.step = "exists" /\ next.before = Past /\ next.built = {}
    BY Firsts DEF Plain, Fields
  <2>3. job[j].step = "idle" /\ UNCHANGED now
    BY <1>1 DEF ImportStart, Idle
  <2> HIDE DEF next
  <2> QED BY <2>1, <2>2, <2>3 DEF Moves, Labelled, Over, next
<1>2. \A n : LET t == ClientAt(j, n)
             IN  /\ Plain(t) /\ t.kind = job[j].kind /\ t.step \in {"done", "find"}
                 /\ t.before = job[j].before /\ t.built \in {{}, job[j].built}
  BY Tos DEF ClientAt, Plain, Fields
<1>3. CASE Exists(j) \/ Update(j) \/ Create(j) \/ Find(j) \/ Put(j) \/ Post(j)
  BY <1>2, <1>3, Tos DEF Moves, Labelled, Labels, Over, Exists, Update, Create, Find, Put, Post,
     Answer
<1> QED BY <1>1, <1>3

\* The other commands.
LEMMA ToolMoves ==
    ASSUME Shaped, Labels, NEW j \in Jobs,
           \/ InitFile(j) \/ Seed(j) \/ ExportStart(j) \/ GetRealm(j) \/ GetClients(j)
           \/ GetSecret(j)
    PROVE  \E next : Moves(j, next)
<1>1. CASE InitFile(j) \/ Seed(j)
  <2>1. PICK k \in {"init", "seed"} : Move(j, Ended(k, "done"))
    BY <1>1 DEF InitFile, Seed
  <2> QED BY <1>1, <2>1, Ends DEF Moves, Labelled, Over, InitFile, Seed
<1>2. CASE ExportStart(j)
  <2>1. PICK c : Move(j, [First(j, "export", "realm") EXCEPT !.creds = c])
    BY <1>2 DEF ExportStart
  <2> DEFINE next == [First(j, "export", "realm") EXCEPT !.creds = c]
  <2>2. /\ Plain(next) /\ next.kind = "export" /\ next.step = "realm" /\ next.before = Past /\ next.built = {}
    BY Firsts DEF Plain, Fields
  <2>3. job[j].step = "idle" /\ UNCHANGED now
    BY <1>2 DEF ExportStart, Idle
  <2> HIDE DEF next
  <2> QED BY <2>1, <2>2, <2>3 DEF Moves, Labelled, Over, next
<1>3. CASE GetRealm(j)
  <2> DEFINE next == [To(j, "clients") EXCEPT !.enabled = realm]
  <2>1. job[j].step = "realm" /\ UNCHANGED now /\ Move(j, next)
    BY <1>3 DEF GetRealm
  <2>2. job[j].kind = "export"
    BY <2>1 DEF Labels, Labelled, Over
  <2>3. /\ Plain(next) /\ next.kind = "export" /\ next.step = "clients"
        /\ next.before \in {job[j].before, {}} /\ next.built \in {{}, job[j].built}
    BY <2>2, Tos DEF Plain, Fields
  <2> HIDE DEF next
  <2> QED BY <2>1, <2>2, <2>3 DEF Moves, Labelled, Over
<1>4. CASE GetClients(j) \/ GetSecret(j)
  <2>1. job[j].kind = "export" /\ UNCHANGED now
    BY <1>4 DEF GetClients, GetSecret, Labels, Labelled, Over
  <2>2. PICK next :
          /\ Move(j, next)
          /\ \/ next = Ended("export", "done")
             \/ \E p : next = [To(j, "secret") EXCEPT !.plan = p]
             \/ \E p, n : next = [To(j, "secret") EXCEPT !.plan = p, !.at = n]
    <3>1. CASE GetClients(j)
      BY <3>1 DEF GetClients
    <3>2. CASE GetSecret(j)
      <4> DEFINE read(got) == [job[j].plan EXCEPT ![job[j].at].secret = got]
                 more(got) == [To(j, "secret") EXCEPT !.plan = read(got), !.at = @ + 1]
      <4>1. PICK got : Move(j, IF job[j].at = Len(read(got)) THEN Ended("export", "done")
                               ELSE more(got))
        BY <3>2 DEF GetSecret
      <4> HIDE DEF read
      <4> QED BY <4>1
    <3> QED BY <1>4, <3>1, <3>2
  <2>3. /\ Plain(next) /\ next.kind = "export" /\ next.step \in {"secret", "done"}
        /\ next.before \in {job[j].before, {}} /\ next.built \in {{}, job[j].built}
    <3>1. CASE next = Ended("export", "done")
      BY <3>1, Ends
    <3>2. ASSUME NEW p, next = [To(j, "secret") EXCEPT !.plan = p]
          PROVE  /\ Plain(next) /\ next.kind = "export" /\ next.step = "secret"
                 /\ next.before \in {job[j].before, {}} /\ next.built \in {{}, job[j].built}
      BY <3>2, <2>1, Tos DEF Plain, Fields
    <3>3. ASSUME NEW p, NEW n, next = [To(j, "secret") EXCEPT !.plan = p, !.at = n]
          PROVE  /\ Plain(next) /\ next.kind = "export" /\ next.step = "secret"
                 /\ next.before \in {job[j].before, {}} /\ next.built \in {{}, job[j].built}
      BY <3>3, <2>1, Tos DEF Plain, Fields
    <3> QED BY <2>2, <3>1, <3>2, <3>3
  <2> QED BY <1>4, <2>1, <2>2, <2>3 DEF Moves, Labelled, Over, GetClients, GetSecret
<1> QED BY <1>1, <1>2, <1>3, <1>4

\* The start of a server.
LEMMA ServerMoves ==
    ASSUME Shaped, Labels, NEW j \in Jobs, ServerStart(j)
    PROVE  \E next : Moves(j, next)
<1>1. CASE Boot(j)
  <2>1. PICK next :
          /\ Move(j, next)
          /\ \/ next = Ended("boot", "failed")
             \/ \E o : next = [First(j, "boot", "building") EXCEPT !.options = o]
             \/ \E o : next = [First(j, "boot", "building")
                                 EXCEPT !.options = o, !.built = {"options"}]
    BY <1>1 DEF Boot
  <2>2. /\ Plain(next) /\ next.kind = "boot" /\ next.step \in {"building", "failed"}
        /\ next.before \in {Past, {}}
        /\ next.step = "failed" => next.built = {}
    <3>1. CASE next = Ended("boot", "failed")
      BY <3>1, Ends
    <3>2. ASSUME NEW o, next = [First(j, "boot", "building") EXCEPT !.options = o]
          PROVE  /\ Plain(next) /\ next.kind = "boot" /\ next.step = "building"
                 /\ next.before = Past
      BY <3>2, Firsts DEF Plain, Fields
    <3>3. ASSUME NEW o, next = [First(j, "boot", "building")
                                  EXCEPT !.options = o, !.built = {"options"}]
          PROVE  /\ Plain(next) /\ next.kind = "boot" /\ next.step = "building"
                 /\ next.before = Past
      BY <3>3, Firsts DEF Plain, Fields
    <3> QED BY <2>1, <3>1, <3>2, <3>3
  <2>3. job[j].step = "idle" /\ UNCHANGED now
    BY <1>1 DEF Boot, Idle
  <2> QED BY <2>1, <2>2, <2>3 DEF Moves, Labelled, Over
<1>2. ASSUME NEW p \in Parts, Build(j, p)
      PROVE  \E next : Moves(j, next)
  <2> DEFINE built == [job[j] EXCEPT !.built = @ \cup {p}]
  <2>1. PICK next :
          /\ Move(j, next)
          /\ \/ next \in {built, [built EXCEPT !.step = "running"], Ended("boot", "failed")}
             \/ \E c : next = [built EXCEPT !.creds = c]
    BY <1>2 DEF Build
  <2>2. job[j].step = "building" /\ UNCHANGED now
    BY <1>2 DEF Build
  <2>3. job[j].kind = "boot" /\ Plain(job[j])
    BY <2>2 DEF Shaped, Calls, Labels, Labelled, Over
  <2>4. /\ Plain(next) /\ next.kind = "boot" /\ next.step \in {"building", "running", "failed"}
        /\ next.before \in {job[j].before, {}}
        /\ next.step = "failed" => next.built = {}
    <3>1. /\ Plain(built) /\ built.kind = "boot" /\ built.step = "building"
          /\ built.before = job[j].before
      BY <2>2, <2>3 DEF Plain, Fields
    <3> HIDE DEF built
    <3>2. CASE next = built
      BY <3>1, <3>2
    <3>3. CASE next = [built EXCEPT !.step = "running"]
      BY <3>1, <3>3 DEF Plain, Fields
    <3>4. CASE next = Ended("boot", "failed")
      BY <3>4, Ends
    <3>5. ASSUME NEW c, next = [built EXCEPT !.creds = c]
          PROVE  /\ Plain(next) /\ next.kind = "boot" /\ next.step = "building"
                 /\ next.before = job[j].before
      BY <3>1, <3>5 DEF Plain, Fields
    <3> QED BY <2>1, <3>2, <3>3, <3>4, <3>5
  <2> QED BY <2>1, <2>2, <2>3, <2>4 DEF Moves, Labelled, Over
<1> QED BY <1>1, <1>2 DEF ServerStart

\* Requests to a server, and calls that fail.
LEMMA RequestMoves ==
    ASSUME Shaped, Labels, NEW j \in Jobs, Request(j) \/ Fail(j)
    PROVE  \E next : Moves(j, next)
<1>1. ASSUME NEW s \in Jobs, NEW what \in {"register", "save", "delete"}, NEW label, NEW input,
             label \in {"register", "look", "write", "delete", "failed"},
             Labelled(what, label), Arrives(j, s, what, label, input), UNCHANGED now
      PROVE  \E next : Moves(j, next)
  <2>1. PICK next :
          /\ Move(j, next)
          /\ \/ next = Ended(what, "failed")
             \/ next = [First(j, what, label) EXCEPT !.server = s, !.input = input]
    BY <1>1 DEF Arrives
  <2>2. /\ Plain(next) /\ next.kind = what /\ next.step \in {label, "failed"}
        /\ next.before \in {Past, {}} /\ next.built = {}
    <3>1. CASE next = Ended(what, "failed")
      BY <3>1, Ends
    <3>2. CASE next = [First(j, what, label) EXCEPT !.server = s, !.input = input]
      BY <3>2, Firsts DEF Plain, Fields
    <3> QED BY <2>1, <3>1, <3>2
  <2>3. job[j].step = "idle"
    BY <1>1 DEF Arrives, Idle
  <2> QED BY <1>1, <2>1, <2>2, <2>3 DEF Moves, Labelled, Over
<1>2. CASE RegisterStart(j)
  BY <1>1, <1>2 DEF RegisterStart, Labelled, Over
<1>3. CASE SaveStart(j) \/ DeleteStart(j)
  BY <1>1, <1>3 DEF SaveStart, DeleteStart, Labelled, Over
<1>4. CASE Register(j) \/ Verify(j)
  BY <1>4, Tos DEF Moves, Labelled, Labels, Over, Register, Verify, Answer
<1>5. CASE Lookup(j)
  <2>0. PICK label \in {"verify", "done"} :
          \E who : Move(j, [To(j, label) EXCEPT !.found = who])
    BY <1>5 DEF Lookup
  <2>1. PICK who : Move(j, [To(j, label) EXCEPT !.found = who])
    BY <2>0
  <2> DEFINE next == [To(j, label) EXCEPT !.found = who]
  <2>2. Plain(next) /\ next.kind = job[j].kind /\ next.step = label
        /\ next.before \in {job[j].before, {}} /\ next.built \in {{}, job[j].built}
    BY Tos DEF Plain, Fields
  <2>3. job[j].step = "lookup" /\ job[j].kind = "register" /\ UNCHANGED now
    BY <1>5 DEF Lookup, Labels, Labelled, Over
  <2> HIDE DEF next
  <2> QED BY <1>5, <2>1, <2>2, <2>3 DEF Moves, Labelled, Over, next
<1>6. CASE Write(j) \/ Insert(j) \/ Delete(j)
  BY <1>6, Tos DEF Moves, Labelled, Labels, Over, Write, Insert, Delete
<1>7. CASE Look(j)
  <2>1. PICK next :
          /\ Move(j, next)
          /\ \/ next = To(j, "insert")
             \/ \E i : next = [To(j, "replace") EXCEPT !.found = i]
    BY <1>7 DEF Look
  <2>2. /\ Plain(next) /\ next.kind = job[j].kind /\ next.step \in {"insert", "replace"}
        /\ next.before \in {job[j].before, {}} /\ next.built \in {{}, job[j].built}
    BY <2>1, Tos DEF Plain, Fields
  <2> QED BY <1>7, <2>1, <2>2 DEF Moves, Labelled, Labels, Over, Look
<1>8. CASE Replace(j)
  BY <1>8, Tos DEF Moves, Labelled, Labels, Over, Replace
<1>9. CASE Fail(j)
  BY <1>9, Tos DEF Moves, Labelled, Labels, Over, Fail, Calls
<1> QED BY <1>2, <1>3, <1>4, <1>5, <1>6, <1>7, <1>8, <1>9 DEF Request

\* Every step is the clock's, an admin token's, or one that moves a job.
Tokens(j) == TakeCached(j) \/ Fetch(j) \/ Arrive(j)

LEMMA Kinds ==
    ASSUME Shaped, Labels, [Next]_vars
    PROVE  \/ Tick
           \/ \E j \in Jobs : Tokens(j)
           \/ \E j \in Jobs : \E next : Moves(j, next)
           \/ UNCHANGED vars
<1>1. ASSUME NEW j \in Jobs, AdminStep(j) \/ Command(j) \/ ServerStart(j) \/ Request(j)
      PROVE  Tokens(j) \/ \E next : Moves(j, next)
  BY <1>1, ImportMoves, ToolMoves, ServerMoves, RequestMoves
     DEF AdminStep, Command, Tokens
<1> QED BY <1>1 DEF Next

-----------------------------------------------------------------------------
(* The frame.                                                              *)

LEMMA FrameInit == ASSUME Init PROVE Shaped /\ Labels
BY DEF Init, Shaped, Labels, Plain, Fields, NoJob, Calls, Past

\* Who is at work is of the right shape, and who has ended stays so.
LEMMA FrameStep ==
    ASSUME Shaped, Labels, [Next]_vars
    PROVE  Shaped' /\ Labels'
<1>2. CASE Tick \/ UNCHANGED vars
  BY <1>2 DEF Shaped, Labels, Plain, Past, Tick, vars
<1>3. ASSUME NEW j \in Jobs, Tokens(j)
      PROVE  Shaped' /\ Labels'
  <2>1. PICK phase, bearer : job' = [job EXCEPT ![j] = [@ EXCEPT !.phase = phase, !.bearer = bearer]]
    BY <1>3 DEF Tokens, TakeCached, Fetch, Arrive, Keep
  <2>2. job[j].step \in Calls
    BY <1>3 DEF Tokens, TakeCached, Fetch, Arrive, Keep, Shaped, Plain
  <2>3. /\ \A k \in Jobs \ {j} : job'[k] = job[k]
        /\ DOMAIN job'[j] = Fields /\ job'[j].server = job[j].server
        /\ job'[j].step = job[j].step /\ job'[j].kind = job[j].kind
        /\ job'[j].before = job[j].before
    BY <2>1 DEF Shaped, Fields
  <2>4. cache' = [k \in Jobs |-> cache'[k]] /\ job' = [k \in Jobs |-> job'[k]]
    BY <1>3, <2>1 DEF Shaped, Tokens, TakeCached, Fetch, Arrive, Keep
  <2> QED BY <2>2, <2>3, <2>4 DEF Shaped, Labels, Past, Plain
<1>4. ASSUME NEW j \in Jobs, NEW next, Moves(j, next)
      PROVE  Shaped' /\ Labels'
  <2>1. /\ \A k \in Jobs \ {j} : job'[k] = job[k]
        /\ job'[j] = next /\ job' = [k \in Jobs |-> job'[k]]
        /\ cache' = [k \in Jobs |-> cache'[k]]
    BY <1>4 DEF Shaped, Moves, Move
  <2>2. Past \subseteq Past'
    BY <1>4, <2>1 DEF Past, Moves
  <2> QED BY <1>4, <2>1, <2>2 DEF Shaped, Labels, Moves, Plain
<1> QED BY <1>2, <1>3, <1>4, Kinds

-----------------------------------------------------------------------------
(* Admin tokens.                                                           *)

\* A cached token is given up in time; one in use was good when it was picked.
Bearers ==
    /\ now \in Nat
    /\ \A j \in Jobs : cache[j] # None =>
          LET t == cache[j] IN
          t.granted \in Nat /\ t.lag \in Nat /\ t.until = t.granted + t.lag + (Life - Margin)
    /\ \A j \in Jobs :
          LET t == job[j].bearer IN
          /\ job[j].phase = "fetching" => t.granted \in Nat /\ t.granted <= now
          /\ job[j].phase = "calling" =>
                /\ t.granted \in Nat /\ t.lag \in Nat /\ t.picked \in Nat
                /\ \/ t.picked = t.granted + t.lag
                   \/ t.picked < t.granted + t.lag + (Life - Margin)

LEMMA BearersInit == ASSUME Init PROVE Bearers
BY DEF Init, Bearers, NoJob

LEMMA BearersStep ==
    ASSUME Shaped, Labels, Bearers, [Next]_vars
    PROVE  Bearers'
<1> USE LifeAssumption
<1>1. CASE Tick \/ UNCHANGED vars
  BY <1>1 DEF Bearers, Tick, vars
<1>2. ASSUME NEW j \in Jobs, TakeCached(j)
      PROVE  Bearers'
  <2>1. Holder(j) \in Jobs /\ cache[Holder(j)] # None /\ cache[Holder(j)].until > now
    BY <1>2 DEF TakeCached, Fresh, Holder, Shaped
  <2>2. LET t == job'[j].bearer IN
          /\ job'[j].phase = "calling" /\ t.granted = cache[Holder(j)].granted
          /\ t.lag = cache[Holder(j)].lag /\ t.picked = now
    BY <1>2 DEF TakeCached, Shaped, Fields
  <2>3. \A k \in Jobs \ {j} : job'[k] = job[k]
    BY <1>2 DEF TakeCached, Shaped
  <2>4. UNCHANGED <<now, cache>>
    BY <1>2 DEF TakeCached
  <2> QED BY <2>1, <2>2, <2>3, <2>4 DEF Bearers
<1>3. ASSUME NEW j \in Jobs, Fetch(j)
      PROVE  Bearers'
  <2>1. job'[j].phase = "fetching" /\ job'[j].bearer.granted = now
    BY <1>3 DEF Fetch, Shaped, Fields
  <2>2. \A k \in Jobs \ {j} : job'[k] = job[k]
    BY <1>3 DEF Fetch, Shaped
  <2> QED BY <1>3, <2>1, <2>2 DEF Bearers, Fetch
<1>4. ASSUME NEW j \in Jobs, Arrive(j)
      PROVE  Bearers'
  <2> DEFINE since == job[j].bearer.granted
  <2>1. since \in Nat /\ since <= now /\ now \in Nat /\ now - since \in Nat
    BY <1>4 DEF Arrive, Keep, Bearers
  <2>2. Holder(j) \in Jobs
    BY DEF Holder, Shaped
  <2>3. /\ cache' = [cache EXCEPT ![Holder(j)] =
              [granted |-> since, lag |-> now - since, until |-> now + (Life - Margin)]]
        /\ UNCHANGED now
    BY <1>4 DEF Arrive, Keep
  <2>4. LET t == job'[j].bearer IN
          /\ job'[j].phase = "calling" /\ t.granted = since
          /\ t.lag = now - since /\ t.picked = now
    BY <1>4 DEF Arrive, Keep, Shaped, Fields
  <2>5. \A k \in Jobs \ {j} : job'[k] = job[k]
    BY <1>4 DEF Arrive, Keep, Shaped
  <2>6. \A k \in Jobs : cache'[k] = cache[k] \/
          cache'[k] = [granted |-> since, lag |-> now - since, until |-> now + (Life - Margin)]
    BY <2>2, <2>3 DEF Shaped
  <2>7. \A k \in Jobs : cache'[k] # None =>
          LET t == cache'[k] IN
          t.granted \in Nat /\ t.lag \in Nat /\ t.until = t.granted + t.lag + (Life - Margin)
    BY <2>1, <2>6 DEF Bearers
  <2> QED BY <2>1, <2>3, <2>4, <2>5, <2>7 DEF Bearers
<1>5. ASSUME NEW j \in Jobs, NEW next, Moves(j, next)
      PROVE  Bearers'
  <2>1. /\ \A k \in Jobs \ {j} : job'[k] = job[k]
        /\ job'[j] = next /\ next.phase = "token" /\ UNCHANGED now
        /\ \A k \in Jobs : cache'[k] = cache[k] \/ cache'[k] = None
    BY <1>5 DEF Shaped, Moves, Move, Plain
  <2> QED BY <2>1 DEF Bearers
<1> QED BY <1>1, <1>2, <1>3, <1>4, <1>5, Kinds DEF Tokens

\* The margin is enough, however long tokens live: a token is out of date when it
\* is used only if Keycloak's answer and the call took longer than the margin, or
\* than the token's life.
THEOREM TokensInTime == Spec => []AdminTokenInTime
<1>1. Init => Shaped /\ Labels /\ Bearers
  BY FrameInit, BearersInit
<1>2. Shaped /\ Labels /\ Bearers /\ [Next]_vars => (Shaped /\ Labels /\ Bearers)'
  BY FrameStep, BearersStep
<1>3. Shaped /\ Labels /\ Bearers => AdminTokenInTime
  BY LifeAssumption DEF Bearers, AdminTokenInTime
<1> QED BY <1>1, <1>2, <1>3, PTL DEF Spec

-----------------------------------------------------------------------------
(* Servers and their options.                                              *)

\* What is built of a server has passed its check, and what it injects is built.
Sound(o, built) ==
    /\ "options" \in built => Valid(o)
    /\ "store" \in built => Resolve(o.store) # "fallback"
    /\ "renderer" \in built => Templates \subseteq Renders(o)
    /\ "sender" \in built /\ Resolve(o.sender) = "fallback" => "options" \in built
    /\ "provider" \in built => "options" \in built
    /\ "rest" \in built => Parts \subseteq built

BuiltSoundly == \A j \in Jobs :
    /\ job[j].step \notin {"building", "running"} => job[j].built = {}
    /\ Sound(job[j].options, job[j].built)
    /\ job[j].step = "running" => "rest" \in job[j].built

LEMMA BuiltInit == ASSUME Init PROVE BuiltSoundly
BY DEF Init, BuiltSoundly, Sound, NoJob

\* One more part.
LEMMA BuildSound ==
    ASSUME NEW j \in Jobs, NEW p \in Parts, DOMAIN job[j] = Fields,
           Sound(job[j].options, job[j].built),
           Inject(job[j].options)[p] \subseteq job[j].built,
           CanBuild(job[j].options, p)
    PROVE  Sound(job[j].options, job[j].built \cup {p})
<1> DEFINE o == job[j].options
           built == job[j].built
<1> HIDE DEF o, built
<1>1. CASE p = "options"
  BY <1>1 DEF Sound, CanBuild, o, built
<1>2. CASE p = "store"
  BY <1>2 DEF Sound, CanBuild, o, built
<1>3. CASE p = "renderer"
  BY <1>3 DEF Sound, CanBuild, o, built
<1>4. CASE p = "sender"
  <2>1. Inject(o)[p] = IF Resolve(o.sender) = "fallback" THEN {"options"} ELSE {}
    BY <1>4 DEF Inject, Parts
  <2> QED BY <1>4, <2>1 DEF Sound, o, built
<1>5. CASE p = "provider"
  <2>1. Inject(o)[p] = {"options", "store"}
    BY <1>5 DEF Inject, Parts
  <2> QED BY <1>5, <2>1 DEF Sound, o, built
<1>6. CASE p = "rest"
  <2>1. Inject(o)[p] = Parts \ {"rest"}
    BY <1>6 DEF Inject, Parts
  <2>2. Parts \subseteq built \cup {p}
    BY <1>6, <2>1 DEF o, built
  <2> QED BY <1>6, <2>2 DEF Sound, o, built
<1> QED BY <1>1, <1>2, <1>3, <1>4, <1>5, <1>6 DEF Parts

LEMMA BuiltStep ==
    ASSUME Shaped, Labels, BuiltSoundly, [Next]_vars
    PROVE  BuiltSoundly'
<1>1. CASE Tick \/ UNCHANGED vars
  BY <1>1 DEF BuiltSoundly, Tick, vars
<1>2. ASSUME NEW j \in Jobs, Tokens(j)
      PROVE  BuiltSoundly'
  <2>1. PICK phase, bearer : job' = [job EXCEPT ![j] = [@ EXCEPT !.phase = phase, !.bearer = bearer]]
    BY <1>2 DEF Tokens, TakeCached, Fetch, Arrive, Keep
  <2>2. /\ \A k \in Jobs \ {j} : job'[k] = job[k]
        /\ job'[j].step = job[j].step /\ job'[j].built = job[j].built
        /\ job'[j].options = job[j].options
    BY <2>1 DEF Shaped, Fields
  <2> QED BY <2>2 DEF BuiltSoundly
<1>3. ASSUME NEW j \in Jobs, NEW next, Moves(j, next)
      PROVE  BuiltSoundly'
  <2>1. /\ \A k \in Jobs \ {j} : job'[k] = job[k]
        /\ job'[j] = next
    BY <1>3 DEF Shaped, Moves, Move
  <2>2. SUFFICES /\ next.step \notin {"building", "running"} => next.built = {}
                 /\ Sound(next.options, next.built)
                 /\ next.step = "running" => "rest" \in next.built
    BY <2>1 DEF BuiltSoundly
  <2>3. CASE next.step \notin {"building", "running"}
    <3>1. job[j].step # "running"
      BY <1>3 DEF Moves
    <3>2. next.built = {}
      BY <1>3, <2>3, <3>1 DEF Moves, BuiltSoundly
    <3> QED BY <2>3, <3>2 DEF Sound
  <2>4. CASE Boot(j)
    <3>1. \/ next = Ended("boot", "failed")
          \/ \E o : next = [First(j, "boot", "building") EXCEPT !.options = o]
          \/ \E o : /\ next = [First(j, "boot", "building")
                                  EXCEPT !.options = o, !.built = {"options"}]
                     /\ Valid(o)
      BY <2>1, <2>4 DEF Boot, Move, Shaped
    <3>2. CASE next = Ended("boot", "failed")
      BY <3>2, Ends DEF Sound
    <3>3. ASSUME NEW o, next = [First(j, "boot", "building") EXCEPT !.options = o]
          PROVE  next.step = "building" /\ next.built = {}
      BY <3>3, Firsts DEF Plain, Fields
    <3>4. ASSUME NEW o, next = [First(j, "boot", "building")
                                  EXCEPT !.options = o, !.built = {"options"}]
          PROVE  next.step = "building" /\ next.built = {"options"} /\ next.options = o
      BY <3>4, Firsts DEF Plain, Fields
    <3>5. \A o : Sound(o, {}) /\ (Valid(o) => Sound(o, {"options"}))
      BY DEF Sound
    <3>6. ASSUME next.step = "building", next.built = {}
          PROVE  Sound(next.options, next.built)
      BY <3>5, <3>6
    <3>7. ASSUME NEW o, Valid(o), next.built = {"options"}, next.options = o
          PROVE  Sound(next.options, next.built)
      BY <3>5, <3>7
    <3> HIDE DEF Sound
    <3> QED BY <3>1, <3>2, <3>3, <3>4, <3>6, <3>7
  <2>5. ASSUME NEW p \in Parts, Build(j, p)
        PROVE  /\ next.step \notin {"building", "running"} => next.built = {}
               /\ Sound(next.options, next.built)
               /\ next.step = "running" => "rest" \in next.built
    <3> DEFINE built == [job[j] EXCEPT !.built = @ \cup {p}]
    <3>1. job[j].step = "building" /\ DOMAIN job[j] = Fields
      BY <2>5 DEF Build, Shaped
    <3>2. /\ built.options = job[j].options /\ built.built = job[j].built \cup {p}
          /\ built.step = "building" /\ DOMAIN built = Fields
      BY <3>1 DEF Fields
    <3>3. \/ next = Ended("boot", "failed")
          \/ /\ CanBuild(job[j].options, p)
             /\ \/ next = built
                \/ next = [built EXCEPT !.step = "running"] /\ p = "rest"
                \/ \E c : next = [built EXCEPT !.creds = c]
      BY <2>1, <2>5 DEF Build, Move, Shaped
    <3>4. CanBuild(job[j].options, p) => Sound(job[j].options, job[j].built \cup {p})
      BY <2>5, <3>1, BuildSound DEF Build, BuiltSoundly
    <3> HIDE DEF built
    <3>5. CASE next = Ended("boot", "failed")
      BY <3>5, Ends DEF Sound
    <3>6. CASE next = built
      BY <3>2, <3>3, <3>4, <3>6, Ends
    <3>7. CASE next = [built EXCEPT !.step = "running"] /\ p = "rest"
      <4>1. next.options = built.options /\ next.built = built.built /\ next.step = "running"
        BY <3>2, <3>7 DEF Fields
      <4>2. CanBuild(job[j].options, p)
        BY <3>3, <4>1, Ends
      <4> QED BY <3>2, <3>4, <3>7, <4>1, <4>2
    <3>8. ASSUME NEW c, next = [built EXCEPT !.creds = c]
          PROVE  next.options = built.options /\ next.built = built.built /\ next.step = "building"
      BY <3>2, <3>8 DEF Fields
    <3> QED BY <3>2, <3>3, <3>4, <3>5, <3>6, <3>7, <3>8
  <2> QED BY <1>3, <2>3, <2>4, <2>5 DEF Moves, ServerStart
<1> QED BY <1>1, <1>2, <1>3, Kinds

\* What the comments of auth.module.ts say of the options holds, in whatever order
\* NestJS builds the providers.
THEOREM ServersRunOnValidOptions == Spec => []BuiltOnValidOptions
<1>1. Init => Shaped /\ Labels /\ BuiltSoundly
  BY FrameInit, BuiltInit
<1>2. Shaped /\ Labels /\ BuiltSoundly /\ [Next]_vars => (Shaped /\ Labels /\ BuiltSoundly)'
  BY FrameStep, BuiltStep
<1>3. ASSUME BuiltSoundly, NEW j \in Jobs
      PROVE  LET o == job[j].options
                 built == job[j].built
             IN  /\ "sender" \in built => o.sender # None \/ o.email
                 /\ "provider" \in built => o.inline \/ o.path
                 /\ At(j, "running") =>
                       /\ o.access # o.refresh /\ {o.access, o.refresh} \cap {None, Short} = {}
                       /\ o.store # None /\ Templates \subseteq Renders(o)
  <2> DEFINE o == job[j].options
             built == job[j].built
  <2>1. Sound(o, built) /\ (job[j].step = "running" => "rest" \in built)
    BY <1>3 DEF BuiltSoundly
  <2> HIDE DEF o, built
  <2>2. "options" \in built => Valid(o)
    BY <2>1 DEF Sound
  <2>3. "sender" \in built => o.sender # None \/ o.email
    BY <2>1, <2>2 DEF Sound, Valid, Resolve
  <2>4. "provider" \in built => o.inline \/ o.path
    BY <2>1, <2>2 DEF Sound, Valid
  <2>5. ASSUME job[j].step = "running"
        PROVE  /\ o.access # o.refresh /\ {o.access, o.refresh} \cap {None, Short} = {}
               /\ o.store # None /\ Templates \subseteq Renders(o)
    <3>1. Parts \subseteq built
      BY <2>1, <2>5 DEF Sound
    <3>2. Resolve(o.store) # "fallback" /\ Templates \subseteq Renders(o) /\ Valid(o)
      BY <2>1, <3>1 DEF Sound, Parts
    <3>3. o.store # None
      BY <3>2 DEF Resolve
    <3> QED BY <3>2, <3>3 DEF Valid, Strong
  <2> QED BY <2>3, <2>4, <2>5 DEF o, built
<1>4. BuiltSoundly => BuiltOnValidOptions
  BY <1>3 DEF BuiltOnValidOptions
<1> QED BY <1>1, <1>2, <1>4, PTL DEF Spec

-----------------------------------------------------------------------------
(* Registrations.                                                          *)

\* Of an e-mail there is one account, and a registration past Keycloak's answer has
\* the account of its own; what it looks up is that account.
OwnAccounts ==
    /\ \A a, b \in accounts : a.email = b.email => a.by = b.by
    /\ \A j \in Jobs : job[j].kind = "register" =>
          /\ job[j].step \in {"lookup", "verify", "done"}
                => \E a \in accounts : a.by = j /\ a.email = job[j].input.email
          /\ job[j].step \in {"verify", "done"} => job[j].found = j

LEMMA OwnInit == ASSUME Init PROVE OwnAccounts
BY DEF Init, OwnAccounts, NoJob

LEMMA AccountSteps ==
    ASSUME [Next]_vars
    PROVE  \/ UNCHANGED accounts
           \/ \E j \in Jobs : Register(j)
BY DEF Next, vars, keycloak, Tick, AdminStep, TakeCached, Fetch, Arrive, Keep, Fail,
   Command, InitFile, Seed, ImportStart, Exists, Update, Create, Find, Put, Post,
   ExportStart, GetRealm, GetClients, GetSecret, ServerStart, Boot, Build, Request,
   RegisterStart, Lookup, Verify, SaveStart, DeleteStart, Write, Look, Replace, Insert, Delete

\* One account per e-mail, as Keycloak refuses a second.
LEMMA AccountsStep ==
    ASSUME OwnAccounts, [Next]_vars
    PROVE  /\ accounts \subseteq accounts'
           /\ \A a, b \in accounts' : a.email = b.email => a.by = b.by
<1>1. CASE UNCHANGED accounts
  BY <1>1 DEF OwnAccounts
<1>2. ASSUME NEW j \in Jobs, Register(j)
      PROVE  /\ accounts \subseteq accounts'
             /\ \A a, b \in accounts' : a.email = b.email => a.by = b.by
  <2> DEFINE a0 == [email |-> job[j].input.email, name |-> job[j].input.name, by |-> j,
                    verified |-> ~Serving(j).verification]
  <2>1. CASE Conflict(j)
    BY <1>2, <2>1 DEF Register, OwnAccounts
  <2>2. CASE ~Conflict(j)
    <3>1. accounts' = accounts \cup {a0}
      BY <1>2, <2>2 DEF Register
    <3>2. a0.email = job[j].input.email
      OBVIOUS
    <3>3. \A a \in accounts : a.email # a0.email
      BY <2>2, <3>2 DEF Conflict
    <3> HIDE DEF a0
    <3> QED BY <3>1, <3>3 DEF OwnAccounts
  <2> QED BY <2>1, <2>2
<1> QED BY <1>1, <1>2, AccountSteps

LEMMA OwnStep ==
    ASSUME Shaped, Labels, OwnAccounts, [Next]_vars
    PROVE  OwnAccounts'
<1>1. /\ accounts \subseteq accounts'
      /\ \A a, b \in accounts' : a.email = b.email => a.by = b.by
  BY AccountsStep
<1>2. CASE Tick \/ UNCHANGED vars
  BY <1>1, <1>2 DEF OwnAccounts, Tick, vars
<1>3. ASSUME NEW j \in Jobs, Tokens(j)
      PROVE  OwnAccounts'
  <2>1. PICK phase, bearer : job' = [job EXCEPT ![j] = [@ EXCEPT !.phase = phase, !.bearer = bearer]]
    BY <1>3 DEF Tokens, TakeCached, Fetch, Arrive, Keep
  <2>2. /\ \A k \in Jobs \ {j} : job'[k] = job[k]
        /\ job'[j].step = job[j].step /\ job'[j].kind = job[j].kind
        /\ job'[j].input = job[j].input /\ job'[j].found = job[j].found
    BY <2>1 DEF Shaped, Fields
  <2> QED BY <1>1, <2>2 DEF OwnAccounts
<1>4. ASSUME NEW j \in Jobs, NEW next, Moves(j, next)
      PROVE  OwnAccounts'
  <2>1. /\ \A k \in Jobs \ {j} : job'[k] = job[k]
        /\ job'[j] = next
    BY <1>4 DEF Shaped, Moves, Move
  <2>2. SUFFICES ASSUME next.kind = "register", next.step \in {"lookup", "verify", "done"}
                 PROVE  /\ \E a \in accounts' : a.by = j /\ a.email = next.input.email
                        /\ next.step \in {"verify", "done"} => next.found = j
    BY <1>1, <2>1 DEF OwnAccounts
  <2>3. job[j].kind = "register"
    BY <1>4, <2>2 DEF Moves, Register, Lookup, Verify, Labels, Labelled, Over
  <2>4. CASE Register(j)
    <3>1. next = To(j, "lookup") /\ ~Conflict(j)
      BY <2>1, <2>2, <2>4, Tos DEF Register, Answer, Move, Shaped
    <3>2. next.step = "lookup" /\ next.input = job[j].input
      BY <3>1, Tos
    <3>3. [email |-> job[j].input.email, name |-> job[j].input.name, by |-> j,
           verified |-> ~Serving(j).verification] \in accounts'
      BY <2>4, <3>1 DEF Register
    <3> QED BY <3>2, <3>3
  <2>5. CASE Lookup(j)
    <3>1. PICK a \in accounts, label \in {"verify", "done"} :
            /\ a.email = job[j].input.email
            /\ next = [To(j, label) EXCEPT !.found = a.by]
      BY <2>1, <2>5 DEF Lookup, Move, Shaped
    <3>2. next.input = job[j].input /\ next.found = a.by
      BY <3>1, Tos DEF Plain, Fields
    <3>3. PICK b \in accounts : b.by = j /\ b.email = job[j].input.email
      BY <2>3, <2>5 DEF Lookup, OwnAccounts
    <3>4. a.by = j
      BY <3>1, <3>3 DEF OwnAccounts
    <3> QED BY <1>1, <3>2, <3>3, <3>4
  <2>6. CASE Verify(j)
    <3>1. next = To(j, "done")
      BY <2>1, <2>6 DEF Verify, Move, Shaped
    <3>2. next.input = job[j].input /\ next.found = job[j].found
      BY <3>1, Tos
    <3> QED BY <1>1, <2>3, <2>6, <3>2 DEF Verify, OwnAccounts
  <2> QED BY <1>4, <2>2, <2>4, <2>5, <2>6 DEF Moves
<1> QED BY <1>2, <1>3, <1>4, Kinds

\* Who is told that they registered is told of their own account.
THEOREM RegistrationsAnswerOwn == Spec => []RegisterAnswersOwn
<1>1. Init => Shaped /\ Labels /\ OwnAccounts
  BY FrameInit, OwnInit
<1>2. Shaped /\ Labels /\ OwnAccounts /\ [Next]_vars => (Shaped /\ Labels /\ OwnAccounts)'
  BY FrameStep, OwnStep
<1>3. OwnAccounts => RegisterAnswersOwn
  BY DEF OwnAccounts, RegisterAnswersOwn
<1> QED BY <1>1, <1>2, <1>3, PTL DEF Spec

-----------------------------------------------------------------------------
(* Saves.                                                                  *)

\* Nothing else saves or deletes since j began; then the row that j found is still
\* there, and so is what j wrote.
Alone(j) == \A k \in Jobs \ {j} :
    job[k].step # "idle" /\ job[k].kind \in {"save", "delete"} => k \in job[j].before

Stays ==
    /\ row \in Row \cup {None}
    /\ \A j \in Jobs : job[j].kind = "save" /\ Alone(j) =>
          /\ job[j].step = "replace" => row # None /\ row.id = job[j].found
          /\ job[j].step = "done" => row # None /\ row.value = j

LEMMA StaysInit == ASSUME Init PROVE Stays
BY DEF Init, Stays, NoJob

\* Who writes the row.
LEMMA RowSteps ==
    ASSUME [Next]_vars
    PROVE  \/ UNCHANGED row
           \/ \E j \in Jobs : Write(j) \/ Replace(j) \/ Insert(j) \/ Delete(j)
BY DEF Next, vars, Tick, AdminStep, Command, ServerStart, Request,
   RegisterStart, Register, Lookup, Verify, SaveStart, DeleteStart, Look

LEMMA RowsStay ==
    ASSUME row \in Row \cup {None}, [Next]_vars
    PROVE  row' \in Row \cup {None}
BY RowSteps DEF Row, Write, Replace, Insert, Delete

\* A job that began is of the same kind for good.
LEMMA KindsStay ==
    ASSUME Shaped, Labels, [Next]_vars, NEW k \in Jobs, job[k].step # "idle"
    PROVE  job'[k].step # "idle" /\ job'[k].kind = job[k].kind
<1>1. CASE Tick \/ UNCHANGED vars
  BY <1>1 DEF Tick, vars
<1>2. ASSUME NEW j \in Jobs, Tokens(j)
      PROVE  job'[k].step # "idle" /\ job'[k].kind = job[k].kind
  <2>1. PICK phase, bearer : job' = [job EXCEPT ![j] = [@ EXCEPT !.phase = phase, !.bearer = bearer]]
    BY <1>2 DEF Tokens, TakeCached, Fetch, Arrive, Keep
  <2> QED BY <2>1 DEF Shaped, Fields
<1>3. ASSUME NEW j \in Jobs, NEW next, Moves(j, next)
      PROVE  job'[k].step # "idle" /\ job'[k].kind = job[k].kind
  BY <1>3 DEF Moves, Move, Shaped, Labelled, Over
<1> QED BY <1>1, <1>2, <1>3, Kinds

LEMMA AloneBefore ==
    ASSUME Shaped, Labels, [Next]_vars, NEW j \in Jobs, Alone(j)', job'[j].before = job[j].before
    PROVE  Alone(j)
BY KindsStay DEF Alone

\* While another job takes a step.
LEMMA StaysBeside ==
    ASSUME Shaped, Labels, Stays, [Next]_vars, NEW j \in Jobs, job'[j] = job[j],
           job[j].kind = "save", Alone(j)'
    PROVE  /\ job[j].step = "replace" => row' # None /\ row'.id = job[j].found
           /\ job[j].step = "done" => row' # None /\ row'.value = j
<1>1. Alone(j)
  BY AloneBefore
<1>2. ASSUME NEW k \in Jobs, Write(k) \/ Replace(k) \/ Insert(k) \/ Delete(k)
      PROVE  FALSE
  <2>1. job'[k].step \in Over /\ job[k].step \in {"write", "replace", "insert", "delete"}
    BY <1>2, Tos DEF Write, Replace, Insert, Delete, Move, Shaped, Over
  <2>2. k # j /\ k \notin job[j].before
    BY <2>1 DEF Labels, Past, Over
  <2>3. job[k].kind \in {"save", "delete"}
    BY <2>1 DEF Labels, Labelled, Over
  <2> QED BY <1>1, <2>1, <2>2, <2>3 DEF Alone
<1>3. UNCHANGED row
  BY <1>2, RowSteps
<1> QED BY <1>1, <1>3 DEF Stays

LEMMA StaysStep ==
    ASSUME Shaped, Labels, Stays, [Next]_vars
    PROVE  Stays'
<1> SUFFICES ASSUME NEW j \in Jobs, job'[j].kind = "save", Alone(j)'
             PROVE  /\ job'[j].step = "replace" => row' # None /\ row'.id = job'[j].found
                    /\ job'[j].step = "done" => row' # None /\ row'.value = j
  BY RowsStay DEF Stays, Alone
<1>1. CASE job'[j] = job[j]
  BY <1>1, StaysBeside
<1>2. ASSUME NEW next, Moves(j, next)
      PROVE  /\ job'[j].step = "replace" => row' # None /\ row'.id = job'[j].found
             /\ job'[j].step = "done" => row' # None /\ row'.value = j
  <2>1. job'[j] = next
    BY <1>2 DEF Moves, Move, Shaped
  <2>2. CASE Look(j)
    <3>1. CASE row = None
      <4>1. next.step = "insert"
        BY <2>1, <2>2, <3>1, Tos DEF Look, Move, Shaped
      <4> QED BY <2>1, <4>1
    <3>2. CASE row # None
      <4>1. next = [To(j, "replace") EXCEPT !.found = row.id]
        BY <2>1, <2>2, <3>2 DEF Look, Move, Shaped
      <4>2. next.step = "replace" /\ next.found = row.id
        BY <4>1, Tos DEF Plain, Fields
      <4>3. UNCHANGED row
        BY <2>2 DEF Look
      <4> QED BY <2>1, <3>2, <4>2, <4>3
    <3> QED BY <3>1, <3>2
  <2>3. CASE Write(j) \/ Insert(j)
    <3>1. next.step \in {"done", "failed"}
      BY <2>1, <2>3, Tos DEF Write, Insert, Move, Shaped
    <3>2. ASSUME next.step = "done"
          PROVE  row' \in Row /\ row'.value = j
      <4>1. CASE Write(j)
        BY <4>1 DEF Write, Stays, Row
      <4>2. CASE Insert(j)
        BY <2>1, <3>2, <4>2, Tos DEF Insert, Move, Shaped, Row
      <4> QED BY <2>3, <4>1, <4>2
    <3> QED BY <2>1, <3>1, <3>2, RowAssumption
  <2>4. CASE Replace(j)
    <3>1. next = To(j, "done")
      BY <2>1, <2>4 DEF Replace, Move, Shaped
    <3>2. Alone(j)
      BY <2>1, <3>1, Tos, AloneBefore
    <3>3. row # None /\ row.id = job[j].found
      BY <1>2, <2>4, <3>2 DEF Moves, Replace, Stays, Labels, Labelled, Over
    <3>4. row' \in Row /\ row'.value = j
      BY <2>4, <3>3 DEF Replace, Stays, Row
    <3> QED BY <2>1, <3>1, <3>4, Tos, RowAssumption
  <2> QED BY <1>2, <2>1, <2>2, <2>3, <2>4 DEF Moves
<1>3. ASSUME NEW k \in Jobs, Tokens(k)
      PROVE  job'[j] = job[j] \/ job'[j].step \in Calls
  <2>1. PICK phase, bearer : job' = [job EXCEPT ![k] = [@ EXCEPT !.phase = phase, !.bearer = bearer]]
    BY <1>3 DEF Tokens, TakeCached, Fetch, Arrive, Keep
  <2>2. job[k].step \in Calls
    BY <1>3 DEF Tokens, TakeCached, Fetch, Arrive, Keep, Shaped, Plain
  <2> QED BY <2>1, <2>2 DEF Shaped, Fields
<1>4. ASSUME NEW k \in Jobs, NEW next, Moves(k, next)
      PROVE  job'[j] = job[j] \/ Moves(j, next)
  BY <1>4 DEF Moves, Move, Shaped
<1>5. Tick \/ UNCHANGED vars => job'[j] = job[j]
  BY DEF Tick, vars
<1>6. "replace" \notin Calls /\ "done" \notin Calls
  BY DEF Calls
<1> QED BY <1>1, <1>2, <1>3, <1>4, <1>5, <1>6, Kinds

\* A value whose save was acknowledged stays, if nothing else saves or deletes.
THEOREM SavesStay == Spec => []SavedDataStays
<1>1. Init => Shaped /\ Labels /\ Stays
  BY FrameInit, StaysInit
<1>2. Shaped /\ Labels /\ Stays /\ [Next]_vars => (Shaped /\ Labels /\ Stays)'
  BY FrameStep, StaysStep
<1>3. Stays => SavedDataStays
  BY DEF Stays, Alone, SavedDataStays
<1> QED BY <1>1, <1>2, <1>3, PTL DEF Spec

=============================================================================
