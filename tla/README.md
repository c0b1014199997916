# Verification of nestjs-keycloak-auth

TLA+ models of `packages/auth`, the authentication library of this repository,
with TLC runs and TLAPS proofs. Paths below are relative to
`packages/auth/src` unless they start with `apps/`.

## 1. The system

### Components

| component | state it keeps | operations | talks to |
|---|---|---|---|
| token store (`domain/ports/token-store.port.ts`, in-memory and SQL implementations) | token records, key/value data per user | save, findByToken, markConsumed, deleteExpired, deleteAllForUser, save/get/deleteUserData | used by everything below |
| refresh, logout (`application/use-cases`) | none of their own | POST /auth/refresh, /auth/logout | store, provider |
| login, lockout, second factor (`login`, `complete-2fa-login`) | counters, locks and TOTP secrets, all in the store | POST /auth/login, /auth/2fa/complete | store, provider |
| TOTP enrolment (`setup-2fa`, `verify-2fa`) | TOTP secret in the store | POST /auth/2fa/setup, /auth/2fa/verify | provider, which uses the store |
| password reset, magic links | links in the store | POST /auth/forgot-password, /auth/reset-password, /auth/magic-link, /auth/magic-link/verify | store, provider, mail |
| Keycloak provider (`infrastructure/keycloak`) | cached admin token | authenticate, refresh, issue, reset, register, 2FA | Keycloak, JWT service, store |
| JWT service | none | sign, verify | - |
| registration | account in Keycloak | POST /auth/register | provider |
| controllers, cookies | the browser's refresh and CSRF cookies | every endpoint; events after success | use cases, event bus |
| guards | none | access token, public routes, CSRF, throttling | JWT service |
| event bus | handlers by event name | on, off, emit, removeAll | the host's handlers |
| module set-up | the providers NestJS builds | option validation, injection | the host's store, sender, renderer |
| command-line tool | Keycloak's realm, the realm file, a cached admin token | init, export, import | Keycloak |

### What is hard here

* Node switches between requests at every `await`. Each use case reads a
  record, awaits, and acts on what it read. Only `markConsumed` is atomic.
* Revocation deletes what the store holds at that moment. A request past its
  check saves its session afterwards.
* Counters and TOTP secrets are read, then written, in separate calls; the
  TypeORM store does the same inside one `saveUserData`.
* Any call can throw half way: a token is consumed and nothing is issued, or a
  password is changed and nothing is revoked. An event handler of the host that
  throws fails a request whose session is already saved.
* Answers reach the browser late, out of order or never, and the cookie it
  sends next is that of the last answer it got.
* A restart empties the in-memory store while the JWTs it signed live on.
* Clocks: records expire by the millisecond, JWTs by the whole second, and two
  JWTs of one user and second are the same string. Admin tokens are counted from
  the arrival of Keycloak's answer, not from when they were granted.
* Two imports, an export and running servers may use one realm at the same time,
  and nothing is undone when one of them stops half way.
* NestJS builds providers in any order that their injections allow.

`PROJECT.json` lists the hazards by line, with the properties that cover each or
the reason why none does.

## 2. Modules

There are three groups: the service behind the endpoints, the HTTP side in front
of it, and the deployment around both.

| module | models |
|---|---|
| `TokenLifecycle` | the abstract specification of single-use tokens: unissued, live, used, void |
| `TokenStore` | the table of token records; each operation one atomic statement |
| `AuthState` | all variables of the service, the frame of a request (arrive, claim, consume, issue, save, revoke), clock, purge job, failures, restart |
| `SessionFlows` | `refresh-token.use-case.ts`, `logout.use-case.ts`, the provider's `refreshToken` |
| `LoginFlows` | `login.use-case.ts`, `complete-2fa-login.use-case.ts`, `setup2FA` and `verify2FA` of the provider |
| `RecoveryFlows` | forgot, reset, magic link, verify |
| `AuthService` | all handlers interleaved; the specification and its properties |
| `Filtering` | `Array.prototype.filter`, as a recursive function |
| `Gateway` | browsers and cookies, the guards, both controllers, the event bus |
| `Keycloak` | Keycloak's realm as its admin API shows it, the admin token cache, `adminRequest` |
| `RealmTool` | init, export and import, call by call |
| `Startup` | validation of options, bindings, the building of providers |
| `Requests` | registration, and `saveUserData` and `deleteUserData` of both kinds of store |
| `Deployment` | commands, server starts and requests interleaved; properties |
| `MCAuthService`, `MCGateway`, `MCDeployment` | symmetry sets and configurations for TLC |
| `AuthServiceProofs`, `RevocationProofs`, `LockoutProofs`, `RefinementProofs`, `FilteringProofs`, `GatewayProofs`, `DeploymentProofs`, `ImportProofs` | the theorems |

    TokenStore <- AuthState <- SessionFlows, LoginFlows, RecoveryFlows
               <- AuthService <- MCAuthService
                              <- AuthServiceProofs <- RevocationProofs
                                                   <- LockoutProofs
                                                   <- RefinementProofs
    Filtering <- Gateway, RealmTool, FilteringProofs
    Gateway   <- MCGateway, GatewayProofs
    Keycloak  <- RealmTool <- Startup <- Requests <- Deployment
                 Deployment <- MCDeployment, DeploymentProofs <- ImportProofs
    FilteringProofs <- GatewayProofs, ImportProofs

`AuthService` and `Gateway` are joined by `TokenLifecycle`: the service is shown
to implement it, and the gateway takes its steps for what the use cases do to
sessions. So the gateway's model is small enough for cookies, guards and handlers
to interleave, and what it assumes of the service is a theorem.

An operator named `Wrong...` is used by no specification. It is a plausible
mistake in the operator after it, and shows that a property notices it.

### The service

`tokens` is the table, `totp`, `failed` and `locked` are the values kept with
`saveUserData`, `password` counts the resets Keycloak has performed. A request is
a process: `pc[r]` names the call it makes next, and `subject`, `found`, `issued`
and `count` are the locals of the use case. A request saves at most one record,
so the record has the request's name. An action is the code from one `await` to
the next together with the call it awaits; lookups of users in Keycloak change
nothing and are merged. A secret in someone's hands (`Holding`) may be presented
at any endpoint any number of times, which covers retries, duplicated requests
and theft.

*History.* `spent`, `proof`, `factor`, `overlap` and `racing` are read by no action.
`proof` is the password version at the proof of identity a session goes back to;
`overlap` holds the requests that were in flight when their user's tokens were
revoked, and the requests that act on records of such requests; `racing` holds the
logins that were in flight when their account was locked, and the set-ups that were
about to save a TOTP secret when another saved one.

*Time.* `now` counts whole seconds. Stored deadlines have milliseconds, so within
the second of the deadline a comparison may go either way (`MaybeExpired`,
`MaybeFresh`); JWT deadlines are whole seconds and exact.

*Failure.* `Fail(r)` ends a request before any of its awaited calls: Keycloak or
the database throws. Effects so far remain. A call that took effect and
then throws is that step followed by `Fail`. This does not work for the last call
of a handler, whose step ends the request. Where a session was to be answered,
that step has a second end (`SaveSession`): the record is there and the client has
an error (`orphaned`, `refresh.orphaned`). The other last steps (the mail of a link,
the deletion of a reset, of a counter) end with what was done, whether or not that
was answered. `Restart` (with `Volatile`, the in-memory store) empties the store
and ends what is under way.

### The HTTP side

A request goes from `Send` (what the browser has at that moment) over the guards
in the order in which NestJS runs them (`Admit`), the handler, and for a refresh
the steps `Rotate` and `Rotated`, to `emit`, where every handler subscribed then
is called, and `await`, until all have settled. The answer sets or clears the
cookie and is received late, in any order, or lost. The save of a session may take
effect and then throw (`Open`): such a request is in the history variable `torn`, and
answers with an error and no cookie. `options` is the host's set-up:
`csrf.enabled`, `globals.authGuard`, `rateLimit`, `healthCheck`, and whether it
calls `setGlobalPrefix`. A session is named by the request that opened it.

### The deployment

Whatever is run is a job. Most of its steps are admin calls, each in three
phases: pick the cached token or ask for one (`TakeCached`, `Fetch`), get the
answer and cache it (`Arrive`), call. The call reaches Keycloak with a token that
is still good and has its effect, and then its answer arrives or is lost, or it
fails before it has any. `realm`, `clients` and `accounts` are Keycloak's data,
each with the job that wrote it last; a secret is named by who drew it. Keycloak grants an
admin token to a client that knows its secret, is enabled, is confidential and has a
service account (the last two are one switch, `service`), in a realm that is enabled
(`Granted`). `file` is `keycloak-realm.json`: it says of the realm whether it is
enabled, and of each client its secret and both switches, or leaves any of this out,
which Keycloak then leaves as it is (`Heed`) or sets to its default (`Created`). The
constant `Handwritten` holds the files that people may have written; the realm may
have been made from another of them than the one that is there now. What else a file
says (redirect URIs, the realm's mail server) is passed on and read by nothing here,
nor are the roles of a service account. `built` are the providers a starting server
has.

## 3. Runs

| run | instance | checks |
|---|---|---|
| `sessions` | login, refresh, logout; 4 requests, 2 users, time 0..1 | `SingleUse`, `ReuseEvicts`, `NoPrematureLock`, `LockHolds`, `OnlyMiscountsDefer`, `NoResurrection` |
| `accounts` | all nine endpoints; 4 requests, 1 user, in-memory store with restarts | `ResetEvicts`, `Entitled`, `LoginNeedsSecondFactor`, `LateSetupsRefused`, `ImplementsLifecycle`, `HandlersAdvance` |
| `everything` | all nine endpoints; 3 requests, 1 user, time 0..1, restarts | `TypeOK`, `EveryRequestEnds` |
| `gateway` | 3 requests, 1 client, 2 users, 3 configurations, 1 handler subscribed up to twice | `TypeOK`, `SessionReachesClient`, `CookieFollowsSession`, `HandlersFinish`, `ProtectedRoutes` |
| `deployment` | 3 jobs, 2 clients of the host, 3 handwritten files, 6 configurations, 2 e-mails, 1 name, time 0..2 | `TypeOK`, `AdminTokenInTime`, `ServersKeepAccess`, `ImportConverges`, `RegisterAnswersOwn`, `BuiltOnValidOptions`, `SavedDataStays` |

Deadlock is not checked: a system whose requests and jobs have all ended and whose
clock has reached its bound does stop. That no request gets stuck on the way is
`EveryRequestEnds`.

### Properties of the service

* `SingleUse`: no two requests mark the same record consumed.
* `Entitled`: a session or password change rests on a token of the right kind
  and user that this request used up.
* `NoResurrection`: nothing revoked or purged returns; consumed stays consumed.
* `ReuseEvicts`: after reuse is reported, what descends from the token is gone
  from the store, except what was in flight (`overlap`).
* `ResetEvicts`: what is stored was obtained under the current password, except
  what was in flight at the revocation, or while a reset is between its two
  writes or has failed there.
* `NoPrematureLock`: no lock before `MaxFailed` refusals were counted by some
  request.
* `OnlyMiscountsDefer`: `MaxFailed` refusals do lock, unless two of them were given
  the same number, which takes two logins between the read and the write of the
  counter. It is the other side of `lockout_race`. It speaks of accounts with
  nothing but refusals (a success deletes counter and lock), before a lock can run
  out, and of stores that outlive the server.
* `LockHolds`: while a lock is in force, a login that tries a password, or is about
  to delete the lock or the counter, was in flight when it was set. So a lock can be
  lost to a race, but not to a login that comes later, and how many passwords can be
  tried under a lock is bounded by how many logins were in flight.
* `LoginNeedsSecondFactor`: a login that came in when a secret was stored does
  not answer with tokens, also if the set-up that stored it was never answered.
* `LateSetupsRefused`: a stored secret is only replaced by a set-up that had looked
  for one before it was stored. It is the other side of `setup_race`.
* `ImplementsLifecycle`: every behaviour is one of `TokenLifecycle`, where a
  token is unissued until it is saved, live in the store, used once consumed, and
  void when its record is gone or can no longer come.
* `EveryRequestEnds`: a request whose own calls return is answered, whether or not
  those of the others do.
* `HandlersAdvance`: every step of a request leaves it fewer calls to make (`Left`,
  at most seven after the read of the lock), and none takes up an answered request.

### Properties of the HTTP side

* `SessionReachesClient`: every session a request opened goes out with its
  answer, also if an event handler throws afterwards and the answer is an error,
  unless it was the save itself that threw, after its effect; then the answer is an
  error too.
* `CookieFollowsSession`: a browser's cookie names a used session only while its
  refresh is under way, its answer lost, or an error.
* `HandlersFinish`: success is answered when every handler called has settled,
  whatever is subscribed and unsubscribed meanwhile. An error is answered at the
  first failure, while other handlers still run, as `Promise.all` has it.
* `ProtectedRoutes`: the handlers of protected routes run only for whom the guards
  should let in, under every configuration.

### Properties of a deployment

* `AdminTokenInTime`: an admin token is out of date when used only if the answer
  and the call together took longer than the margin, or than the token's life.
* `ServersKeepAccess`: a running server that could get an admin token loses that only
  by an import that has just switched off the realm, the server's client or its
  service account, as its file says. No import, of whatever file, takes the secret
  away.
* `ImportConverges`: after a successful import every client of the file is as
  this import, or one beside or after it, wrote it.
* `RegisterAnswersOwn`: who is told they registered is told of their own account.
* `BuiltOnValidOptions`: what the comments of `nestjs/auth.module.ts` take for
  granted of the options holds in every order of building, also with
  `forRootAsync`, where they are validated late.
* `SavedDataStays`: an acknowledged save with no other save or deletion since it
  began is what the store holds.

### Bounds

The service has three: `Requests`, `Users`, `MaxNow`. Lives of tokens are at
most one second, so everything can expire within `MaxNow`. The violations found need
two or three requests; three or four let a third party (a purge, a logout, a
second reset) interfere. Two users are in `sessions`, where one user's revocation
must not touch the other's tokens; elsewhere users share nothing. Time is at 0 in
`accounts`, since `everything` has the expiry of links. Users may start with a
TOTP secret that they enrolled before, which saves the requests that enrol.

`gateway` needs three requests for a login, a refresh and one that races it, one
client because jars do not meet (the theorems are for any number), two users so
that a jar can hold a second user's session, and the handler twice, because the
bus allows it. Its configurations are the defaults, everything the other way, and
a prefix. `MaxSubs` bounds how often a handler is subscribed.

`deployment` has three jobs: a server and two that race under it, or two imports and
what was there before. The files are one with a single client, one that has both and
switches the first off, and one that switches the realm off. In a realm made from the
first, with the second there now, imports create a client, and two at a time race to
do it (409); a server that runs under an import of the second or third is cut off.
`MaxBusy` (2) and `MaxServers` (1) bound what is under
way at a time; while a server starts nothing with several steps runs beside it.
`Life` 2 and `Margin` 1 with `MaxNow` 2 are the smallest values for which a token
can be too old for the cache and still good. `Tick` happens only while some token
exists, as nothing else depends on time. `Operator` is the client whose
credentials people type in. Most of these bounds are lifted by the theorems; those
in guards (`MaxBusy`, `MaxServers`, `MaxNow`, `MaxSubs`) are constants of any
size there.

### Fairness

No specification assumes fairness. `CallsReturn(r)`, weak fairness of `Step(r)`, says
of one request that the calls it awaits return and that Node then resumes its
handler. The code does not guarantee it: axios has no time limit here, and a call
that Keycloak never answers leaves its request waiting for good. So it is not a
conjunct of the specification but the hypothesis of `EveryRequestEnds`, request by
request: if `r`'s own calls return, then `r` ends. Nothing is assumed of the other
requests, whose calls may hang, nor of arrivals, ticks, the purge, failures and
restarts. What the property excludes is a branch of a handler that leads nowhere or
back, and a request that waits for another one. The gateway and the deployment state
no liveness: a handler of the host, or Keycloak, may never answer.

### Disagreements

Seven runs state what a comment or the documentation says and are violated by
what the code does. Each has a finding in `PROJECT.json`.

| run | says | happens |
|---|---|---|
| `reuse_survivor` | all sessions have been revoked | the winner of the race saves its session after the deletion |
| `reset_survivor` | revoke every existing session | a login in flight saves afterwards |
| `rotation` | refresh rotates the token | within one second the new JWT is the old one |
| `magic_factor` | no tokens without the second factor | a magic link does not ask for it |
| `setup_race` | a secret is not silently rotated | two set-ups at once: the second replaces the first |
| `lockout_race` | lockout after the maximum of failed attempts | concurrent refusals are counted once |
| `logout_cookie` | logout invalidates the refresh token | the cookie's path keeps it from reaching logout |

Three more are in the models as the code has them, with no run of their own, as each
shows in a step or two:

* `apps/docs/docs/api/guards-decorators.md` (line 19) says that `OptionalAuthGuard`
  "allows unauthenticated requests", and `optional-auth.guard.ts` (line 10) that it
  "does NOT throw". With `globals.authGuard`, which is on by default, the global guard
  refuses them first (`Guards`). On a route that is `@Public` as well it recognises
  nobody, since `JwtAuthGuard` returns before it reads the token (`Identify`).
* `apps/docs/docs/api/endpoints.md` (line 3) offers `setGlobalPrefix`, and lines 111
  and 112 say that refresh reads the cookie. Its path is fixed, so under a prefix, as
  in `apps/demo-api/src/main.ts` and the examples, no browser sends it
  (`CookieApplies`), and no session is ever refreshed.
* `apps/docs/docs/api/cli.md` (line 49) says that `import` "Creates or updates the
  realm", and a test (`packages/auth/test/cli/commands/import.spec.ts`, line 49) that
  it creates a missing one, with a mocked token. `createRealm` asks for its token from
  the very realm that is to be created, which cannot grant one (`Granted`).

Noticed on the way, and in the models as the code has it:

* `import` leaves secrets out of what it sends, so a client it creates has another
  secret than the file.
* An error of any kind in `realmExists` sends `import` to `createRealm`, also when the
  realm is there; it then fails.
* A server that reads its client from an exported file takes the first one in
  it, which may be one of Keycloak's own, without a secret.
* `getClientSecret` answers null on any error, and the export succeeds.
* A verification mail that fails is logged, and the registration succeeds.
* An update of the TypeORM store may hit a row that was deleted since it was
  found; the save is acknowledged and nothing is stored.

## 4. Proofs

Every safety property of the passing runs is proved, for every set of requests, users, clients and jobs, every
configuration, every limit and life of tokens, and unbounded time.

| theorem | states | module |
|---|---|---|
| `TypeCorrect` | `Spec => []TypeOK` | `AuthServiceProofs` |
| `TokensAreSpentOnce` | `Spec => []SingleUse` | `AuthServiceProofs` |
| `SessionsAreEntitled` | `Spec => []Entitled` | `AuthServiceProofs` |
| `RevokedStaysRevoked` | `Spec => NoResurrection` | `AuthServiceProofs` |
| `RequestsAdvance` | `Spec => HandlersAdvance` | `AuthServiceProofs` |
| `LoginChallenges` | `Spec => []LoginNeedsSecondFactor` | `RevocationProofs` |
| `ResetRevokes` | `Spec => []ResetEvicts` | `RevocationProofs` |
| `ReuseRevokes` | `Spec => []ReuseEvicts` | `RevocationProofs` |
| `LockIsEarned` | `Spec => []NoPrematureLock` | `LockoutProofs` |
| `LocksHold` | `Spec => []LockHolds` | `LockoutProofs` |
| `ThresholdLocks` | `Spec => []OnlyMiscountsDefer` | `LockoutProofs` |
| `SecretsReplacedInRaces` | `Spec => []LateSetupsRefused` | `LockoutProofs` |
| `Refinement` | `Spec => ImplementsLifecycle` | `RefinementProofs` |
| `OnlyFilters` | what `Only` returns, for sequences of any length | `FilteringProofs` |
| `TypeCorrect` | `Spec => []TypeOK` | `GatewayProofs` |
| `SessionsReachClients` | `Spec => []SessionReachesClient` | `GatewayProofs` |
| `CookiesFollow` | `Spec => []CookieFollowsSession` | `GatewayProofs` |
| `SuccessAwaitsHandlers` | `Spec => []HandlersFinish` | `GatewayProofs` |
| `RoutesAreProtected` | `Spec => []ProtectedRoutes` | `GatewayProofs` |
| `TokensInTime` | `Spec => []AdminTokenInTime` | `DeploymentProofs` |
| `ServersRunOnValidOptions` | `Spec => []BuiltOnValidOptions` | `DeploymentProofs` |
| `RegistrationsAnswerOwn` | `Spec => []RegisterAnswersOwn` | `DeploymentProofs` |
| `SavesStay` | `Spec => []SavedDataStays` | `DeploymentProofs` |
| `DeploymentTypeCorrect` | `Spec => []TypeOK` | `ImportProofs` |
| `ImportsConverge` | `Spec => []ImportConverges` | `ImportProofs` |
| `ServersKeepAdminAccess` | `Spec => ServersKeepAccess` | `ImportProofs` |

The assumptions are that the null value differs from all others
(`NoneAssumption`, `JobsAssumption`, `RowAssumption`), that limits and lives are
naturals (`TtlAssumption`, `LifeAssumption`), that the host's configurations and
events are ones that exist (`HostAssumption`), that null is no admin token
(`BearerAssumption`) and no switch (`SwitchAssumption`), that handwritten files are
files (`HandwrittenAssumption`), that Keycloak lists a realm's clients in some order in which
its own client occurs (`ListingAssumption`), and, for the lockout alone, that there
are finitely many requests (`RequestsAssumption`), so that attempts can be counted.
TLC evaluates all of them.

### The service

**The invariant.** None of the properties is inductive alone. `SingleUse` could be
broken by a second `markConsumed` on a record already spent, so `IInv` says that a
spent record is no longer consumable (`Spent`). That could be broken by saving
the record again, so it adds that the request it is named after has already
answered, and requests past their save never save again. `Entitled` relates a
request to the one it got its token from, so `IInv` ties a stored record to
the request that saved it (`Records`), and a request to the record it found
(`Found`, `Used`). A random secret identifies who drew it (`Secrets`); a refresh
JWT does not, as two of one second are equal, and the proof uses only that each
was issued to the same user. `Subjects` and `Tokens` say that what an action
reads from `subject` and `issued` is there.

**The argument.** `LocalStep`, `ConsumeStep` and `SaveStep` show that the three
ways a request can touch the store keep the invariant, given facts about the
labels involved. One lemma per endpoint discharges those facts action by
action; `Inductive` puts them together. `RevokedStaysRevoked` follows from the
invariant and `StoreSteps`: every step of the service deletes records, consumes
one or saves a new one.

**Refinement.** With the same invariant each of these kinds of step is one of
`TokenLifecycle`, or leaves its variables alone. `Spent` is what makes a
`markConsumed` the use of a live token by a request that has used no other.

**Revocation.** `StepKinds` sorts every step into kinds by what it does to what
these theorems speak of: move on, save, take charge of a record, start, prove a
password, revoke. Each invariant is then shown to be kept by every kind.

* `Evicted` extends `ResetEvicts` from what is stored to the requests that have
  proved an identity and may still store something. Without that a request
  could carry an old password version past the revocation; with it, the
  revocation finds every such request either stored, and deletes it, or in
  flight, and excuses it.
* `Covered` extends `ReuseEvicts` in the same way to refreshes under way.
  `NewDescent` shows that completing a refresh adds only itself to the
  descendants of a token, and `SameUser` that all descendants are the same
  user's, which is why deleting by user is enough.
* `Challenged` says that a login that saw a secret when it came in still has one
  to see at the branch.

**Lockout.** `Counted` says that the stored counter is at most the number of
refused attempts, and `Numbered` that so is the number each attempt computed.
Lost updates only make the counter smaller, which is why it never locks early
(and may lock late: `lockout_race`). For the converse, `Deferred` says that a
refused login whose number reached the threshold has left a lock behind, unless a
login with the right password has deleted it and is still on record (`Cleared`);
that no lock ends before `Lockout`, so none is found expired before then; and that
numbers start at one. If the numbers of `MaxFailed` refusals differ, one of them
has reached the threshold, by the pigeonhole principle (`Threshold`).

**Races.** `LockHolds` and `LateSetupsRefused` are inductive with `IInv`. What lets a
login or a set-up in has read that there is nothing in its way, and what puts
something in the way notes who is past that check. Each other step is sorted by
`Elsewhere` into those of the login and those that touch neither counter nor lock.

**Progress.** `RequestsAdvance` goes through the steps of each endpoint. What is left
to TLC of `EveryRequestEnds` is that fairness makes a request take its steps.

### The HTTP side

`GInv` (theorem `GatewayInvariant`) relates three things that a step of one actor
could pull apart: a session and the answer that opens it (`Opened`: the answer has
the cookie, unless the save threw, and then it is an error), a jar and the answers its
client has received (`Jars`: the jar has the session of one of them, not always of
the newest, as an older answer may arrive later), and a used session and the refresh
that used it (`Uses`). `CookieFollowsSession` alone is not inductive: an answer
under way could put a used session back into the jar. `Uses` excludes it, since
the used one is always another than the session an answer sets, and the answer
with success replaces it for good. `Sending` keeps what a request carries tied to
what its client had received; `Admitted` carries the guards' verdict to the
handler, which works because their inputs no longer change; `Statuses` says that
success is answered last. `TypeCorrect` adds that what `off` leaves of the handlers is
a sequence of handlers again (`BusChanges`), by `OnlyFilters`.

### The deployment

Every step is the clock's, an admin token's, or one that moves a job on (`Kinds`,
from one lemma per group of actions), and keeps three invariants: a job's record
has its fields and carries a token only in an admin call (`Shaped`), a job is at a
step of its kind, and those that had ended before it began have ended for good
(`Labels`). On these rest one small invariant per theorem: `Bearers` (a cached
token is given up a margin before its end, counted from the answer, and one in use
was good when it was picked), `BuiltSoundly` (what is built has passed its check,
and what it injects is built), `OwnAccounts` (one account per e-mail, and a
registration past Keycloak's answer owns one), `Stays` (the row that a lone save
has found, or written, is still there).

**Types and imports** (`ImportProofs`). A job goes through a file or a list of clients
by position, while others rewrite file and realm. `Fits` says that the position is
inside what the job has read, and `Reads` that a client it is about to ask for is
there, which holds because clients are never deleted. `Realms` says that a realm has
Keycloak's own client, so the list an export starts from is not empty.

`ImportConverges` speaks of an import that has ended; `Imported` says the same of one
under way, for the part of the file that is behind it (`Written`). A client once
written stays written by this import or by a job that was not over when it began:
`Labels` keeps those that were over from writing (`WritersLate`), so what others write
meanwhile does not falsify it (`WrittenStays`). An import comes to its next client
only by writing one or, at the start, by having updated the realm (`ImportsGoOn`).

For `ServersKeepAccess`, `RealmSteps` says that a step leaves a realm that is switched
on, and each client in it, as they are, unless it is an import's `Update` or `Put`. A
server that can get a token has such a realm and a client in it (`Granted`), so only
these two concern it; each heeds what the file says, and `Put` keeps the secret. `ServersRest` adds that
a running server's credentials stay.

### Induction over data

`Only` is a recursive function. That it exists, and what it returns, needs induction
over the length, and the library states induction with a predicate as a parameter,
which the backends cannot instantiate. `FilteringProofs` takes the set-based form:
the order of the naturals is well-founded (`NatLessThanWellFounded`), so a non-empty
set of naturals has a least element (`LeastNat`), so a set with 0 and with n + 1 for
each n in it has all of them (`Induct`). The set is then that of the lengths for which
the function exists (`FilterExists`) or returns what it should (`OnlyFilters`). In
`MCGateway`, TLC compares `Only` with `SelectSeq` on all short sequences.

### Only model-checked

* `EveryRequestEnds`: liveness under fairness is beyond the prover.
* The violations are TLC's counterexamples.

## 5. Not modelled

* Which requests `@nestjs/throttler` turns away (any may be), TLS, hashing
  strength, cryptography. A hash is injective, signatures hold, a TOTP code is
  right or wrong.
* `disable2FA`: no code in the repository calls it, so a secret once stored
  stays.
* The counter's legacy plain-number format; rounding of durations. That `0s` is
  a valid duration is in `Startup` (`Parses`).
* An admin token that Keycloak revokes early, or loses at a restart of its own:
  no 401 clears the cache, and calls fail until the token's end.
* Rendering of mails and SMTP, prompts and flags of the command line, wording of
  errors, logging.
* The store contract suite: it is a test suite and keeps no state. The operators
  of `TokenStore` are what it demands.
* The demo, the examples and the documentation site, but for their stores and
  their global prefix.

## 6. What is left

* Nobody knows a TOTP secret whose QR code could not be drawn, and its user cannot
  log in with a password from then on. The model has the state; no document promises
  otherwise, and no code repairs it.
* How long a lock lasts under concurrent logins is bounded by `LockHolds` only as to
  who can end it: a login in flight with the right password, or one that had found an
  earlier lock expired, ends it at once.
* Liveness of the gateway and of a deployment is not stated, as the code has no
  timeouts to justify it.
