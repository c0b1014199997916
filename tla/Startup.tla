------------------------------ MODULE Startup ------------------------------
(***************************************************************************)
(* The start of a server with AuthModule: the options are validated, the   *)
(* consumer's store, sender and renderer are bound, and NestJS builds the  *)
(* providers, each once everything it injects is built, otherwise in any   *)
(* order.  Whatever throws on the way ends the start.                      *)
(***************************************************************************)
EXTENDS RealmTool

CONSTANTS
    Options,        \* the configurations servers are started with
    MaxServers      \* bound on the servers

\* The templates the package renders, and the ways to give a dependency: None is
\* undefined, {} a bare instance, otherwise the keys of the descriptor.
Templates == {"welcome", "forgot", "magic", "verify"}
Forms     == {"useValue", "useClass", "useExisting", "useFactory"}
Given     == {None} \cup SUBSET Forms

\* What a host may configure: Keycloak's client inline or by the path of the file,
\* the two secrets and lifetimes of tokens, e-mail, baseUrl by its scheme,
\* requireEmailVerification, and the dependencies, of which the store saves user
\* data in one step or not, and the renderer knows some of the templates.
Text == {None} \cup STRING
Configuration ==
    [inline : BOOLEAN, path : BOOLEAN, access : Text, refresh : Text,
     accessLife : {None} \cup [num : Int, unit : STRING],
     refreshLife : {None} \cup [num : Int, unit : STRING],
     email : BOOLEAN, baseUrl : Text, verification : BOOLEAN,
     store : Given, atomic : BOOLEAN, sender : Given,
     renderer : Given, renders : SUBSET Templates]

ASSUME OptionsAssumption == Options \subseteq Configuration

-----------------------------------------------------------------------------
(* validateAuthModuleOptions.                                              *)

\* Secrets by name; those shorter than 32 characters are this one.
Short == "short"

\* parseDurationSeconds: <number><unit>.
Parses(text) == text # None /\ text.num \in Nat /\ text.unit \in {"s", "m", "h", "d"}

Strong(secret) == secret \notin {None, Short}

Valid(o) ==
    /\ o.inline \/ o.path
    /\ Strong(o.access) /\ Strong(o.refresh) /\ o.access # o.refresh
    /\ Parses(o.accessLife) /\ Parses(o.refreshLife)
    /\ o.sender # None \/ o.email
    /\ o.baseUrl \in {None, "http"}

-----------------------------------------------------------------------------
(* resolveProvidable and createInfrastructureProviders.                    *)

\* An empty descriptor is an instance; of several keys the first of these counts.
Resolve(given) ==
    IF given = None THEN "fallback"
    ELSE IF given = {} THEN "useValue"
    ELSE Head(SelectSeq(<<"useValue", "useClass", "useExisting", "useFactory">>,
                        LAMBDA form : form \in given))

Parts == {"options", "store", "sender", "renderer", "provider", "rest"}

\* What each provider injects, the JWT service counted with the Keycloak provider,
\* and the source of the renderer with its check; the rest are the guards, the use
\* cases and the controllers.  (Wrong: the default sender takes the options as they came.)
WrongInject(o) ==
    [p \in Parts |->
       CASE p \in {"options", "store", "sender", "renderer"} -> {}
         [] p = "provider" -> {"options", "store"}
         [] p = "rest"     -> Parts \ {"rest"}]
Inject(o) ==
    [p \in Parts |->
       CASE p \in {"options", "store", "renderer"} -> {}
         [] p = "sender"   -> IF Resolve(o.sender) = "fallback" THEN {"options"} ELSE {}
         [] p = "provider" -> {"options", "store"}
         [] p = "rest"     -> Parts \ {"rest"}]

\* validateEmailRenderer asks the renderer for every template.
Renders(o) == IF Resolve(o.renderer) = "fallback" THEN Templates ELSE o.renders

\* Where the provider's factory finds Keycloak's client: in the options, which it
\* takes as they are, right or wrong (None), or first in the file as it is then.
Sources(o) ==
    IF o.inline THEN Known \cup {None}
    ELSE IF o.path /\ file # None /\ file.clients # <<>>
         THEN {CredentialsOf(Head(file.clients))} ELSE {}

CanBuild(o, p) ==
    CASE p = "options"  -> Valid(o)
      [] p = "store"    -> Resolve(o.store) # "fallback"
      [] p = "renderer" -> Templates \subseteq Renders(o)
      [] p = "provider" -> Sources(o) # {}
      [] OTHER          -> TRUE

\* A dependency given as it is has nothing left that could fail.
MayFail(o, p) ==
    \/ p \in {"store", "sender", "renderer"} /\ Resolve(o[p]) \in Forms \ {"useValue"}
    \/ p = "provider" /\ ~o.inline

-----------------------------------------------------------------------------
\* forRoot validates when the module is defined, before anything is built,
\* forRootAsync in the factory of the options.
Boot(j) ==
    /\ Idle(j) /\ Busy = {}
    /\ Cardinality({k \in Jobs : job[k].kind = "boot"}) < MaxServers
    /\ \E o \in Options :
          \/ Move(j, [First(j, "boot", "building") EXCEPT !.options = o])
          \/ Move(j, IF Valid(o)
                     THEN [First(j, "boot", "building")
                             EXCEPT !.options = o, !.built = {"options"}]
                     ELSE Ended("boot", "failed"))
    /\ UNCHANGED <<now, keycloak, file>>

Build(j, p) ==
    /\ At(j, "building")
    /\ p \notin job[j].built /\ Inject(job[j].options)[p] \subseteq job[j].built
    /\ LET o == job[j].options
           built == [job[j] EXCEPT !.built = @ \cup {p}]
           failed == Ended("boot", "failed")
       IN  \/ /\ CanBuild(o, p)
              /\ CASE p = "provider" -> \E c \in Sources(o) :
                                           Move(j, [built EXCEPT !.creds = c])
                   [] p = "rest"     -> Move(j, [built EXCEPT !.step = "running"])
                   [] OTHER          -> Move(j, built)
           \/ ~CanBuild(o, p) /\ Move(j, failed)
           \/ MayFail(o, p) /\ Move(j, failed)
    /\ UNCHANGED <<now, keycloak, file>>
=============================================================================
