------------------------------ MODULE Requests ------------------------------
(***************************************************************************)
(* What a running server does for a request with Keycloak's admin API, the *)
(* registration of a user, and with the user data of its token store: the  *)
(* stores of the package and of the Prisma and Drizzle examples save a     *)
(* value in one step, the TypeORM example looks for the row first.         *)
(***************************************************************************)
EXTENDS Startup

CONSTANTS
    Emails, Names,
    NotAnEmail,     \* what Email.create rejects
    Passwords       \* passwords, by the demands of Password.create they meet

VARIABLE row        \* the user's row for one key: its id and value, or None

Row == [id : Jobs, value : Jobs]

ASSUME RowAssumption == None \notin Row

Demands == {"length", "upper", "lower", "digit", "special"}

Serving(j) == job[job[j].server].options

\* A request reaches a running server.
Arrives(j, s, what, label, input) ==
    /\ Idle(j) /\ At(s, "running")
    /\ Move(j, IF label = "failed" THEN Ended(what, "failed")
               ELSE [First(j, what, label) EXCEPT !.server = s, !.input = input])

-----------------------------------------------------------------------------
(* RegisterUseCase and the provider's register.                            *)

Acceptable(input) == input.email # NotAnEmail /\ input.password = Demands

RegisterStart(j) ==
    /\ \E s \in Jobs, input \in [email : Emails \cup {NotAnEmail}, name : Names,
                                 password : Passwords] :
          Arrives(j, s, "register", IF Acceptable(input) THEN "register" ELSE "failed",
                  input)
    /\ UNCHANGED <<now, keycloak, file, row>>

\* Keycloak has at most one user of an e-mail and of a name (409).
Conflict(j) ==
    \E a \in accounts : a.email = job[j].input.email \/ a.name = job[j].input.name

\* mapAdminError turns a 409 into an error.  (Wrong: the user is there, go on.)
WrongRegister(j) ==
    /\ At(j, "register") /\ Accepted(j)
    /\ IF Conflict(j) THEN Move(j, To(j, "lookup")) /\ UNCHANGED accounts
       ELSE /\ accounts' = accounts \cup {[email |-> job[j].input.email,
                  name |-> job[j].input.name, by |-> j,
                  verified |-> ~Serving(j).verification]}
            /\ Answer(j, To(j, "lookup"))
    /\ UNCHANGED <<now, realm, clients, file, row>>
Register(j) ==
    /\ At(j, "register") /\ Accepted(j)
    /\ IF Conflict(j) THEN Move(j, To(j, "failed")) /\ UNCHANGED accounts
       ELSE /\ accounts' = accounts \cup {[email |-> job[j].input.email,
                  name |-> job[j].input.name, by |-> j,
                  verified |-> ~Serving(j).verification]}
            /\ Answer(j, To(j, "lookup"))
    /\ UNCHANGED <<now, realm, clients, file, row>>

\* getUserByEmail.
Lookup(j) ==
    /\ At(j, "lookup") /\ Accepted(j)
    /\ \E a \in accounts :
          /\ a.email = job[j].input.email
          /\ Move(j, [To(j, IF Serving(j).verification THEN "verify" ELSE "done")
                        EXCEPT !.found = a.by])
    /\ UNCHANGED <<now, keycloak, file, row>>

\* sendVerifyEmail: an error is logged, and the answer is the same.
Verify(j) ==
    /\ At(j, "verify")
    /\ Move(j, To(j, "done"))
    /\ UNCHANGED <<now, keycloak, file, row>>

-----------------------------------------------------------------------------
(* saveUserData and deleteUserData.                                        *)

SaveStart(j) ==
    /\ \E s \in Jobs :
          /\ At(s, "running")
          /\ Arrives(j, s, "save", IF job[s].options.atomic THEN "write" ELSE "look", None)
    /\ UNCHANGED <<now, keycloak, file, row>>

DeleteStart(j) ==
    /\ \E s \in Jobs : Arrives(j, s, "delete", "delete", None)
    /\ UNCHANGED <<now, keycloak, file, row>>

\* upsert.  (Wrong: leaves a row that is there as it is.)
WrongWrite(j) ==
    /\ At(j, "write")
    /\ row' = IF row = None THEN [id |-> j, value |-> j] ELSE row
    /\ Move(j, To(j, "done"))
    /\ UNCHANGED <<now, keycloak, file>>
Write(j) ==
    /\ At(j, "write")
    /\ row' = IF row = None THEN [id |-> j, value |-> j] ELSE [row EXCEPT !.value = j]
    /\ Move(j, To(j, "done"))
    /\ UNCHANGED <<now, keycloak, file>>

\* findOne ...
Look(j) ==
    /\ At(j, "look")
    /\ Move(j, IF row = None THEN To(j, "insert")
               ELSE [To(j, "replace") EXCEPT !.found = row.id])
    /\ UNCHANGED <<now, keycloak, file, row>>

\* ... then update by the id found, which may be gone ...
Replace(j) ==
    /\ At(j, "replace")
    /\ row' = IF row # None /\ row.id = job[j].found THEN [row EXCEPT !.value = j] ELSE row
    /\ Move(j, To(j, "done"))
    /\ UNCHANGED <<now, keycloak, file>>

\* ... or insert, which the unique index refuses if a row is there by now.
Insert(j) ==
    /\ At(j, "insert")
    /\ IF row = None THEN row' = [id |-> j, value |-> j] /\ Move(j, To(j, "done"))
       ELSE UNCHANGED row /\ Move(j, To(j, "failed"))
    /\ UNCHANGED <<now, keycloak, file>>

Delete(j) ==
    /\ At(j, "delete")
    /\ row' = None
    /\ Move(j, To(j, "done"))
    /\ UNCHANGED <<now, keycloak, file>>
=============================================================================
