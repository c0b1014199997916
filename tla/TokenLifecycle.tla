--------------------------- MODULE TokenLifecycle ---------------------------
(***************************************************************************)
(* What the service promises of its single-use tokens, whichever endpoint  *)
(* issues them, however requests interleave and whatever fails: a token    *)
(* comes to life once, is redeemed by one request at most, which redeems   *)
(* no other, and once it is used or void never lives again.                *)
(***************************************************************************)
CONSTANTS
    Requests,   \* requests, and the token each may issue
    None        \* no token

VARIABLES
    life,       \* how far each token has come
    spent       \* the token each request has redeemed

vars == <<life, spent>>

Init ==
    /\ life = [i \in Requests |-> "unissued"]
    /\ spent = [r \in Requests |-> None]

\* save
Issue(i) ==
    /\ life[i] = "unissued"
    /\ life' = [life EXCEPT ![i] = "live"]
    /\ UNCHANGED spent

\* markConsumed
Spend(r, i) ==
    /\ life[i] = "live" /\ spent[r] = None
    /\ life' = [life EXCEPT ![i] = "used"]
    /\ spent' = [spent EXCEPT ![r] = i]

\* deleteAllForUser, deleteExpired, or the loss of the store; and a request that
\* fails before its token is issued.
Void(gone) ==
    /\ life' = [i \in Requests |-> IF i \in gone THEN "void" ELSE life[i]]
    /\ UNCHANGED spent

Next ==
    \/ \E i \in Requests : Issue(i)
    \/ \E r, i \in Requests : Spend(r, i)
    \/ \E gone \in SUBSET Requests : Void(gone)

Spec == Init /\ [][Next]_vars
=============================================================================
