----------------------------- MODULE MCGateway -----------------------------
(* Small instances of the HTTP side for TLC.                               *)
EXTENDS Gateway, TLC

\* Only is SelectSeq on short sequences.
ASSUME OnlySelects ==
    \A n \in 0..4 : \A s \in [1..n -> 1..3], S \in SUBSET (1..3) :
        Only(s, S) = SelectSeq(s, LAMBDA x : x \in S)

\* The defaults; everything opted in or out of; and a host under a prefix.
Default == [csrf |-> FALSE, authGuard |-> TRUE, rateLimit |-> TRUE,
            health |-> TRUE, prefix |-> FALSE]
MCConfigurations == {
    Default,
    [csrf |-> TRUE, authGuard |-> FALSE, rateLimit |-> FALSE,
     health |-> FALSE, prefix |-> FALSE],
    [Default EXCEPT !.prefix = TRUE]}

\* Requests, clients and users are interchangeable.
Symmetry == Permutations(Requests) \cup Permutations(Clients) \cup Permutations(Users)
=============================================================================
