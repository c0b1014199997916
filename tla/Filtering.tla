----------------------------- MODULE Filtering -----------------------------
(* Array.prototype.filter, as a recursive function that can be reasoned about. *)
EXTENDS Naturals, Sequences

\* The elements of the sequence s that are in S, in their order.
Only(s, S) ==
    LET upTo[n \in 0..Len(s)] ==
          IF n = 0 THEN <<>>
          ELSE IF s[n] \in S THEN Append(upTo[n - 1], s[n]) ELSE upTo[n - 1]
    IN  upTo[Len(s)]
=============================================================================
