--------------------------- MODULE MCAuthService ---------------------------
(* Small instances of the service for TLC.                                 *)
EXTENDS AuthService, TLC

\* Requests and users are interchangeable: no formula names one.
Symmetry == Permutations(Requests) \cup Permutations(Users)
RequestSymmetry == Permutations(Requests)
=============================================================================
