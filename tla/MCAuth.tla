-------------------------------- MODULE MCAuth --------------------------------
(***************************************************************************)
(* Instances of Auth for TLC.                                               *)
(***************************************************************************)
EXTENDS Auth, TLC

\* Requests, identifiers and the names but for "admin" differ in nothing else.
Symmetry ==
    Permutations(Requests) \cup Permutations(Ids) \cup Permutations(Sessions)
    \cup Permutations(Names \ {Admin}) \cup Permutations(Passwords \ {Default})
=============================================================================
