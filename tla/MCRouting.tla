------------------------------- MODULE MCRouting -------------------------------
(***************************************************************************)
(* Instances of Routing for TLC.                                            *)
(***************************************************************************)
EXTENDS Routing

CONSTANTS eth, lan

\* A route of the host, to a destination that has no managed route.
OneForeign == {[dest |-> lan, hop |-> eth, metric |-> 1]}
NoForeign == {}

\* Identifiers and requests differ in nothing but their name.
Symmetry == Permutations(Ids) \cup Permutations(Requests)
=============================================================================
