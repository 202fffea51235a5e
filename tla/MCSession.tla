------------------------------ MODULE MCSession ------------------------------
(* Instances of Session for TLC. *)
EXTENDS Session

MCRunning == <<0, 9, 9>>
MCReleases == {<<0, 10>>, <<0, 8, 10>>}
=============================================================================
