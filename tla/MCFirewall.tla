------------------------------ MODULE MCFirewall ------------------------------
(***************************************************************************)
(* Instances of Firewall for TLC. A .cfg chooses one of three layouts of    *)
(* the hooks: the code's four; two of them, one of each kind of parent      *)
(* chain; or one. There is at most one rule of each kind: p1 for IPv4, n1   *)
(* and i1 for both families, and netB has no IPv6 subnet.                   *)
(***************************************************************************)
EXTENDS FirewallRefinement

CONSTANTS p1, n1, i1, netA, netB

\* FORWARD and INPUT of IPv4, FORWARD and INPUT of IPv6.
FourForward == {1, 3}
FourEssential == {4}

\* FORWARD of IPv4 and INPUT of IPv6.
TwoForward == {1}
TwoEssential == {2}

\* INPUT of IPv6 only.
OneHook == {1}
NoHook == {}

MCKind == [r \in Rules |->
    CASE r = p1 -> "published" [] r = n1 -> "network" [] r = i1 -> "input"]
MCRuleHooks == [r \in Rules |->
    CASE r = p1 -> {1} \cap ForwardHooks [] r = n1 -> ForwardHooks [] r = i1 -> Hooks \ ForwardHooks]
MCRuleNetworks == [r \in Rules |-> IF r = n1 THEN {netA, netB} ELSE {}]
MCNetworkHooks == [n \in Networks |-> IF n = netA THEN ForwardHooks ELSE {1} \cap ForwardHooks]
MCFlowHook == [f \in Flows |-> 1]
MCFlowRules == [f \in Flows |-> {p1} \cap Rules]
=============================================================================
