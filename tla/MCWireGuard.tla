------------------------------ MODULE MCWireGuard ------------------------------
(***************************************************************************)
(* Instances of WireGuard for TLC. A site has a remote network that holds    *)
(* the address of a client of the same interface.                           *)
(***************************************************************************)
EXTENDS WireGuard

Ipv4(first, last) == [family |-> 4, first |-> first, last |-> last]

Remote(address) ==
    [mode |-> "remote-access", clientAddress |-> {address}, clientIpv6Address |-> {},
     remoteNetworks |-> {}, serverAllowedIps |-> {address}]
Site(address, networks) ==
    [mode |-> "site-to-site", clientAddress |-> {address}, clientIpv6Address |-> {},
     remoteNetworks |-> networks, serverAllowedIps |-> {}]

MCInputs == {Remote(Ipv4(11, 11)), Site(Ipv4(3, 3), {Ipv4(8, 11)})}

Symmetry == Permutations(Keys) \cup Permutations(Requests)
=============================================================================
