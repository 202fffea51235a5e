--------------------------- MODULE MCWireGuardAccess ---------------------------
(***************************************************************************)
(* Instances of WireGuardAccess for TLC.                                    *)
(***************************************************************************)
EXTENDS WireGuardAccess

CONSTANTS wg0, wg1, app, lan, hidden, branch

TwoInterfaces == <<wg0, wg1>>
OneFamily == <<6>>
TwoFamilies == <<4, 6>>

\* A new interface; one with a remote network, Internet access and a Docker
\* network and a LAN selected; and one with Internet access for which there is no
\* WAN interface.
Disabled == [enabled |-> FALSE, families |-> Range(Families), sites |-> {},
             docker |-> {}, lan |-> {}, internet |-> {}, nat |-> {}, wan |-> {}]
Full == [Disabled EXCEPT !.enabled = TRUE, !.sites = {branch}, !.docker = {app}, !.lan = {lan},
                         !.internet = Range(Families), !.nat = Range(Families), !.wan = Range(Families)]
NoWan == [Disabled EXCEPT !.enabled = TRUE, !.docker = {app}, !.internet = {4}]

GrantedPolicies == {Disabled, Full}
MCPolicies == {Disabled, Full, NoWan}
=============================================================================
