----------------------------- MODULE WireGuardRules -----------------------------
(***************************************************************************)
(* The access policies of WireGuard interfaces (WgAccessPolicy in          *)
(* backend/src/wireguardService.ts) and the rules that applyAccessPolicies *)
(* makes of them, in the order in which it appends them to the chains       *)
(* DRM-WG-FORWARD, DRM-WG-RAW and DRM-WG-NAT of both families.              *)
(***************************************************************************)
EXTENDS Integers, SequencesExt, TLC

CONSTANTS
    Interfaces,        \* the names of the interfaces, in the order of state.json
    Families,          \* <<4, 6>>, or <<4>>
    Resources,         \* Docker networks and LANs
    Sites,             \* remote networks of site-to-site peers
    Policies,          \* the records an interface may have
    Client, Internet,  \* the clients of an interface; what is behind the WAN
    None               \* no such interface

Names == Range(Interfaces)
Sources == Sites \cup {Client}
Destinations == Resources \cup {Internet}

\* families: those of the addresses of the interface. sites: the networks of
\* its enabled site-to-site peers. wan: the families with a WAN interface. A
\* resource or a site stands for its networks of both families.
Policy == [enabled : BOOLEAN, families : SUBSET Range(Families), sites : SUBSET Sites,
           docker : SUBSET Resources, lan : SUBSET Resources,
           internet : SUBSET Range(Families), nat : SUBSET Range(Families), wan : SUBSET Range(Families)]

ASSUME PoliciesAssumption ==
    /\ Interfaces \in Seq(Names)
    /\ Families \in Seq({4, 6}) \ {<<>>}
    /\ IsInjective(Interfaces) /\ IsInjective(Families)
    /\ Policies \subseteq Policy
    /\ None \notin Policies \cup Names
    /\ IsFiniteSet(Sites)
    /\ Client \notin Sites /\ Internet \notin Resources

\* A state.json: the interfaces that are there.
Config == [Names -> Policies \cup {None}]
NoInterfaces == [i \in Names |-> None]

-----------------------------------------------------------------------------
\* Each hook is a chain of DRM and the jump to it from its parent chain.
Hook(t, f) == [table |-> t, family |-> f]
Hooks == {Hook(t, f) : t \in {"raw", "forward", "nat"}, f \in Range(Families)}

HooksOf(t) == [n \in DOMAIN Families |-> Hook(t, Families[n])]

\* The orders of ensureAccessChains and of the flushes.
JumpOrder == HooksOf("raw") \o HooksOf("forward") \o HooksOf("nat")
FlushOrder ==
    FlattenSeq([n \in DOMAIN Families |->
        LET tables == IF Families[n] = 4 THEN <<"forward", "nat", "raw">> ELSE <<"forward", "raw", "nat">>
        IN [k \in 1..3 |-> Hook(tables[k], Families[n])]])

Rule == [verdict : {"established", "accept", "drop", "masquerade", "return"},
         iface : Names \cup {None}, from : SUBSET Sources, to : SUBSET Destinations]

\* A command appends a rule to a chain, or throws. The rules for several
\* destinations are one.
Append1(t, f, verdict, i, from, to) ==
    [hook |-> Hook(t, f), rule |-> [verdict |-> verdict, iface |-> i, from |-> from, to |-> to]]
Throw1 == [hook |-> None, rule |-> [verdict |-> "drop", iface |-> None, from |-> {}, to |-> {}]]

\* Internet access, with or without masquerading, needs a WAN interface.
InternetCommands(i, p, f) ==
    IF f \notin p.internet THEN <<>>
    ELSE IF f \notin p.wan THEN <<Throw1>>
    ELSE <<Append1("forward", f, "accept", i, {Client}, {Internet})>>
         \o IF f \in p.nat THEN <<Append1("nat", f, "masquerade", i, {Client}, {Internet})>> ELSE <<>>

\* The remote networks come in the order of the peers.
SiteCommands(i, p, f) ==
    FlattenSeq([n \in DOMAIN SetToSeq(p.sites) |->
        LET site == {SetToSeq(p.sites)[n]}
        IN << Append1("raw", f, "accept", i, site, p.docker),
              Append1("forward", f, "accept", i, site, p.docker \cup p.lan),
              Append1("forward", f, "drop", i, site, Destinations) >>])

\* The commands for an active interface and a family it has an address of.
InterfaceCommands(i, p, f) ==
    << Append1("raw", f, "accept", i, {Client}, p.docker),
       Append1("forward", f, "accept", i, {Client}, p.docker \cup p.lan) >>
    \o InternetCommands(i, p, f)
    \o SiteCommands(i, p, f)
    \o <<Append1("forward", f, "drop", i, {Client}, Destinations)>>

Active(conf, i) == IF conf[i] = None THEN FALSE ELSE conf[i].enabled
Serves(conf, i, f) == IF Active(conf, i) THEN f \in conf[i].families ELSE FALSE

\* One command for each family, at the start or the end of a rendering.
Everyone(t, verdict) ==
    [n \in DOMAIN Families |-> Append1(t, Families[n], verdict, None, {}, {})]

\* Everything that applyAccessPolicies appends.
Commands(conf) ==
    Everyone("forward", "established")
    \o FlattenSeq([n \in DOMAIN Interfaces |->
         FlattenSeq([k \in DOMAIN Families |->
           IF Serves(conf, Interfaces[n], Families[k])
           THEN InterfaceCommands(Interfaces[n], conf[Interfaces[n]], Families[k])
           ELSE <<>>])])
    \o Everyone("raw", "return")
    \o Everyone("forward", "return")

\* What it appends for a state.json: the pairs are a table that TLC computes once.
Renderings == {<<conf, Commands(conf)>> : conf \in Config}
Rendering(conf) == (CHOOSE r \in Renderings : r[1] = conf)[2]

-----------------------------------------------------------------------------
\* What a chain decides of a new connection from s at interface i to d: its
\* first rule that matches.
Matches(rule, i, s, d) ==
    \/ rule.verdict = "return"
    \/ rule.verdict # "established" /\ rule.iface = i /\ s \in rule.from /\ d \in rule.to

Verdict(rules, i, s, d) ==
    LET hits == {n \in DOMAIN rules : Matches(rules[n], i, s, d)}
    IN IF hits = {} THEN "return"
       ELSE rules[CHOOSE n \in hits : \A m \in hits : n <= m].verdict
=============================================================================
