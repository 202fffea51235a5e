---------------------------- MODULE FirewallRules ----------------------------
(***************************************************************************)
(* What a firewall configuration (FirewallConfig, types.ts) looks like and *)
(* which commands buildRuleCommands, buildInputRuleCommands and            *)
(* buildInputRuleCommands6 emit for it: the contents each of the chains    *)
(* DRM-FIREWALL, DRM-INPUT, DRM6-FIREWALL and DRM6-INPUT should have.      *)
(***************************************************************************)
EXTENDS Integers, SequencesExt

CONSTANTS
    HookCount,       \* the hooks, in the order in which render() treats them;
                     \* the code has four: FORWARD and INPUT of IPv4, then of IPv6
    ForwardHooks,    \* the hooks whose parent chain is DOCKER-USER
    EssentialHooks,  \* the hooks of DRM6-INPUT
    Rules,           \* rules, each with the UUID it was created with
    Kind,            \* Kind[r]: "published", "network" or "input"
    RuleHooks,       \* RuleHooks[r]: the hooks whose family the rule is for,
                     \* {} when the rule is disabled
    Networks,        \* Docker networks
    RuleNetworks,    \* RuleNetworks[r]: source and destination of a network rule
    NetworkHooks,    \* NetworkHooks[n]: the hooks for whose family n has a subnet
    Missing,         \* content of a file that is absent or was just truncated
    Torn             \* content of a file that does not parse

Hooks == 1..HookCount

ASSUME HooksAssumption ==
    /\ HookCount \in Nat \ {0}
    /\ ForwardHooks \subseteq Hooks
    /\ EssentialHooks \subseteq Hooks \ ForwardHooks

ASSUME RulesAssumption ==
    /\ Kind \in [Rules -> {"published", "network", "input"}]
    /\ RuleHooks \in [Rules -> SUBSET Hooks]
    /\ RuleNetworks \in [Rules -> SUBSET Networks]
    /\ NetworkHooks \in [Networks -> SUBSET Hooks]
    /\ {"state", "essential-icmpv6", "skip", "return"} \cap Rules = {}

Config == [enabled : BOOLEAN, published : Seq(Rules),
           network : Seq(Rules), input : Seq(Rules)]

ASSUME FilesAssumption ==
    /\ Missing # Torn
    /\ Missing \notin Config
    /\ Torn \notin Config

NoConfig == {Missing, Torn}
File == Config \cup NoConfig

\* The configuration every reader answers with when a file does not parse.
EmptyConfig ==
    [enabled |-> FALSE, published |-> <<>>, network |-> <<>>, input |-> <<>>]

ReadConfig(f) == IF f \in NoConfig THEN EmptyConfig ELSE f

RulesOf(c) == Range(c.published) \cup Range(c.network) \cup Range(c.input)

AddRule(c, r) == [c EXCEPT ![Kind[r]] = Append(@, r)]

\* Ids are unique, so filtering an id out removes one position of one list.
DeleteAt(c, kind, i) == [c EXCEPT ![kind] = RemoveAt(@, i)]

-----------------------------------------------------------------------------

Token == Rules \cup {"state", "essential-icmpv6", "skip", "return"}

\* The commands that precede the rules. The eight essential ICMPv6 types are
\* one token.
Preamble(h) ==
    IF h \in EssentialHooks THEN <<"state", "essential-icmpv6">> ELSE <<"state">>

RuleList(c, h) ==
    IF h \in ForwardHooks THEN c.published \o c.network ELSE c.input

\* Whether a rule puts commands into the chain of hook h: it is enabled, of h's
\* family and, for a network rule, both networks have a subnet of that family.
Emits(r, h) ==
    /\ h \in RuleHooks[r]
    /\ Kind[r] = "network" => \A n \in RuleNetworks[r] : h \in NetworkHooks[n]

\* A rule's commands are one token (one per pair of subnets in the code); a
\* rule without commands keeps its place as the inert token "skip".
Slot(r, h) == IF Emits(r, h) THEN r ELSE "skip"

RuleCommands(c, h) == [i \in 1..Len(RuleList(c, h)) |-> Slot(RuleList(c, h)[i], h)]

\* Mutation: the rules come first.
Commands_RulesFirst(c, h) == RuleCommands(c, h) \o Preamble(h) \o <<"return">>

\* The commands for hook h in the order in which they are appended.
Commands(c, h) == Preamble(h) \o RuleCommands(c, h) \o <<"return">>

\* The contents render() leaves in the chain of h: flushed when disabled.
Rendering(c, h) == IF c.enabled THEN Commands(c, h) ELSE <<>>

\* buildRuleCommands throws when a rule of h's family names a network that no
\* longer exists.
Buildable(c, h, networks) ==
    h \in ForwardHooks =>
        \A r \in Range(c.network) : h \in RuleHooks[r] => RuleNetworks[r] \subseteq networks
=============================================================================
