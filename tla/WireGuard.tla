------------------------------- MODULE WireGuard -------------------------------
(***************************************************************************)
(* backend/src/wireguardService.ts, the peers of a WireGuard interface: what *)
(* state.json says of them, and what the kernel has.                        *)
(*                                                                         *)
(* Every operation reads state.json, changes the interface in memory, brings *)
(* the kernel up to it command by command (applyInterface), saves the whole *)
(* file and then renders the access policies (module WireGuardAccess). A    *)
(* command that fails in between leaves the kernel ahead of the file, and   *)
(* nothing is undone. No operation takes a lock.                           *)
(***************************************************************************)
EXTENDS Integers, SequencesExt

CONSTANTS
    Requests,         \* the requests that may be in progress at the same time
    Boot,             \* restoreWireGuard
    Keys,             \* the peers there may ever be, by id and public key
    Inputs,           \* what users enter for a peer
    Operations,       \* the operations that occur
    None,             \* no interface
    Disturbances,     \* the kinds of disturbance that occur
    MaxDisturbances   \* bound on the number of disturbances of a behaviour

Processes == Requests \cup {Boot}

-----------------------------------------------------------------------------
\* The networks in CIDR notation, as cidrRange has them.
Cidr == {c \in [family : {4, 6}, first : Nat, last : Nat] : c.first <= c.last}

cidrOverlaps(a, b) == a.family = b.family /\ a.first <= b.last /\ b.first <= a.last

\* clientAddress and clientIpv6Address are sets of at most one network,
\* remoteNetworks and serverAllowedIps any.
Modes == {"remote-access", "site-to-site"}
Input == [mode : Modes, clientAddress : SUBSET Cidr, clientIpv6Address : SUBSET Cidr,
          remoteNetworks : SUBSET Cidr, serverAllowedIps : SUBSET Cidr]

Peers == [id : Keys, enabled : BOOLEAN, mode : Modes,
          clientAddress : SUBSET Cidr, clientIpv6Address : SUBSET Cidr,
          remoteNetworks : SUBSET Cidr, serverAllowedIps : SUBSET Cidr]

\* An interface of state.json has an IPv4 address, maybe an IPv6 address, and
\* its peers in order.
Interfaces == [dual : BOOLEAN, peers : Seq(Peers)]

\* The interface of the kernel. addresses: the families of its addresses. peers:
\* the AllowedIPs of each public key. routes: the remote networks that are routed
\* to it.
Device(keys) ==
    [addresses : SUBSET {4, 6}, peers : [keys -> SUBSET Cidr], routes : SUBSET Cidr]

ASSUME PeersAssumption ==
    /\ Boot \notin Requests
    /\ Inputs \subseteq Input
    /\ None \notin Interfaces /\ \A keys \in SUBSET Keys : None \notin Device(keys)
    /\ Disturbances \subseteq {"overlap", "command", "silent", "write", "crash", "reboot"}
    /\ MaxDisturbances \in Nat

\* The peer with an id and a public key that a request describes.
Peer(key, i, enabled) ==
    [id |-> key, enabled |-> enabled, mode |-> i.mode, clientAddress |-> i.clientAddress,
     clientIpv6Address |-> i.clientIpv6Address, remoteNetworks |-> i.remoteNetworks,
     serverAllowedIps |-> i.serverAllowedIps]

computedServerAllowedIps(peer) ==
    IF peer.mode = "site-to-site"
    THEN peer.clientAddress \cup peer.clientIpv6Address \cup peer.remoteNetworks
    ELSE peer.serverAllowedIps

\* validatePeerOverlap throws.
Conflict(peers, candidate) ==
    \E other \in Range(peers) :
        /\ other.id # candidate.id /\ other.enabled
        /\ \E a \in computedServerAllowedIps(candidate), b \in computedServerAllowedIps(other) :
             cidrOverlaps(a, b)

Interface(dual, peers) == [dual |-> dual, peers |-> peers]
Addresses(item) == IF item.dual THEN {4, 6} ELSE {4}
Ids(item) == {item.peers[n].id : n \in DOMAIN item.peers}
RemoteNetworks(item) == UNION {item.peers[n].remoteNetworks : n \in DOMAIN item.peers}

\* The networks that syncPeerRoutes routes to the interface.
SiteRoutes(item) ==
    UNION {peer.remoteNetworks : peer \in {q \in Range(item.peers) : q.enabled /\ q.mode = "site-to-site"}}

\* autoIpv6PeerFromGateway: a host of the network of the gateway, which is its
\* host 1.
AutoHost(index) == IF index + 2 < 2 THEN 2 ELSE index + 2
AutoIpv6(index) == {[family |-> 6, first |-> AutoHost(index), last |-> AutoHost(index)]}

-----------------------------------------------------------------------------
VARIABLES
    file,         \* the interface in state.json, or None
    device,       \* the interface of the kernel, or None
    started,      \* the process runs
    pc,           \* pc[p]: the step process p takes next
    job,          \* job[p]: what p has in memory
    undisturbed,  \* history: nothing has come between the steps of p so far
    swallowed,    \* history: the last operation to begin has caught a failure, and
                  \* gone on as if there had been none
    outcome,      \* history: how the last operation has ended, if undisturbed
    clean,        \* history: every operation so far has succeeded, undisturbed
    budget        \* the number of disturbances so far

control == <<pc, job>>
ghost == <<undisturbed, swallowed, outcome, clean>>
vars == <<file, device, started, control, ghost, budget>>

\* item: the interface that is applied and saved. keys, cidrs: the peers and the
\* routes that are to be removed first, or the routes that are still to be put
\* back. at: the peer that is next. result: what a success is.
Results == {"none", "created", "applied", "saved", "removed", "deleted"}
Job == [item : Interfaces \cup {None}, keys : SUBSET Keys, cidrs : SUBSET Cidr,
        at : Nat \ {0}, result : Results]
NoJob == [item |-> None, keys |-> {}, cidrs |-> {}, at |-> 1, result |-> "none"]

NewDevice == [addresses |-> {}, peers |-> << >>, routes |-> {}]

Steps == {"idle", "unlink", "unpeer", "unroute", "show", "add", "flush", "address", "peer",
          "unsync", "sync", "truncate", "write", "policies"}

Busy(p) == pc[p] # "idle"
Goto(p, step) == pc' = [pc EXCEPT ![p] = step]

Disturb(kind) ==
    /\ kind \in Disturbances
    /\ budget < MaxDisturbances
    /\ budget' = budget + 1

Init ==
    /\ file = None /\ device = None
    /\ started = FALSE
    /\ pc = [p \in Processes |-> "idle"]
    /\ job = [p \in Processes |-> NoJob]
    /\ undisturbed = [p \in Processes |-> FALSE]
    /\ swallowed = FALSE
    /\ outcome = "unknown" /\ clean = TRUE
    /\ budget = 0

\* An operation begins that has read the file. That it overlaps another one is a
\* disturbance of both.
Begin(p, step, j) ==
    LET free == \A q \in Processes : ~Busy(q)
    IN /\ ~Busy(p)
       /\ IF free THEN UNCHANGED budget ELSE Disturb("overlap")
       /\ Goto(p, step)
       /\ job' = [job EXCEPT ![p] = j]
       /\ undisturbed' = [q \in Processes |-> q = p /\ free]
       /\ swallowed' = FALSE
       /\ outcome' = "unknown"
       /\ clean' = (clean /\ free)

Finish(p, result) ==
    /\ Goto(p, "idle")
    /\ job' = [job EXCEPT ![p] = NoJob]
    /\ undisturbed' = [undisturbed EXCEPT ![p] = FALSE]
    /\ outcome' = IF undisturbed[p] THEN result ELSE "unknown"
    /\ clean' = (clean /\ result # "error")
    /\ UNCHANGED swallowed

-----------------------------------------------------------------------------
\* The operations, up to their first command. One that is refused at once, for
\* an interface or a peer that is not there or an overlap, changes nothing and is
\* not a step.

Apply(item) == [NoJob EXCEPT !.item = item, !.result = "applied"]

StartBoot ==
    /\ ~started
    /\ started' = TRUE
    /\ IF file = None
       THEN Begin(Boot, "policies", [NoJob EXCEPT !.result = "none"])
       ELSE Begin(Boot, "show", Apply(file))
    /\ UNCHANGED <<file, device>>

Start(r, op) == started /\ op \in Operations /\ r \in Requests

\* createWireGuardInterface. The file and the policies come at the end.
CreateInterface(r) ==
    /\ Start(r, "create")
    /\ file = None
    /\ \E dual \in BOOLEAN :
         Begin(r, "show", [NoJob EXCEPT !.item = Interface(dual, << >>), !.result = "created"])
    /\ UNCHANGED <<file, device, started>>

\* deleteWireGuardInterface. The link goes first.
DeleteInterface(r) ==
    /\ Start(r, "delete")
    /\ file # None
    /\ Begin(r, "unlink", [NoJob EXCEPT !.result = "deleted"])
    /\ UNCHANGED <<file, device, started>>

\* setWireGuardAccessPolicy, and every operation on another interface: what was
\* read of this one is saved.
SaveOther(r) ==
    /\ Start(r, "other")
    /\ file # None
    /\ Begin(r, "truncate", [NoJob EXCEPT !.item = file, !.result = "saved"])
    /\ UNCHANGED <<file, device, started>>

\* configureWireGuardIpv6. A peer without an IPv6 address gets one by its place.
WithIpv6(peers) ==
    [n \in DOMAIN peers |->
        LET own == IF peers[n].clientIpv6Address = {} THEN AutoIpv6(n - 1) ELSE peers[n].clientIpv6Address
        IN [peers[n] EXCEPT !.clientIpv6Address = own, !.serverAllowedIps = @ \cup own]]
WithoutIpv6(peers) ==
    [n \in DOMAIN peers |->
        [peers[n] EXCEPT !.clientIpv6Address = {}, !.serverAllowedIps = {c \in @ : c.family # 6}]]

ConfigureIpv6(r) ==
    /\ Start(r, "ipv6")
    /\ file # None
    /\ \E enabled \in BOOLEAN :
         Begin(r, "show", Apply(Interface(enabled,
             IF enabled THEN WithIpv6(file.peers) ELSE WithoutIpv6(file.peers))))
    /\ UNCHANGED <<file, device, started>>

\* addWireGuardPeer. The id and the keys are new. In an interface with an IPv6
\* address, a peer that is given none gets one by the number of peers.
NewPeer(item, key, i, enabled) ==
    LET own == IF i.clientIpv6Address # {} THEN i.clientIpv6Address
               ELSE IF item.dual THEN AutoIpv6(Len(item.peers)) ELSE {}
    IN Peer(key, [i EXCEPT !.clientIpv6Address = own, !.serverAllowedIps = @ \cup own], enabled)

KnownKeys ==
    (IF file = None THEN {} ELSE Ids(file))
    \cup (IF device = None THEN {} ELSE DOMAIN device.peers)
    \cup UNION {IF job[p].item = None THEN {} ELSE Ids(job[p].item) : p \in Processes}

AddPeer(r) ==
    /\ Start(r, "peer")
    /\ file # None
    /\ \E key \in Keys \ KnownKeys, i \in Inputs, enabled \in BOOLEAN :
         LET peer == NewPeer(file, key, i, enabled)
         IN /\ ~Conflict(file.peers, peer)
            /\ Begin(r, "show", Apply(Interface(file.dual, Append(file.peers, peer))))
    /\ UNCHANGED <<file, device, started>>

\* updateWireGuardPeer: every field is given; one that is left out keeps its
\* value.
UpdatePeer(r) ==
    /\ Start(r, "peer")
    /\ file # None
    /\ \E n \in DOMAIN file.peers, i \in Inputs, enabled \in BOOLEAN :
         LET peer == Peer(file.peers[n].id, i, enabled)
         IN /\ ~Conflict(file.peers, peer)
            /\ Begin(r, "unroute",
                     [Apply(Interface(file.dual, [file.peers EXCEPT ![n] = peer]))
                        EXCEPT !.cidrs = file.peers[n].remoteNetworks])
    /\ UNCHANGED <<file, device, started>>

\* setWireGuardPeerEnabled, without an overlap check of its own.
SetPeerEnabled(r) ==
    /\ Start(r, "enable")
    /\ file # None
    /\ \E n \in DOMAIN file.peers, enabled \in BOOLEAN :
         Begin(r, IF enabled THEN "show" ELSE "unpeer",
               [Apply(Interface(file.dual, [file.peers EXCEPT ![n].enabled = enabled]))
                  EXCEPT !.keys = {file.peers[n].id}])
    /\ UNCHANGED <<file, device, started>>

\* deleteWireGuardPeer does not call applyInterface.
DeletePeer(r) ==
    /\ Start(r, "peer")
    /\ file # None
    /\ \E n \in DOMAIN file.peers :
         Begin(r, "unpeer",
               [NoJob EXCEPT !.item = Interface(file.dual, RemoveAt(file.peers, n)),
                             !.keys = {file.peers[n].id},
                             !.cidrs = file.peers[n].remoteNetworks,
                             !.result = "removed"])
    /\ UNCHANGED <<file, device, started>>

-----------------------------------------------------------------------------
\* The commands.

\* ip link del.
RemoveLink(p) ==
    /\ pc[p] = "unlink"
    /\ device' = None
    /\ Goto(p, "truncate")
    /\ UNCHANGED <<file, started, job, ghost, budget>>

Forgets(d, keys) == [d EXCEPT !.peers = [k \in DOMAIN @ \ keys |-> @[k]]]

\* wg set ... peer ... remove, before applyInterface.
RemovePeer(p) ==
    /\ pc[p] = "unpeer"
    /\ device' = IF device = None THEN None ELSE Forgets(device, job[p].keys)
    /\ Goto(p, IF job[p].result = "removed" THEN "unroute" ELSE "show")
    /\ UNCHANGED <<file, started, job, ghost, budget>>

\* removePeerRoutes: ip route del, for each network. (The deletions of a loop are
\* one step: none of them depends on another.)
WithoutRoutes(d, cidrs) == IF d = None THEN None ELSE [d EXCEPT !.routes = @ \ cidrs]

Unroute(p) ==
    /\ pc[p] = "unroute"
    /\ device' = WithoutRoutes(device, job[p].cidrs)
    /\ job' = [job EXCEPT ![p].cidrs = {}]
    /\ Goto(p, IF job[p].result = "removed" THEN "unsync" ELSE "show")
    /\ UNCHANGED <<file, started, ghost, budget>>

\* applyInterface: ip link show, and ip link add if that fails.
ShowLink(p) ==
    /\ pc[p] = "show"
    /\ Goto(p, IF device = None THEN "add" ELSE "flush")
    /\ UNCHANGED <<file, device, started, job, ghost, budget>>

AddLink(p) ==
    /\ pc[p] = "add"
    /\ IF device = None
       THEN device' = NewDevice /\ Goto(p, "flush") /\ UNCHANGED <<job, ghost>>
       ELSE Finish(p, "error") /\ UNCHANGED device
    /\ UNCHANGED <<file, started, budget>>

\* wg set ... private-key, which needs the link, and ip address flush. With the
\* last IPv4 address the kernel drops the IPv4 routes through the interface.
FlushAddresses(p) ==
    /\ pc[p] = "flush"
    /\ IF device # None
       THEN /\ device' = [device EXCEPT !.addresses = {}, !.routes = {c \in @ : c.family = 6}]
            /\ Goto(p, "address")
            /\ UNCHANGED <<job, ghost>>
       ELSE Finish(p, "error") /\ UNCHANGED device
    /\ UNCHANGED <<file, started, budget>>

\* ip address add, for each address, which must not be there; link set ... up.
AddAddresses(p) ==
    /\ pc[p] = "address"
    /\ LET missing == IF device = None THEN {} ELSE Addresses(job[p].item) \ device.addresses
       IN IF device # None /\ missing = Addresses(job[p].item)
          THEN /\ device' = [device EXCEPT !.addresses = @ \cup missing]
               /\ Goto(p, "peer")
               /\ UNCHANGED <<job, ghost>>
          ELSE Finish(p, "error") /\ UNCHANGED device
    /\ UNCHANGED <<file, started, budget>>

\* wg set ... peer. An AllowedIP belongs to one peer: another one loses it.
\* Without AllowedIPs in the command those of the peer are left alone.
Admits(d, key, allowed) ==
    [d EXCEPT !.peers =
        [k \in DOMAIN @ \cup {key} |->
            IF k # key THEN @[k] \ allowed
            ELSE IF allowed = {} /\ key \in DOMAIN @ THEN @[key]
            ELSE allowed]]

\* Mutation: the loop runs once too often.
NextPeer_OffByOne(p) ==
    LET more == job[p].at <= Len(job[p].item.peers)
    IN /\ job' = [job EXCEPT ![p].at = IF more THEN @ + 1 ELSE 1]
       /\ Goto(p, IF more THEN "peer" ELSE "unsync")

NextPeer(p) ==
    LET more == job[p].at < Len(job[p].item.peers)
    IN /\ job' = [job EXCEPT ![p].at = IF more THEN @ + 1 ELSE 1]
       /\ Goto(p, IF more THEN "peer" ELSE "unsync")

\* Mutation: the overlaps were checked when the peer was entered.
ApplyPeer_Unchecked(p) ==
    /\ pc[p] = "peer"
    /\ LET peers == job[p].item.peers
           peer == peers[job[p].at]
       IN IF peers = << >>
          THEN NextPeer(p) /\ UNCHANGED <<device, ghost>>
          ELSE IF ~peer.enabled
          THEN /\ device' = IF device = None THEN None ELSE Forgets(device, {peer.id})
               /\ NextPeer(p)
               /\ UNCHANGED ghost
          ELSE IF device = None
          THEN Finish(p, "error") /\ UNCHANGED device
          ELSE /\ device' = Admits(device, peer.id, computedServerAllowedIps(peer))
               /\ NextPeer(p)
               /\ UNCHANGED ghost
    /\ UNCHANGED <<file, started, budget>>

\* Mutation: a disabled peer is only skipped.
ApplyPeer_Skipped(p) ==
    /\ pc[p] = "peer"
    /\ LET peers == job[p].item.peers
           peer == peers[job[p].at]
       IN IF peers = << >>
          THEN NextPeer(p) /\ UNCHANGED <<device, ghost>>
          ELSE IF ~peer.enabled
          THEN NextPeer(p) /\ UNCHANGED <<device, ghost>>
          ELSE IF device = None \/ Conflict(peers, peer)
          THEN Finish(p, "error") /\ UNCHANGED device
          ELSE /\ device' = Admits(device, peer.id, computedServerAllowedIps(peer))
               /\ NextPeer(p)
               /\ UNCHANGED ghost
    /\ UNCHANGED <<file, started, budget>>

\* The loop of applyInterface over the peers: a disabled one is removed, and an
\* overlap is an error in the middle of it.
ApplyPeer(p) ==
    /\ pc[p] = "peer"
    /\ LET peers == job[p].item.peers
           peer == peers[job[p].at]
       IN IF peers = << >>
          THEN NextPeer(p) /\ UNCHANGED <<device, ghost>>
          ELSE IF ~peer.enabled
          THEN /\ device' = IF device = None THEN None ELSE Forgets(device, {peer.id})
               /\ NextPeer(p)
               /\ UNCHANGED ghost
          ELSE IF device = None \/ Conflict(peers, peer)
          THEN Finish(p, "error") /\ UNCHANGED device
          ELSE /\ device' = Admits(device, peer.id, computedServerAllowedIps(peer))
               /\ NextPeer(p)
               /\ UNCHANGED ghost
    /\ UNCHANGED <<file, started, budget>>

\* syncPeerRoutes: the routes of all peers are deleted, and those of the enabled
\* sites are put back.
Synced(p) == IF p = Boot THEN "policies" ELSE "truncate"

UnsyncRoutes(p) ==
    /\ pc[p] = "unsync"
    /\ device' = WithoutRoutes(device, RemoteNetworks(job[p].item))
    /\ job' = [job EXCEPT ![p].cidrs = SiteRoutes(job[p].item)]
    /\ Goto(p, IF SiteRoutes(job[p].item) = {} THEN Synced(p) ELSE "sync")
    /\ UNCHANGED <<file, started, ghost, budget>>

SyncRoutes(p) ==
    /\ pc[p] = "sync"
    /\ IF device = None
       THEN Finish(p, "error") /\ UNCHANGED device
       ELSE \E c \in job[p].cidrs :
              /\ device' = [device EXCEPT !.routes = @ \cup {c}]
              /\ job' = [job EXCEPT ![p].cidrs = @ \ {c}]
              /\ Goto(p, IF job[p].cidrs = {c} THEN Synced(p) ELSE "sync")
              /\ UNCHANGED ghost
    /\ UNCHANGED <<file, started, budget>>

\* save: writeFile truncates, and then writes. An empty file has no interfaces.
Truncate(p) ==
    /\ pc[p] = "truncate"
    /\ file' = None
    /\ Goto(p, "write")
    /\ UNCHANGED <<device, started, job, ghost, budget>>

Write(p) ==
    /\ pc[p] = "write"
    /\ file' = job[p].item
    /\ IF job[p].result = "created"
       THEN Finish(p, "applied")
       ELSE Goto(p, "policies") /\ UNCHANGED <<job, ghost>>
    /\ UNCHANGED <<device, started, budget>>

\* applyAccessPolicies, the whole of module WireGuardAccess.
ApplyPolicies(p) ==
    /\ pc[p] = "policies"
    /\ Finish(p, job[p].result)
    /\ UNCHANGED <<file, device, started, budget>>

-----------------------------------------------------------------------------
\* What goes wrong.

\* The peer that the loop of applyInterface is at.
AtPeer(p) ==
    /\ pc[p] = "peer"
    /\ job[p].item.peers # << >>
AtEnabled(p) == AtPeer(p) /\ job[p].item.peers[job[p].at].enabled
AtDisabled(p) == AtPeer(p) /\ ~job[p].item.peers[job[p].at].enabled

\* A command fails. restoreWireGuard goes on to the policies, which are no
\* concern of the peers.
CommandFails(p) ==
    /\ pc[p] \in {"add", "flush", "address", "sync", "policies"} \/ AtEnabled(p)
    /\ Disturb("command")
    /\ Finish(p, "error")
    /\ UNCHANGED <<file, device, started>>

\* A command fails, the failure is caught, and the operation goes on: the link, a
\* peer, some of the routes or the addresses stay, or a link that is there is
\* taken for none.
FailsSilently(p) ==
    /\ Disturb("silent")
    /\ \/ pc[p] = "unlink" /\ Goto(p, "truncate") /\ UNCHANGED <<device, job>>
       \/ /\ pc[p] = "unpeer"
          /\ Goto(p, IF job[p].result = "removed" THEN "unroute" ELSE "show")
          /\ UNCHANGED <<device, job>>
       \/ /\ pc[p] = "unroute"
          /\ \E stay \in SUBSET job[p].cidrs : device' = WithoutRoutes(device, job[p].cidrs \ stay)
          /\ job' = [job EXCEPT ![p].cidrs = {}]
          /\ Goto(p, IF job[p].result = "removed" THEN "unsync" ELSE "show")
       \/ pc[p] = "show" /\ Goto(p, "add") /\ UNCHANGED <<device, job>>
       \/ pc[p] = "flush" /\ device # None /\ Goto(p, "address") /\ UNCHANGED <<device, job>>
       \/ AtDisabled(p) /\ NextPeer(p) /\ UNCHANGED device
       \/ /\ pc[p] = "unsync"
          /\ \E stay \in SUBSET RemoteNetworks(job[p].item) :
               device' = WithoutRoutes(device, RemoteNetworks(job[p].item) \ stay)
          /\ job' = [job EXCEPT ![p].cidrs = SiteRoutes(job[p].item)]
          /\ Goto(p, IF SiteRoutes(job[p].item) = {} THEN Synced(p) ELSE "sync")
    /\ swallowed' = TRUE /\ clean' = FALSE
    /\ UNCHANGED <<file, started, undisturbed, outcome>>

\* The file cannot be opened, or is left empty.
SaveFails(p) ==
    /\ pc[p] \in {"truncate", "write"}
    /\ Disturb("write")
    /\ Finish(p, "error")
    /\ UNCHANGED <<file, device, started>>

Stop ==
    /\ started' = FALSE
    /\ pc' = [p \in Processes |-> "idle"]
    /\ job' = [p \in Processes |-> NoJob]
    /\ undisturbed' = [p \in Processes |-> FALSE]
    /\ swallowed' = FALSE
    /\ outcome' = "unknown" /\ clean' = FALSE

\* The process dies. Docker starts it again.
Crash ==
    /\ started /\ Disturb("crash")
    /\ Stop
    /\ UNCHANGED <<file, device>>

Reboot ==
    /\ Disturb("reboot")
    /\ Stop
    /\ device' = None
    /\ UNCHANGED file

-----------------------------------------------------------------------------
Next ==
    \/ StartBoot
    \/ \E r \in Requests :
        \/ CreateInterface(r) \/ DeleteInterface(r) \/ SaveOther(r) \/ ConfigureIpv6(r)
        \/ AddPeer(r) \/ UpdatePeer(r) \/ SetPeerEnabled(r) \/ DeletePeer(r)
    \/ \E p \in Processes :
        \/ RemoveLink(p) \/ RemovePeer(p) \/ Unroute(p) \/ ShowLink(p) \/ AddLink(p)
        \/ FlushAddresses(p) \/ AddAddresses(p) \/ ApplyPeer(p)
        \/ UnsyncRoutes(p) \/ SyncRoutes(p) \/ Truncate(p) \/ Write(p) \/ ApplyPolicies(p)
        \/ CommandFails(p) \/ FailsSilently(p) \/ SaveFails(p)
    \/ Crash \/ Reboot

Spec == Init /\ [][Next]_vars

-----------------------------------------------------------------------------
TypeOK ==
    /\ file \in Interfaces \cup {None}
    /\ device = None \/ \E keys \in SUBSET Keys : device \in Device(keys)
    /\ started \in BOOLEAN
    /\ pc \in [Processes -> Steps]
    /\ job \in [Processes -> Job]
    /\ \A p \in Processes :
         pc[p] = "peer" => job[p].at \in DOMAIN job[p].item.peers \/ job[p].item.peers = << >>
    /\ undisturbed \in [Processes -> BOOLEAN]
    /\ swallowed \in BOOLEAN
    /\ outcome \in {"unknown", "error"} \cup (Results \ {"created"})
    /\ clean \in BOOLEAN
    /\ budget \in 0..MaxDisturbances

\* However operations overlap and fail, state.json never has two enabled peers
\* whose AllowedIPs overlap: the check of validatePeerOverlap against a file that
\* was read long before the save, the automatic IPv6 addresses and the enabling
\* of a peer without a check of its own do not let one in.
NoOverlap ==
    file # None =>
        \A n, m \in DOMAIN file.peers :
            n # m /\ file.peers[n].enabled /\ file.peers[m].enabled =>
                \A a \in computedServerAllowedIps(file.peers[n]), b \in computedServerAllowedIps(file.peers[m]) :
                    a.family = b.family => (a.first .. a.last) \cap (b.first .. b.last) = {}

\* The kernel has the peers of the file, and their routes.
Admitted(peer) ==
    /\ peer.id \in DOMAIN device.peers
    /\ computedServerAllowedIps(peer) # {} => device.peers[peer.id] = computedServerAllowedIps(peer)

\* What an operation promises even if it has swallowed a failure, and what only one
\* that has not.
Configured ==
    /\ device # None
    /\ Addresses(file) \subseteq device.addresses
    /\ swallowed \/ device.addresses = Addresses(file)
    /\ \A n \in DOMAIN file.peers :
         IF file.peers[n].enabled THEN Admitted(file.peers[n])
         ELSE swallowed \/ file.peers[n].id \notin DOMAIN device.peers
    /\ SiteRoutes(file) \subseteq device.routes

\* After an operation with applyInterface, or a start, was reported as done, the
\* enabled peers of the file are in the kernel, with their AllowedIPs and routes,
\* whatever failed, with or without an error, crashed or overlapped before or
\* failed silently meanwhile. The disabled peers are out of it unless this very
\* operation has swallowed a failure (lines 344, 348, 510), whatever former ones
\* have left there. And as long as nothing has gone wrong at all, the kernel has
\* nothing but what the file has, even between operations. (AllowedIPs that are
\* taken from a peer altogether are not taken from the kernel: line 351.)
PeersInForce ==
    /\ outcome = "applied" => file # None /\ Configured
    /\ clean /\ started /\ (\A p \in Processes : ~Busy(p)) =>
         IF file = None THEN device = None
         ELSE /\ Configured
              /\ DOMAIN device.peers \subseteq Ids(file)
              /\ device.routes \subseteq SiteRoutes(file)
=============================================================================
