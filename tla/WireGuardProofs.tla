---------------------------- MODULE WireGuardProofs ----------------------------
(***************************************************************************)
(* Proofs about WireGuard, for any keys, inputs, requests and disturbances.  *)
(***************************************************************************)
EXTENDS WireGuard, TLAPS, SequenceTheorems

\* What the program counter says about what a process has in memory.

\* The steps with an interface to bring the kernel up to.
ApplySteps == {"show", "add", "flush", "address", "peer", "unsync", "sync"}

JobOK(p, step, j) ==
    /\ step \in ApplySteps \cup {"unpeer", "unroute"} => j.item # None
    /\ step # "peer" => j.at = 1
    /\ step = "peer" => j.at \in DOMAIN j.item.peers \/ j.item.peers = << >>
    /\ j.result = "created" => step \notin {"policies", "unpeer", "unroute"}
    /\ j.result \in {"none", "deleted"} => j.item = None
    /\ step = "unlink" => j.result = "deleted"
    /\ p = Boot => j.result \in {"none", "applied"} /\ step \notin {"truncate", "write"}

LocalsOK ==
    /\ pc \in [Processes -> Steps]
    /\ job \in [Processes -> Job]
    /\ \A p \in Processes : JobOK(p, pc[p], job[p])

DeviceOK == device = None \/ \E keys \in SUBSET Keys : device \in Device(keys)

WorldOK ==
    /\ file \in Interfaces \cup {None}
    /\ started \in BOOLEAN
    /\ undisturbed \in [Processes -> BOOLEAN]
    /\ swallowed \in BOOLEAN
    /\ outcome \in {"unknown", "error"} \cup (Results \ {"created"})
    /\ clean \in BOOLEAN
    /\ budget \in 0..MaxDisturbances

TypeInv == LocalsOK /\ DeviceOK /\ WorldOK

-----------------------------------------------------------------------------
\* The peers of an interface have ids of their own.
Distinct(item) ==
    \A n, m \in DOMAIN item.peers : item.peers[n].id = item.peers[m].id => n = m

Overlaps(peer, other) ==
    \E a \in computedServerAllowedIps(peer), b \in computedServerAllowedIps(other) : cidrOverlaps(a, b)

OverlapFree(item) ==
    \A n, m \in DOMAIN item.peers :
        n # m /\ item.peers[n].enabled /\ item.peers[m].enabled =>
            ~Overlaps(item.peers[n], item.peers[m])

\* The loop of applyInterface has found no overlap so far.
Checked(item, at) ==
    \A n \in DOMAIN item.peers :
        n < at /\ item.peers[n].enabled => ~Conflict(item.peers, item.peers[n])

OverlapInvOf(step, j) ==
    j.item # None =>
        /\ Distinct(j.item)
        /\ step = "peer" => Checked(j.item, j.at)
        /\ step \in {"unsync", "sync", "truncate", "write"} => OverlapFree(j.item)
        /\ step \in {"unpeer", "unroute"} /\ j.result = "removed" => OverlapFree(j.item)

OverlapInv ==
    /\ file # None => Distinct(file) /\ OverlapFree(file)
    /\ \A p \in Processes : OverlapInvOf(pc[p], job[p])

-----------------------------------------------------------------------------
\* What an undisturbed process has brought about in the kernel.

\* The first peers of an interface are as it says.
FirstInForce(item, at) ==
    \A n \in DOMAIN item.peers :
        n < at => IF item.peers[n].enabled THEN Admitted(item.peers[n])
                  ELSE swallowed \/ item.peers[n].id \notin DOMAIN device.peers

\* So are its addresses.
Addressed(item) ==
    /\ device # None
    /\ Addresses(item) \subseteq device.addresses
    /\ swallowed \/ device.addresses = Addresses(item)

AllInForce(item) ==
    /\ Addressed(item)
    /\ \A n \in DOMAIN item.peers :
         IF item.peers[n].enabled THEN Admitted(item.peers[n])
         ELSE swallowed \/ item.peers[n].id \notin DOMAIN device.peers

Complete(item) == AllInForce(item) /\ SiteRoutes(item) \subseteq device.routes

\* An operation that calls applyInterface.
StageOf(p, step, j) ==
    /\ step = "address" => device # None /\ (swallowed \/ device.addresses = {})
    /\ step = "peer" => Addressed(j.item) /\ FirstInForce(j.item, j.at)
    /\ step = "unsync" => AllInForce(j.item)
    /\ step = "sync" => AllInForce(j.item) /\ SiteRoutes(j.item) \ j.cidrs \subseteq device.routes
    /\ step \in {"truncate", "write", "policies"} => j.item # None /\ Complete(j.item)
    /\ step = "policies" => file = j.item
    /\ p = Boot => file = j.item

\* An operation that has not been disturbed, in a behaviour without a failure: what
\* the kernel has more than it should is what the operation is about to remove.
TidyOf(step, j) ==
    IF j.item = None THEN (step # "unlink" => device = None) /\ (step = "policies" => file = None)
    ELSE /\ device # None =>
              /\ DOMAIN device.peers \subseteq Ids(j.item) \cup (IF step = "unpeer" THEN j.keys ELSE {})
              /\ device.routes \subseteq
                   IF step = "unroute" \/ (step = "unpeer" /\ j.result = "removed")
                   THEN RemoteNetworks(j.item) \cup j.cidrs
                   ELSE IF step \in {"sync", "truncate", "write", "policies"} THEN SiteRoutes(j.item)
                   ELSE RemoteNetworks(j.item)
         /\ step = "sync" => j.cidrs \subseteq SiteRoutes(j.item)
         /\ j.result = "saved" => step \in {"truncate", "write", "policies"}
         /\ j.result = "removed" /\ step = "unpeer" => j.keys \cap Ids(j.item) = {}
         /\ j.result \in {"saved", "removed"} =>
              /\ step \notin {"show", "add", "flush", "address", "peer"}
              /\ AllInForce(j.item)
              /\ step = "sync" => SiteRoutes(j.item) \ j.cidrs \subseteq device.routes
              /\ step \in {"truncate", "write", "policies"} => Complete(j.item)
              /\ step = "policies" => file = j.item

Idle == \A p \in Processes : ~Busy(p)

Lonely ==
    /\ \A p \in Processes : undisturbed[p] => Busy(p) /\ \A q \in Processes \ {p} : ~Busy(q)
    /\ outcome # "unknown" => Idle
    /\ clean => ~swallowed /\ \A p \in Processes : Busy(p) => undisturbed[p]
    /\ ~started => Idle

\* The kernel has what the file says, and nothing else.
Tidy ==
    /\ ~swallowed
    /\ IF file = None THEN device = None
       ELSE /\ Configured
            /\ DOMAIN device.peers \subseteq Ids(file)
            /\ device.routes \subseteq SiteRoutes(file)

ForceInv ==
    /\ Lonely
    /\ \A p \in Processes : undisturbed[p] =>
         /\ job[p].result \in {"created", "applied"} => StageOf(p, pc[p], job[p])
         /\ clean => TidyOf(pc[p], job[p])
    /\ outcome = "applied" => file # None /\ Configured
    /\ clean /\ Idle => Tidy /\ (~started => file = None)

-----------------------------------------------------------------------------
\* What the operators on interfaces return.

LEMMA RemoveAtFacts ==
    ASSUME NEW S, NEW s \in Seq(S), NEW i \in DOMAIN s
    PROVE  /\ RemoveAt(s, i) \in Seq(S)
           /\ DOMAIN RemoveAt(s, i) = 1..(Len(s) - 1)
           /\ \A n \in DOMAIN RemoveAt(s, i) :
                IF n < i THEN n \in DOMAIN s /\ RemoveAt(s, i)[n] = s[n]
                ELSE n + 1 \in DOMAIN s /\ RemoveAt(s, i)[n] = s[n + 1]
<1> DEFINE left == SubSeq(s, 1, i - 1)  right == SubSeq(s, i + 1, Len(s))
<1>1. Len(s) \in Nat /\ i \in 1..Len(s) /\ DOMAIN s = 1..Len(s)
  BY LenProperties
<1>2. \A j \in 1..Len(s) : s[j] \in S
  BY ElementOfSeq
<1>3. left \in Seq(S) /\ Len(left) = i - 1 /\ \A n \in 1..(i - 1) : left[n] = s[n]
  <2>1. \A j \in 1..(i - 1) : s[j] \in S
    BY <1>1, <1>2
  <2> QED
    BY <1>1, <2>1, SubSeqProperties
<1>4. right \in Seq(S) /\ Len(right) = Len(s) - i /\ \A n \in 1..(Len(s) - i) : right[n] = s[i + n]
  <2>1. \A j \in (i + 1)..Len(s) : s[j] \in S
    BY <1>1, <1>2
  <2>2. /\ right \in Seq(S) /\ Len(right) = IF i + 1 <= Len(s) THEN Len(s) - (i + 1) + 1 ELSE 0
        /\ \A n \in 1..(Len(s) - (i + 1) + 1) : right[n] = s[(i + 1) + n - 1]
    BY <1>1, <2>1, SubSeqProperties
  <2> QED
    BY <1>1, <2>2
<1> HIDE DEF left, right
<1>5. RemoveAt(s, i) = left \o right
  BY DEF RemoveAt, left, right
<1>6. /\ left \o right \in Seq(S) /\ Len(left \o right) = Len(s) - 1
      /\ \A n \in 1..(Len(s) - 1) :
           (left \o right)[n] = IF n <= i - 1 THEN left[n] ELSE right[n - (i - 1)]
  <2>1. /\ left \o right \in Seq(S) /\ Len(left \o right) = Len(left) + Len(right)
        /\ \A n \in 1..(Len(left) + Len(right)) :
             (left \o right)[n] = IF n <= Len(left) THEN left[n] ELSE right[n - Len(left)]
    BY <1>3, <1>4, ConcatProperties
  <2>2. Len(left) + Len(right) = Len(s) - 1
    BY <1>1, <1>3, <1>4
  <2> QED
    BY <1>3, <2>1, <2>2
<1>7. DOMAIN (left \o right) = 1..(Len(s) - 1)
  BY <1>6, LenProperties
<1>8. ASSUME NEW n \in 1..(Len(s) - 1)
      PROVE  IF n < i THEN n \in DOMAIN s /\ (left \o right)[n] = s[n]
             ELSE n + 1 \in DOMAIN s /\ (left \o right)[n] = s[n + 1]
  <2>1. CASE n < i
    BY <2>1, <1>1, <1>3, <1>6
  <2>2. CASE ~(n < i)
    <3>1. n - (i - 1) \in 1..(Len(s) - i) /\ i + (n - (i - 1)) = n + 1
      BY <2>2, <1>1
    <3>2. right[n - (i - 1)] = s[n + 1]
      BY <3>1, <1>4
    <3>3. n + 1 \in DOMAIN s /\ ~(n <= i - 1)
      BY <2>2, <1>1
    <3> QED
      BY <2>2, <3>2, <3>3, <1>6
  <2> QED
    BY <2>1, <2>2
<1> QED
  BY <1>5, <1>6, <1>7, <1>8

LEMMA PeersOf ==
    ASSUME NEW item \in Interfaces
    PROVE  /\ item.peers \in Seq(Peers) /\ item.dual \in BOOLEAN
           /\ Len(item.peers) \in Nat /\ DOMAIN item.peers = 1..Len(item.peers)
           /\ \A n \in DOMAIN item.peers : item.peers[n] \in Peers
<1>1. item.peers \in Seq(Peers) /\ item.dual \in BOOLEAN
  BY DEF Interfaces
<1> QED
  BY <1>1, LenProperties, ElementOfSeq

LEMMA InterfaceType ==
    ASSUME NEW dual \in BOOLEAN, NEW peers \in Seq(Peers)
    PROVE  Interface(dual, peers) \in Interfaces /\ Interface(dual, peers).peers = peers
BY DEF Interface, Interfaces

\* A sequence made from another, place by place.
LEMMA MappedPeers ==
    ASSUME NEW peers \in Seq(Peers), NEW f, DOMAIN f = DOMAIN peers,
           \A n \in DOMAIN peers : f[n] \in Peers, f = [n \in DOMAIN peers |-> f[n]]
    PROVE  f \in Seq(Peers)
<1>1. Len(peers) \in Nat /\ DOMAIN peers = 1..Len(peers)
  BY LenProperties
<1>2. f \in [1..Len(peers) -> Peers]
  BY <1>1
<1> QED
  BY <1>1, <1>2, SeqDef

LEMMA AutoIpv6Type == \A index \in Nat : AutoIpv6(index) \subseteq Cidr
BY DEF AutoIpv6, AutoHost, Cidr

LEMMA WithIpv6Facts ==
    ASSUME NEW peers \in Seq(Peers)
    PROVE  /\ WithIpv6(peers) \in Seq(Peers) /\ DOMAIN WithIpv6(peers) = DOMAIN peers
           /\ \A n \in DOMAIN peers :
                /\ WithIpv6(peers)[n].id = peers[n].id
                /\ WithIpv6(peers)[n].enabled = peers[n].enabled
                /\ WithIpv6(peers)[n].mode = peers[n].mode
                /\ WithIpv6(peers)[n].remoteNetworks = peers[n].remoteNetworks
<1> PICK f : f = WithIpv6(peers)
  OBVIOUS
<1>1. DOMAIN f = DOMAIN peers /\ f = [n \in DOMAIN peers |-> f[n]]
  BY DEF WithIpv6
<1>2. ASSUME NEW n \in DOMAIN peers
      PROVE  /\ f[n] \in Peers /\ f[n].id = peers[n].id /\ f[n].enabled = peers[n].enabled
             /\ f[n].mode = peers[n].mode /\ f[n].remoteNetworks = peers[n].remoteNetworks
  <2>1. peers[n] \in Peers /\ n - 1 \in Nat
    BY LenProperties, ElementOfSeq
  <2> DEFINE own == IF peers[n].clientIpv6Address = {} THEN AutoIpv6(n - 1) ELSE peers[n].clientIpv6Address
  <2>2. own \in SUBSET Cidr
    BY <2>1, AutoIpv6Type DEF Peers
  <2>3. f[n] = [peers[n] EXCEPT !.clientIpv6Address = own, !.serverAllowedIps = @ \cup own]
    BY DEF WithIpv6
  <2> HIDE DEF own
  <2> QED
    BY <2>1, <2>2, <2>3 DEF Peers
<1>3. f \in Seq(Peers)
  BY <1>1, <1>2, MappedPeers
<1> QED
  BY <1>1, <1>2, <1>3

LEMMA WithoutIpv6Facts ==
    ASSUME NEW peers \in Seq(Peers)
    PROVE  /\ WithoutIpv6(peers) \in Seq(Peers) /\ DOMAIN WithoutIpv6(peers) = DOMAIN peers
           /\ \A n \in DOMAIN peers :
                /\ WithoutIpv6(peers)[n].id = peers[n].id
                /\ WithoutIpv6(peers)[n].enabled = peers[n].enabled
                /\ WithoutIpv6(peers)[n].mode = peers[n].mode
                /\ WithoutIpv6(peers)[n].remoteNetworks = peers[n].remoteNetworks
<1> PICK f : f = WithoutIpv6(peers)
  OBVIOUS
<1>1. DOMAIN f = DOMAIN peers /\ f = [n \in DOMAIN peers |-> f[n]]
  BY DEF WithoutIpv6
<1>2. ASSUME NEW n \in DOMAIN peers
      PROVE  /\ f[n] \in Peers /\ f[n].id = peers[n].id /\ f[n].enabled = peers[n].enabled
             /\ f[n].mode = peers[n].mode /\ f[n].remoteNetworks = peers[n].remoteNetworks
  <2>1. peers[n] \in Peers
    BY ElementOfSeq, LenProperties
  <2> DEFINE kept == {c \in peers[n].serverAllowedIps : c.family # 6}
  <2>2. kept \in SUBSET Cidr
    BY <2>1 DEF Peers
  <2>3. f[n] = [peers[n] EXCEPT !.clientIpv6Address = {}, !.serverAllowedIps = kept]
    BY DEF WithoutIpv6
  <2> HIDE DEF kept
  <2> QED
    BY <2>1, <2>2, <2>3 DEF Peers
<1>3. f \in Seq(Peers)
  BY <1>1, <1>2, MappedPeers
<1> QED
  BY <1>1, <1>2, <1>3

LEMMA PeerFacts ==
    ASSUME NEW key \in Keys, NEW i \in Input, NEW enabled \in BOOLEAN
    PROVE  /\ Peer(key, i, enabled) \in Peers
           /\ Peer(key, i, enabled).id = key /\ Peer(key, i, enabled).enabled = enabled
BY DEF Peer, Peers, Input

LEMMA NewPeerFacts ==
    ASSUME NEW item \in Interfaces, NEW key \in Keys, NEW i \in Input, NEW enabled \in BOOLEAN
    PROVE  /\ NewPeer(item, key, i, enabled) \in Peers
           /\ NewPeer(item, key, i, enabled).id = key
           /\ NewPeer(item, key, i, enabled).enabled = enabled
<1> DEFINE own == IF i.clientIpv6Address # {} THEN i.clientIpv6Address
                  ELSE IF item.dual THEN AutoIpv6(Len(item.peers)) ELSE {}
<1>1. own \in SUBSET Cidr
  BY PeersOf, AutoIpv6Type DEF Input
<1>2. NewPeer(item, key, i, enabled) =
        Peer(key, [i EXCEPT !.clientIpv6Address = own, !.serverAllowedIps = @ \cup own], enabled)
  BY DEF NewPeer
<1> HIDE DEF own
<1>3. [i EXCEPT !.clientIpv6Address = own, !.serverAllowedIps = @ \cup own] \in Input
  BY <1>1 DEF Input
<1> QED
  BY <1>2, <1>3, PeerFacts

LEMMA RoutesType ==
    ASSUME NEW item \in Interfaces
    PROVE  /\ RemoteNetworks(item) \in SUBSET Cidr /\ SiteRoutes(item) \in SUBSET Cidr
           /\ SiteRoutes(item) \subseteq RemoteNetworks(item)
<1>1. \A n \in DOMAIN item.peers : item.peers[n].remoteNetworks \in SUBSET Cidr
  BY PeersOf DEF Peers
<1>2. \A peer \in Range(item.peers) : \E n \in DOMAIN item.peers : peer = item.peers[n]
  BY DEF Range
<1> QED
  BY <1>1, <1>2 DEF RemoteNetworks, SiteRoutes

LEMMA AllowedIpsType ==
    ASSUME NEW peer \in Peers
    PROVE  computedServerAllowedIps(peer) \in SUBSET Cidr
BY DEF computedServerAllowedIps, Peers

-----------------------------------------------------------------------------
\* What the commands make of the kernel's interface.

LEMMA AdmitsFacts ==
    ASSUME NEW keys \in SUBSET Keys, NEW d \in Device(keys), NEW key \in Keys,
           NEW allowed \in SUBSET Cidr
    PROVE  /\ Admits(d, key, allowed) \in Device(keys \cup {key})
           /\ Admits(d, key, allowed).addresses = d.addresses
           /\ Admits(d, key, allowed).routes = d.routes
           /\ allowed # {} => Admits(d, key, allowed).peers[key] = allowed
           /\ \A k \in keys \ {key} : Admits(d, key, allowed).peers[k] = d.peers[k] \ allowed
<1>1. DOMAIN d.peers = keys /\ d.peers \in [keys -> SUBSET Cidr]
  BY DEF Device
<1> DEFINE after ==
        [k \in DOMAIN d.peers \cup {key} |->
            IF k # key THEN d.peers[k] \ allowed
            ELSE IF allowed = {} /\ key \in DOMAIN d.peers THEN d.peers[key]
            ELSE allowed]
<1>2. Admits(d, key, allowed) = [d EXCEPT !.peers = after]
  BY DEF Admits
<1>3. /\ after \in [keys \cup {key} -> SUBSET Cidr]
      /\ allowed # {} => after[key] = allowed
      /\ \A k \in keys \ {key} : after[k] = d.peers[k] \ allowed
  BY <1>1
<1> HIDE DEF after
<1> QED
  BY <1>2, <1>3 DEF Device

LEMMA ForgetsFacts ==
    ASSUME NEW keys \in SUBSET Keys, NEW d \in Device(keys), NEW gone
    PROVE  /\ Forgets(d, gone) \in Device(keys \ gone)
           /\ Forgets(d, gone).addresses = d.addresses
           /\ Forgets(d, gone).routes = d.routes
           /\ \A k \in keys \ gone : Forgets(d, gone).peers[k] = d.peers[k]
BY DEF Forgets, Device

LEMMA WithoutRoutesFacts ==
    ASSUME NEW keys \in SUBSET Keys, NEW d \in Device(keys), NEW cidrs
    PROVE  /\ [d EXCEPT !.routes = @ \ cidrs] \in Device(keys)
           /\ [d EXCEPT !.routes = @ \ cidrs].addresses = d.addresses
           /\ [d EXCEPT !.routes = @ \ cidrs].peers = d.peers
           /\ [d EXCEPT !.routes = @ \ cidrs].routes = d.routes \ cidrs
BY DEF Device

-----------------------------------------------------------------------------
\* The beginning of an operation.

\* What an operation begins with: an interface derived from the one in the file.
StartOK(p, step, j) ==
    /\ step \in Steps \ {"idle", "peer"} /\ j \in Job /\ JobOK(p, step, j)
    /\ OverlapInvOf(step, j)
    /\ p = Boot => j.item = file
    /\ j.result \in {"created", "applied"} =>
         j.item # None /\ step \in {"show", "unpeer", "unroute"}
    /\ clean /\ Idle => TidyOf(step, j)'

Starts(p) == \E step, j : Begin(p, step, j) /\ StartOK(p, step, j)

\* An interface with the same peers, as far as their ids and networks go.
LEMMA SameShape ==
    ASSUME NEW item \in Interfaces, NEW other \in Interfaces,
           DOMAIN other.peers = DOMAIN item.peers,
           \A n \in DOMAIN item.peers :
               /\ other.peers[n].id = item.peers[n].id
               /\ other.peers[n].remoteNetworks = item.peers[n].remoteNetworks
    PROVE  /\ Ids(other) = Ids(item) /\ RemoteNetworks(other) = RemoteNetworks(item)
           /\ Distinct(item) => Distinct(other)
BY DEF Ids, RemoteNetworks, Distinct

LEMMA TidyFacts ==
    ASSUME Tidy, file # None, TypeInv
    PROVE  /\ device # None /\ ~swallowed /\ AllInForce(file) /\ Complete(file)
           /\ DOMAIN device.peers \subseteq Ids(file)
           /\ device.routes \subseteq SiteRoutes(file)
           /\ device.routes \subseteq RemoteNetworks(file)
<1>1. SiteRoutes(file) \subseteq RemoteNetworks(file)
  BY RoutesType DEF TypeInv, WorldOK
<1> QED
  BY <1>1 DEF Tidy, Configured, AllInForce, Addressed, Complete

LEMMA NoJobType == NoJob \in Job
BY DEF NoJob, Job, Results

LEMMA ApplyFacts ==
    ASSUME NEW item \in Interfaces
    PROVE  /\ Apply(item) \in Job
           /\ Apply(item).item = item /\ Apply(item).keys = {} /\ Apply(item).cidrs = {}
           /\ Apply(item).at = 1 /\ Apply(item).result = "applied"
<1>1. Apply(item) \in Job
  BY NoJobType DEF Apply, Job, Results
<1> QED
  BY <1>1 DEF Apply, NoJob

\* An operation that goes on to applyInterface with an interface of the same shape.
LEMMA ShapeStart ==
    ASSUME TypeInv, OverlapInv, NEW r \in Requests, file # None, clean /\ Idle => Tidy,
           NEW item \in Interfaces, UNCHANGED <<file, device>>,
           DOMAIN item.peers = DOMAIN file.peers,
           \A n \in DOMAIN file.peers :
               /\ item.peers[n].id = file.peers[n].id
               /\ item.peers[n].remoteNetworks = file.peers[n].remoteNetworks,
           NEW step \in {"show", "unpeer"},
           NEW j \in Job, j.item = item, j.cidrs = {}, j.at = 1, j.result = "applied"
    PROVE  StartOK(r, step, j)
<1>1. file \in Interfaces /\ None \notin Interfaces /\ r # Boot
  BY PeersAssumption DEF TypeInv, WorldOK
<1>2. Ids(item) = Ids(file) /\ RemoteNetworks(item) = RemoteNetworks(file) /\ Distinct(item)
  BY <1>1, SameShape DEF OverlapInv
<1>3. /\ j.item = item /\ j.cidrs = {} /\ j.at = 1 /\ j.result = "applied"
  OBVIOUS
<1>4. step \in Steps \ {"idle", "peer"} /\ JobOK(r, step, j)
  BY <1>1, <1>3 DEF Steps, JobOK
<1>5. OverlapInvOf(step, j)
  BY <1>2, <1>3 DEF OverlapInvOf
<1>6. clean /\ Idle => TidyOf(step, j)'
  BY <1>1, <1>2, <1>3, TidyFacts DEF TidyOf
<1> QED
  BY <1>1, <1>3, <1>4, <1>5, <1>6 DEF StartOK

LEMMA CreateStarts ==
    ASSUME TypeInv, OverlapInv, NEW r \in Requests, CreateInterface(r), clean /\ Idle => Tidy
    PROVE  Starts(r)
<1>1. PICK dual \in BOOLEAN :
        Begin(r, "show", [NoJob EXCEPT !.item = Interface(dual, << >>), !.result = "created"])
  BY DEF CreateInterface
<1> PICK item : item = Interface(dual, << >>)
  OBVIOUS
<1>2. item \in Interfaces /\ item.peers = << >> /\ DOMAIN item.peers = {} /\ item # None
  <2>1. << >> \in Seq(Peers) /\ DOMAIN << >> = {}
    OBVIOUS
  <2> QED
    BY <2>1, InterfaceType, PeersAssumption
<1> PICK j : j = [NoJob EXCEPT !.item = item, !.result = "created"]
  OBVIOUS
<1>3. /\ j \in Job /\ j.item = item /\ j.keys = {} /\ j.cidrs = {} /\ j.at = 1
      /\ j.result = "created"
  <2>1. j \in Job
    BY <1>2, NoJobType DEF Job, Results
  <2> QED
    BY <2>1 DEF NoJob
<1>4. file = None /\ UNCHANGED <<file, device>> /\ r # Boot
  BY PeersAssumption DEF CreateInterface
<1>5. JobOK(r, "show", j) /\ OverlapInvOf("show", j)
  BY <1>2, <1>3, <1>4 DEF JobOK, OverlapInvOf, Distinct, ApplySteps
<1>6. clean /\ Idle => TidyOf("show", j)'
  BY <1>2, <1>3, <1>4 DEF Tidy, TidyOf
<1>7. StartOK(r, "show", j)
  BY <1>2, <1>3, <1>4, <1>5, <1>6 DEF StartOK, Steps
<1> QED
  BY <1>1, <1>7 DEF Starts

LEMMA DeleteStarts ==
    ASSUME TypeInv, OverlapInv, NEW r \in Requests, DeleteInterface(r)
    PROVE  Starts(r)
<1> PICK j : j = [NoJob EXCEPT !.result = "deleted"]
  OBVIOUS
<1>1. Begin(r, "unlink", j) /\ UNCHANGED <<file, device>> /\ r # Boot
  BY PeersAssumption DEF DeleteInterface
<1>2. /\ j \in Job /\ j.item = None /\ j.keys = {} /\ j.cidrs = {} /\ j.at = 1
      /\ j.result = "deleted"
  <2>1. j \in Job
    BY NoJobType DEF Job, Results
  <2> QED
    BY <2>1 DEF NoJob
<1>3. JobOK(r, "unlink", j) /\ OverlapInvOf("unlink", j)
  BY <1>1, <1>2 DEF JobOK, OverlapInvOf, ApplySteps
<1>4. TidyOf("unlink", j)'
  BY <1>1, <1>2 DEF TidyOf
<1>5. StartOK(r, "unlink", j)
  BY <1>1, <1>2, <1>3, <1>4 DEF StartOK, Steps
<1> QED
  BY <1>1, <1>5 DEF Starts

LEMMA SaveStarts ==
    ASSUME TypeInv, OverlapInv, NEW r \in Requests, SaveOther(r), clean /\ Idle => Tidy
    PROVE  Starts(r)
<1> PICK j : j = [NoJob EXCEPT !.item = file, !.result = "saved"]
  OBVIOUS
<1>1. Begin(r, "truncate", j) /\ file # None /\ UNCHANGED <<file, device>> /\ r # Boot
  BY PeersAssumption DEF SaveOther
<1>2. file \in Interfaces
  BY <1>1 DEF TypeInv, WorldOK
<1>3. /\ j \in Job /\ j.item = file /\ j.keys = {} /\ j.cidrs = {} /\ j.at = 1
      /\ j.result = "saved"
  <2>1. j \in Job
    BY <1>2, NoJobType DEF Job, Results
  <2> QED
    BY <2>1 DEF NoJob
<1>4. JobOK(r, "truncate", j) /\ OverlapInvOf("truncate", j)
  BY <1>1, <1>3 DEF JobOK, OverlapInvOf, ApplySteps, OverlapInv
<1>5. clean /\ Idle => TidyOf("truncate", j) /\ ~swallowed
  BY <1>1, <1>3, TidyFacts DEF TidyOf
<1>6. clean /\ Idle => TidyOf("truncate", j)'
  BY <1>1, <1>5 DEF TidyOf, AllInForce, Addressed, Admitted, Complete
<1>7. StartOK(r, "truncate", j)
  BY <1>1, <1>3, <1>4, <1>6 DEF StartOK, Steps
<1> QED
  BY <1>1, <1>7 DEF Starts

LEMMA Ipv6Starts ==
    ASSUME TypeInv, OverlapInv, NEW r \in Requests, ConfigureIpv6(r), clean /\ Idle => Tidy
    PROVE  Starts(r)
<1>1. PICK enabled \in BOOLEAN :
        Begin(r, "show", Apply(Interface(enabled,
            IF enabled THEN WithIpv6(file.peers) ELSE WithoutIpv6(file.peers))))
  BY DEF ConfigureIpv6
<1>2. file \in Interfaces /\ file # None /\ UNCHANGED <<file, device>>
  BY DEF TypeInv, WorldOK, ConfigureIpv6
<1> PICK peers : peers = IF enabled THEN WithIpv6(file.peers) ELSE WithoutIpv6(file.peers)
  OBVIOUS
<1>3. /\ peers \in Seq(Peers) /\ DOMAIN peers = DOMAIN file.peers
      /\ \A n \in DOMAIN file.peers :
           /\ peers[n].id = file.peers[n].id
           /\ peers[n].remoteNetworks = file.peers[n].remoteNetworks
  BY <1>2, PeersOf, WithIpv6Facts, WithoutIpv6Facts
<1> PICK item : item = Interface(enabled, peers)
  OBVIOUS
<1>4. item \in Interfaces /\ item.peers = peers
  BY <1>3, InterfaceType
<1> PICK j : j = Apply(item)
  OBVIOUS
<1>5. j \in Job /\ j.item = item /\ j.cidrs = {} /\ j.at = 1 /\ j.result = "applied"
  BY <1>4, ApplyFacts
<1>6. StartOK(r, "show", j)
  BY <1>2, <1>3, <1>4, <1>5, ShapeStart
<1> QED
  BY <1>1, <1>6 DEF Starts

LEMMA EnableStarts ==
    ASSUME TypeInv, OverlapInv, NEW r \in Requests, SetPeerEnabled(r), clean /\ Idle => Tidy
    PROVE  Starts(r)
<1>1. PICK n \in DOMAIN file.peers, enabled \in BOOLEAN :
        Begin(r, IF enabled THEN "show" ELSE "unpeer",
              [Apply(Interface(file.dual, [file.peers EXCEPT ![n].enabled = enabled]))
                 EXCEPT !.keys = {file.peers[n].id}])
  BY DEF SetPeerEnabled
<1>2. file \in Interfaces /\ file # None /\ UNCHANGED <<file, device>>
  BY DEF TypeInv, WorldOK, SetPeerEnabled
<1> PICK peer : peer = [file.peers[n] EXCEPT !.enabled = enabled]
  OBVIOUS
<1>3. /\ peer \in Peers /\ peer.id = file.peers[n].id /\ peer.id \in Keys
      /\ peer.remoteNetworks = file.peers[n].remoteNetworks
  BY <1>2, PeersOf DEF Peers
<1> PICK peers : peers = [file.peers EXCEPT ![n].enabled = enabled]
  OBVIOUS
<1>4. peers = [file.peers EXCEPT ![n] = peer]
  OBVIOUS
<1>5. /\ peers \in Seq(Peers) /\ DOMAIN peers = DOMAIN file.peers
      /\ \A m \in DOMAIN file.peers : peers[m] = IF m = n THEN peer ELSE file.peers[m]
  BY <1>2, <1>3, <1>4, PeersOf, ExceptSeq
<1> PICK item : item = Interface(file.dual, peers)
  OBVIOUS
<1>6. item \in Interfaces /\ item.peers = peers
  BY <1>2, <1>5, PeersOf, InterfaceType
<1> PICK j : j = [Apply(item) EXCEPT !.keys = {file.peers[n].id}]
  OBVIOUS
<1>7. j \in Job /\ j.item = item /\ j.cidrs = {} /\ j.at = 1 /\ j.result = "applied"
  BY <1>3, <1>6, ApplyFacts DEF Job
<1> PICK step : step = IF enabled THEN "show" ELSE "unpeer"
  OBVIOUS
<1>8. step \in {"show", "unpeer"}
  OBVIOUS
<1>9. /\ DOMAIN item.peers = DOMAIN file.peers
      /\ \A m \in DOMAIN file.peers :
           /\ item.peers[m].id = file.peers[m].id
           /\ item.peers[m].remoteNetworks = file.peers[m].remoteNetworks
  BY <1>3, <1>5, <1>6
<1>10. item \in Interfaces /\ j \in Job /\ j.item = item /\ j.cidrs = {} /\ j.at = 1 /\ j.result = "applied"
  BY <1>6, <1>7
<1>11. StartOK(r, step, j)
  BY ONLY <1>2, <1>8, <1>9, <1>10, ShapeStart, TypeInv, OverlapInv, r \in Requests, clean /\ Idle => Tidy
<1> QED
  BY <1>1, <1>11 DEF Starts

LEMMA AddStarts ==
    ASSUME TypeInv, OverlapInv, NEW r \in Requests, AddPeer(r), clean /\ Idle => Tidy
    PROVE  Starts(r)
<1>1. PICK key \in Keys \ KnownKeys, i \in Inputs, enabled \in BOOLEAN :
        Begin(r, "show", Apply(Interface(file.dual, Append(file.peers, NewPeer(file, key, i, enabled)))))
  BY DEF AddPeer
<1>2. file \in Interfaces /\ file # None /\ UNCHANGED <<file, device>> /\ i \in Input /\ r # Boot
  BY PeersAssumption DEF TypeInv, WorldOK, AddPeer
<1> PICK peer : peer = NewPeer(file, key, i, enabled)
  OBVIOUS
<1>3. peer \in Peers /\ peer.id = key
  BY <1>2, NewPeerFacts
<1> PICK peers : peers = Append(file.peers, peer)
  OBVIOUS
<1>4. /\ peers \in Seq(Peers) /\ DOMAIN peers = 1..(Len(file.peers) + 1)
      /\ DOMAIN file.peers = 1..Len(file.peers) /\ Len(file.peers) \in Nat
      /\ \A n \in DOMAIN file.peers : peers[n] = file.peers[n]
      /\ peers[Len(file.peers) + 1] = peer
  BY <1>2, <1>3, PeersOf
<1> PICK item : item = Interface(file.dual, peers)
  OBVIOUS
<1>5. item \in Interfaces /\ item.peers = peers /\ item # None
  <2>1. file.dual \in BOOLEAN
    BY <1>2, PeersOf
  <2>2. item \in Interfaces /\ item.peers = peers
    BY <1>4, <2>1, InterfaceType
  <2> QED
    BY <2>2, PeersAssumption
<1> PICK j : j = Apply(item)
  OBVIOUS
<1>6. j \in Job /\ j.item = item /\ j.cidrs = {} /\ j.at = 1 /\ j.result = "applied"
  BY <1>5, ApplyFacts
<1>7. Distinct(item)
  <2>1. \A n \in DOMAIN file.peers : file.peers[n].id # key
    BY <1>2 DEF KnownKeys, Ids
  <2> QED
    BY <1>2, <1>3, <1>4, <1>5, <2>1 DEF Distinct, OverlapInv
<1>8. Ids(file) \subseteq Ids(item) /\ RemoteNetworks(file) \subseteq RemoteNetworks(item)
  BY <1>4, <1>5 DEF Ids, RemoteNetworks
<1>9. JobOK(r, "show", j) /\ OverlapInvOf("show", j)
  BY <1>5, <1>6, <1>7 DEF JobOK, OverlapInvOf
<1>10. clean /\ Idle => TidyOf("show", j)'
  BY <1>2, <1>5, <1>6, <1>8, TidyFacts DEF TidyOf
<1>11. StartOK(r, "show", j)
  BY <1>2, <1>5, <1>6, <1>9, <1>10 DEF StartOK, Steps
<1> QED
  BY <1>1, <1>11 DEF Starts

LEMMA UpdateStarts ==
    ASSUME TypeInv, OverlapInv, NEW r \in Requests, UpdatePeer(r), clean /\ Idle => Tidy
    PROVE  Starts(r)
<1>1. PICK n \in DOMAIN file.peers, i \in Inputs, enabled \in BOOLEAN :
        Begin(r, "unroute",
              [Apply(Interface(file.dual, [file.peers EXCEPT ![n] = Peer(file.peers[n].id, i, enabled)]))
                 EXCEPT !.cidrs = file.peers[n].remoteNetworks])
  BY DEF UpdatePeer
<1>2. file \in Interfaces /\ file # None /\ UNCHANGED <<file, device>> /\ i \in Input /\ r # Boot
  BY PeersAssumption DEF TypeInv, WorldOK, UpdatePeer
<1>3. file.peers[n] \in Peers /\ file.peers[n].id \in Keys /\ file.peers[n].remoteNetworks \in SUBSET Cidr
  BY <1>2, PeersOf DEF Peers
<1> PICK peer : peer = Peer(file.peers[n].id, i, enabled)
  OBVIOUS
<1>4. peer \in Peers /\ peer.id = file.peers[n].id
  BY <1>2, <1>3, PeerFacts
<1> PICK peers : peers = [file.peers EXCEPT ![n] = peer]
  OBVIOUS
<1>5. /\ peers \in Seq(Peers) /\ DOMAIN peers = DOMAIN file.peers
      /\ \A m \in DOMAIN file.peers : peers[m] = IF m = n THEN peer ELSE file.peers[m]
  BY <1>2, <1>4, PeersOf, ExceptSeq
<1> PICK item : item = Interface(file.dual, peers)
  OBVIOUS
<1>6. item \in Interfaces /\ item.peers = peers /\ item # None
  BY <1>2, <1>5, PeersOf, InterfaceType, PeersAssumption
<1> PICK j : j = [Apply(item) EXCEPT !.cidrs = file.peers[n].remoteNetworks]
  OBVIOUS
<1>7. j \in Job /\ j.item = item /\ j.cidrs = file.peers[n].remoteNetworks /\ j.at = 1 /\ j.result = "applied"
  BY <1>3, <1>6, ApplyFacts DEF Job
<1>8. Distinct(item) /\ Ids(item) = Ids(file)
  <2>1. DOMAIN item.peers = DOMAIN file.peers
        /\ \A m \in DOMAIN file.peers : item.peers[m].id = file.peers[m].id
    BY <1>4, <1>5, <1>6
  <2> QED
    BY <1>2, <2>1 DEF Distinct, OverlapInv, Ids
<1>9. RemoteNetworks(file) \subseteq RemoteNetworks(item) \cup j.cidrs
  BY <1>5, <1>6, <1>7 DEF RemoteNetworks
<1>10. JobOK(r, "unroute", j) /\ OverlapInvOf("unroute", j)
  BY <1>6, <1>7, <1>8 DEF JobOK, OverlapInvOf
<1>11. clean /\ Idle => TidyOf("unroute", j)'
  BY <1>2, <1>6, <1>7, <1>8, <1>9, TidyFacts DEF TidyOf
<1>12. StartOK(r, "unroute", j)
  BY <1>2, <1>6, <1>7, <1>10, <1>11 DEF StartOK, Steps
<1> QED
  BY <1>1, <1>12 DEF Starts

LEMMA RemoveStarts ==
    ASSUME TypeInv, OverlapInv, NEW r \in Requests, DeletePeer(r), clean /\ Idle => Tidy
    PROVE  Starts(r)
<1>1. PICK n \in DOMAIN file.peers :
        Begin(r, "unpeer",
              [NoJob EXCEPT !.item = Interface(file.dual, RemoveAt(file.peers, n)),
                            !.keys = {file.peers[n].id},
                            !.cidrs = file.peers[n].remoteNetworks,
                            !.result = "removed"])
  BY DEF DeletePeer
<1>2. file \in Interfaces /\ file # None /\ UNCHANGED <<file, device>> /\ r # Boot
  BY PeersAssumption DEF TypeInv, WorldOK, DeletePeer
<1>3. file.peers[n] \in Peers /\ file.peers[n].id \in Keys /\ file.peers[n].remoteNetworks \in SUBSET Cidr
  BY <1>2, PeersOf DEF Peers
<1> PICK peers : peers = RemoveAt(file.peers, n)
  OBVIOUS
<1> DEFINE from(m) == IF m < n THEN m ELSE m + 1
<1>4. /\ peers \in Seq(Peers)
      /\ \A m \in DOMAIN peers : from(m) \in DOMAIN file.peers /\ peers[m] = file.peers[from(m)]
      /\ \A m \in DOMAIN file.peers \ {n} : \E k \in DOMAIN peers : peers[k] = file.peers[m]
      /\ \A m, k \in DOMAIN peers : from(m) = from(k) => m = k
      /\ \A m \in DOMAIN peers : from(m) # n
  <2>1. /\ peers \in Seq(Peers) /\ DOMAIN peers = 1..(Len(file.peers) - 1)
        /\ \A m \in DOMAIN peers : from(m) \in DOMAIN file.peers /\ peers[m] = file.peers[from(m)]
    BY <1>2, PeersOf, RemoveAtFacts
  <2>2. Len(file.peers) \in Nat /\ DOMAIN file.peers = 1..Len(file.peers)
    BY <1>2, PeersOf
  <2>3. ASSUME NEW m \in DOMAIN file.peers \ {n} PROVE \E k \in DOMAIN peers : peers[k] = file.peers[m]
    <3>1. CASE m < n
      <4>1. m \in DOMAIN peers /\ from(m) = m
        BY <3>1, <2>1, <2>2
      <4> QED
        BY <4>1, <2>1
    <3>2. CASE m > n
      <4>1. m - 1 \in DOMAIN peers /\ from(m - 1) = m
        BY <3>2, <2>1, <2>2
      <4> QED
        BY <4>1, <2>1
    <3> QED
      BY <3>1, <3>2, <2>2
  <2>4. /\ \A m, k \in DOMAIN peers : from(m) = from(k) => m = k
        /\ \A m \in DOMAIN peers : from(m) # n
    BY <2>1, <2>2
  <2> QED
    BY <2>1, <2>3, <2>4
<1> HIDE DEF from
<1> PICK item : item = Interface(file.dual, peers)
  OBVIOUS
<1>5. item \in Interfaces /\ item.peers = peers /\ item # None /\ item.dual = file.dual
  BY <1>2, <1>4, PeersOf, InterfaceType, PeersAssumption DEF Interface
<1> PICK j : j = [NoJob EXCEPT !.item = item, !.keys = {file.peers[n].id},
                               !.cidrs = file.peers[n].remoteNetworks, !.result = "removed"]
  OBVIOUS
<1>6. /\ j \in Job /\ j.item = item /\ j.keys = {file.peers[n].id}
      /\ j.cidrs = file.peers[n].remoteNetworks /\ j.at = 1 /\ j.result = "removed"
  <2>1. j \in Job
    BY <1>3, <1>5, NoJobType DEF Job, Results
  <2> QED
    BY <2>1 DEF NoJob
<1>7. Distinct(item) /\ OverlapFree(item)
  BY <1>2, <1>4, <1>5 DEF Distinct, OverlapFree, OverlapInv
<1>8. Ids(file) \subseteq Ids(item) \cup j.keys /\ j.keys \cap Ids(item) = {}
  BY <1>2, <1>4, <1>5, <1>6 DEF Ids, Distinct, OverlapInv
<1>9. RemoteNetworks(file) \subseteq RemoteNetworks(item) \cup j.cidrs
  BY <1>4, <1>5, <1>6 DEF RemoteNetworks
<1>10. JobOK(r, "unpeer", j) /\ OverlapInvOf("unpeer", j)
  BY <1>2, <1>5, <1>6, <1>7 DEF JobOK, OverlapInvOf
<1>11. AllInForce(file) => AllInForce(item)
  BY <1>4, <1>5 DEF AllInForce, Addressed, Addresses
<1>12. clean /\ Idle => TidyOf("unpeer", j) /\ ~swallowed
  BY <1>2, <1>5, <1>6, <1>8, <1>9, <1>11, TidyFacts DEF TidyOf
<1>13. clean /\ Idle => TidyOf("unpeer", j)'
  BY <1>2, <1>5, <1>12 DEF TidyOf, AllInForce, Addressed, Admitted, Complete
<1>14. StartOK(r, "unpeer", j)
  BY <1>2, <1>5, <1>6, <1>10, <1>13 DEF StartOK, Steps
<1> QED
  BY <1>1, <1>14 DEF Starts

LEMMA BootStarts ==
    ASSUME TypeInv, OverlapInv, StartBoot,
           clean /\ Idle => Tidy /\ (~started => file = None)
    PROVE  Starts(Boot)
<1>1. CASE file = None
  <2> PICK j : j = [NoJob EXCEPT !.result = "none"]
    OBVIOUS
  <2>1. Begin(Boot, "policies", j) /\ UNCHANGED <<file, device>>
    BY <1>1 DEF StartBoot
  <2>2. /\ j \in Job /\ j.item = None /\ j.keys = {} /\ j.cidrs = {} /\ j.at = 1
        /\ j.result = "none"
    <3>1. j \in Job
      BY NoJobType DEF Job, Results
    <3> QED
      BY <3>1 DEF NoJob
  <2>3. JobOK(Boot, "policies", j) /\ OverlapInvOf("policies", j)
    BY <2>2 DEF JobOK, OverlapInvOf, ApplySteps
  <2>4. clean /\ Idle => TidyOf("policies", j)'
    BY <1>1, <2>1, <2>2 DEF TidyOf, Tidy
  <2>5. StartOK(Boot, "policies", j)
    BY <1>1, <2>1, <2>2, <2>3, <2>4 DEF StartOK, Steps
  <2> QED
    BY <2>1, <2>5 DEF Starts
<1>2. CASE file # None
  <2> PICK j : j = Apply(file)
    OBVIOUS
  <2>1. Begin(Boot, "show", j) /\ UNCHANGED <<file, device>> /\ ~started /\ file \in Interfaces
    BY <1>2 DEF StartBoot, TypeInv, WorldOK
  <2>2. j \in Job /\ j.item = file /\ j.at = 1 /\ j.result = "applied"
    BY <2>1, ApplyFacts
  <2>3. JobOK(Boot, "show", j) /\ OverlapInvOf("show", j)
    BY <1>2, <2>2 DEF JobOK, OverlapInvOf, OverlapInv
  <2>4. StartOK(Boot, "show", j)
    BY <1>2, <2>1, <2>2, <2>3 DEF StartOK, Steps
  <2> QED
    BY <2>1, <2>4 DEF Starts
<1> QED
  BY <1>1, <1>2

\* Everything that begins an operation.
StartAction(p) ==
    \/ p = Boot /\ StartBoot
    \/ /\ p \in Requests
       /\ \/ CreateInterface(p) \/ DeleteInterface(p) \/ SaveOther(p) \/ ConfigureIpv6(p)
          \/ AddPeer(p) \/ UpdatePeer(p) \/ SetPeerEnabled(p) \/ DeletePeer(p)

LEMMA StartActionFacts ==
    ASSUME TypeInv, OverlapInv, NEW p \in Processes, StartAction(p),
           clean /\ Idle => Tidy /\ (~started => file = None)
    PROVE  /\ Starts(p) /\ file' = file /\ started' = TRUE
           /\ device' = device \/ device' = None
           /\ started' = started \/ ~started
<1>1. CASE p = Boot /\ StartBoot
  BY <1>1, BootStarts DEF StartBoot
<1>2. CASE p \in Requests /\ CreateInterface(p)
  BY <1>2, CreateStarts DEF CreateInterface, Start
<1>3. CASE p \in Requests /\ DeleteInterface(p)
  BY <1>3, DeleteStarts DEF DeleteInterface, Start
<1>4. CASE p \in Requests /\ SaveOther(p)
  BY <1>4, SaveStarts DEF SaveOther, Start
<1>5. CASE p \in Requests /\ ConfigureIpv6(p)
  BY <1>5, Ipv6Starts DEF ConfigureIpv6, Start
<1>6. CASE p \in Requests /\ AddPeer(p)
  BY <1>6, AddStarts DEF AddPeer, Start
<1>7. CASE p \in Requests /\ UpdatePeer(p)
  BY <1>7, UpdateStarts DEF UpdatePeer, Start
<1>8. CASE p \in Requests /\ SetPeerEnabled(p)
  BY <1>8, EnableStarts DEF SetPeerEnabled, Start
<1>9. CASE p \in Requests /\ DeletePeer(p)
  BY <1>9, RemoveStarts DEF DeletePeer, Start
<1> QED
  BY <1>1, <1>2, <1>3, <1>4, <1>5, <1>6, <1>7, <1>8, <1>9 DEF StartAction

-----------------------------------------------------------------------------
\* Types, and the overlaps, from step to step.

Safe == TypeInv /\ OverlapInv

LEMMA SafeInit == Init => Safe
<1> SUFFICES ASSUME Init PROVE Safe
  OBVIOUS
<1>1. NoJob \in Job /\ NoJob.at = 1 /\ NoJob.result = "none" /\ NoJob.item = None
  BY NoJobType DEF NoJob
<1>2. LocalsOK
  BY <1>1 DEF Init, LocalsOK, JobOK, Steps, ApplySteps
<1>3. DeviceOK /\ WorldOK
  <2>1. undisturbed \in [Processes -> BOOLEAN]
    BY Zenon DEF Init
  <2>2. budget \in 0..MaxDisturbances
    BY PeersAssumption DEF Init
  <2> QED
    BY <2>1, <2>2 DEF Init, DeviceOK, WorldOK
<1>4. OverlapInv
  BY <1>1 DEF Init, OverlapInv, OverlapInvOf
<1> QED
  BY <1>2, <1>3, <1>4 DEF Safe, TypeInv

\* Process p goes on to a step with what it has in memory there.
LEMMA LocalStep ==
    ASSUME Safe, NEW p \in Processes, NEW step \in Steps, NEW j \in Job,
           JobOK(p, step, j), OverlapInvOf(step, j),
           pc' = [pc EXCEPT ![p] = step], job' = [job EXCEPT ![p] = j],
           file' \in {file, None} \/ (file' = j.item /\ OverlapFree(j.item))
    PROVE  LocalsOK' /\ OverlapInv' /\ file' \in Interfaces \cup {None}
<1>1. LocalsOK /\ file \in Interfaces \cup {None} /\ OverlapInv
  BY DEF Safe, TypeInv, WorldOK
<1>2. /\ pc' \in [Processes -> Steps] /\ job' \in [Processes -> Job]
      /\ \A q \in Processes : IF q = p THEN pc'[q] = step /\ job'[q] = j
                              ELSE pc'[q] = pc[q] /\ job'[q] = job[q]
  BY <1>1 DEF LocalsOK
<1>3. LocalsOK'
  BY <1>1, <1>2 DEF LocalsOK, JobOK
<1>4. file' \in Interfaces \cup {None}
  BY <1>1 DEF Job
<1>5. file' # None => Distinct(file') /\ OverlapFree(file')
  BY <1>1 DEF OverlapInv, OverlapInvOf
<1>6. \A q \in Processes : OverlapInvOf(pc'[q], job'[q])
  BY <1>1, <1>2 DEF OverlapInv
<1> QED
  BY <1>3, <1>4, <1>5, <1>6 DEF OverlapInv

LEMMA FinishSafe ==
    ASSUME Safe, NEW p \in Processes, NEW result, Finish(p, result),
           result \in {"unknown", "error"} \cup (Results \ {"created"}),
           DeviceOK', started' \in BOOLEAN, budget' \in 0..MaxDisturbances,
           file' \in {file, None} \/ (file' = job[p].item /\ OverlapFree(file'))
    PROVE  Safe'
<1>1. NoJob \in Job /\ NoJob.at = 1 /\ NoJob.result = "none" /\ NoJob.item = None
  BY NoJobType DEF NoJob
<1>2. "idle" \in Steps /\ JobOK(p, "idle", NoJob) /\ OverlapInvOf("idle", NoJob)
  BY <1>1 DEF Steps, JobOK, OverlapInvOf, ApplySteps
<1>3. TypeInv /\ OverlapInv /\ job[p] \in Job
  BY DEF Safe, TypeInv, LocalsOK
<1>4. LocalsOK' /\ \A q \in Processes : OverlapInvOf(pc'[q], job'[q])
  <2>1. /\ pc' = [pc EXCEPT ![p] = "idle"] /\ job' = [job EXCEPT ![p] = NoJob]
        /\ pc' \in [Processes -> Steps] /\ job' \in [Processes -> Job]
        /\ \A q \in Processes : IF q = p THEN pc'[q] = "idle" /\ job'[q] = NoJob
                              ELSE pc'[q] = pc[q] /\ job'[q] = job[q]
    BY <1>1, <1>2, <1>3 DEF Finish, Goto, TypeInv, LocalsOK
  <2> QED
    BY <1>2, <1>3, <2>1 DEF TypeInv, LocalsOK, JobOK, OverlapInv
<1>5. file' \in Interfaces \cup {None} /\ (file' # None => Distinct(file') /\ OverlapFree(file'))
  BY <1>3 DEF TypeInv, WorldOK, OverlapInv, OverlapInvOf, Job
<1>6. undisturbed' \in [Processes -> BOOLEAN] /\ swallowed' \in BOOLEAN /\ clean' \in BOOLEAN
      /\ outcome' \in {"unknown", "error"} \cup (Results \ {"created"})
  BY <1>3 DEF TypeInv, WorldOK, Finish
<1> QED
  BY <1>4, <1>5, <1>6 DEF Safe, TypeInv, WorldOK, OverlapInv

\* A step of p that does not end the operation.
LEMMA OnwardSafe ==
    ASSUME Safe, NEW p \in Processes, NEW step \in Steps, NEW j \in Job,
           JobOK(p, step, j), OverlapInvOf(step, j),
           Goto(p, step), job' = [job EXCEPT ![p] = j],
           file' \in {file, None} \/ (file' = j.item /\ OverlapFree(j.item)),
           DeviceOK', UNCHANGED <<started, undisturbed, outcome>>,
           swallowed' \in BOOLEAN, clean' \in BOOLEAN, budget' \in 0..MaxDisturbances
    PROVE  Safe'
<1>1. LocalsOK' /\ OverlapInv' /\ file' \in Interfaces \cup {None}
  BY LocalStep DEF Goto
<1> QED
  BY <1>1 DEF Safe, TypeInv, WorldOK

\* In which nothing fails.
LEMMA QuietSafe ==
    ASSUME Safe, NEW p \in Processes, NEW step \in Steps, NEW j \in Job,
           JobOK(p, step, j), OverlapInvOf(step, j),
           Goto(p, step), job' = [job EXCEPT ![p] = j],
           file' \in {file, None} \/ (file' = j.item /\ OverlapFree(j.item)),
           DeviceOK', UNCHANGED <<started, ghost, budget>>
    PROVE  Safe'
<1>1. UNCHANGED <<undisturbed, outcome, swallowed, clean>>
  BY DEF ghost
<1> QED
  BY <1>1, OnwardSafe DEF Safe, TypeInv, WorldOK

LEMMA StartSafe ==
    ASSUME Safe, NEW p \in Processes, StartAction(p),
           clean /\ Idle => Tidy /\ (~started => file = None)
    PROVE  Safe'
<1>1. Starts(p) /\ file' = file /\ started' = TRUE /\ (device' = device \/ device' = None)
  BY StartActionFacts DEF Safe
<1>2. PICK step, j : Begin(p, step, j) /\ StartOK(p, step, j)
  BY <1>1 DEF Starts
<1>3. LocalsOK' /\ OverlapInv' /\ file' \in Interfaces \cup {None}
  BY <1>1, <1>2, LocalStep DEF Begin, Goto, StartOK
<1>4. DeviceOK'
  BY <1>1 DEF Safe, TypeInv, DeviceOK
<1>5. clean' \in BOOLEAN /\ swallowed' = FALSE /\ outcome' = "unknown"
  BY <1>2 DEF Begin, Safe, TypeInv, WorldOK
<1>6. budget' \in 0..MaxDisturbances
  <2>1. budget \in 0..MaxDisturbances /\ MaxDisturbances \in Nat
    BY PeersAssumption DEF Safe, TypeInv, WorldOK
  <2>2. budget' = budget \/ (budget < MaxDisturbances /\ budget' = budget + 1)
    BY <1>2 DEF Begin, Disturb
  <2> QED
    BY <2>1, <2>2
<1>7. undisturbed' \in [Processes -> BOOLEAN]
  <2> DEFINE free == \A q \in Processes : ~Busy(q)
  <2>1. undisturbed' = [q \in Processes |-> q = p /\ free]
    BY <1>2 DEF Begin
  <2>2. \A q \in Processes : (q = p /\ free) \in BOOLEAN
    OBVIOUS
  <2> HIDE DEF free
  <2> QED
    BY <2>1, <2>2, Zenon
<1> QED
  BY <1>1, <1>3, <1>4, <1>5, <1>6, <1>7 DEF Safe, TypeInv, WorldOK

LEMMA DeviceCases ==
    ASSUME DeviceOK, device # None
    PROVE  \E keys \in SUBSET Keys : device \in Device(keys) /\ keys = DOMAIN device.peers
BY DEF DeviceOK, Device

\* The process that takes a step, and what it has in memory.
LEMMA HereFacts ==
    ASSUME Safe, NEW p \in Processes
    PROVE  /\ LocalsOK /\ DeviceOK /\ WorldOK /\ started \in BOOLEAN /\ budget \in 0..MaxDisturbances
           /\ pc[p] \in Steps /\ job[p] \in Job /\ JobOK(p, pc[p], job[p])
           /\ OverlapInvOf(pc[p], job[p])
           /\ job[p].item # None => job[p].item \in Interfaces
           /\ job' = job => job' = [job EXCEPT ![p] = job[p]]
BY DEF Safe, TypeInv, LocalsOK, WorldOK, OverlapInv, Job

LEMMA RemoveLinkSafe ==
    ASSUME Safe, NEW p \in Processes, RemoveLink(p)
    PROVE  Safe'
<1>1. "truncate" \in Steps /\ JobOK(p, "truncate", job[p]) /\ OverlapInvOf("truncate", job[p])
  BY HereFacts DEF RemoveLink, Steps, JobOK, OverlapInvOf, ApplySteps
<1>2. DeviceOK'
  BY DEF RemoveLink, DeviceOK
<1> QED
  BY <1>1, <1>2, HereFacts, QuietSafe DEF RemoveLink

LEMMA RemovePeerSafe ==
    ASSUME Safe, NEW p \in Processes, RemovePeer(p)
    PROVE  Safe'
<1> PICK step : step = IF job[p].result = "removed" THEN "unroute" ELSE "show"
  OBVIOUS
<1>1. step \in Steps /\ JobOK(p, step, job[p]) /\ OverlapInvOf(step, job[p])
  BY HereFacts DEF RemovePeer, Steps, JobOK, OverlapInvOf, ApplySteps
<1>2. DeviceOK'
  <2>1. CASE device = None
    BY <2>1 DEF RemovePeer, DeviceOK
  <2>2. CASE device # None
    <3>1. PICK keys \in SUBSET Keys : device \in Device(keys)
      BY <2>2, HereFacts, DeviceCases
    <3> QED
      BY <2>2, <3>1, ForgetsFacts DEF RemovePeer, DeviceOK
  <2> QED
    BY <2>1, <2>2
<1> QED
  BY <1>1, <1>2, HereFacts, QuietSafe DEF RemovePeer

LEMMA WithoutRoutesOK ==
    ASSUME DeviceOK, NEW cidrs, device' = WithoutRoutes(device, cidrs)
    PROVE  DeviceOK'
<1>1. CASE device = None
  BY <1>1 DEF WithoutRoutes, DeviceOK
<1>2. CASE device # None
  <2>1. PICK keys \in SUBSET Keys : device \in Device(keys)
    BY <1>2, DeviceCases
  <2> QED
    BY <1>2, <2>1, WithoutRoutesFacts DEF WithoutRoutes, DeviceOK
<1> QED
  BY <1>1, <1>2

LEMMA UnrouteSafe ==
    ASSUME Safe, NEW p \in Processes, Unroute(p)
    PROVE  Safe'
<1> PICK step : step = IF job[p].result = "removed" THEN "unsync" ELSE "show"
  OBVIOUS
<1> PICK j : j = [job[p] EXCEPT !.cidrs = {}]
  OBVIOUS
<1>1. j \in Job /\ j.item = job[p].item /\ j.at = job[p].at /\ j.result = job[p].result
  BY HereFacts DEF Job
<1>2. step \in Steps /\ JobOK(p, step, j) /\ OverlapInvOf(step, j)
  BY <1>1, HereFacts DEF Unroute, Steps, JobOK, OverlapInvOf, ApplySteps
<1>3. DeviceOK'
  BY HereFacts, WithoutRoutesOK DEF Unroute
<1>4. job' = [job EXCEPT ![p] = j]
  BY DEF Unroute
<1> QED
  BY <1>1, <1>2, <1>3, <1>4, QuietSafe DEF Unroute

LEMMA ShowLinkSafe ==
    ASSUME Safe, NEW p \in Processes, ShowLink(p)
    PROVE  Safe'
<1> PICK step : step = IF device = None THEN "add" ELSE "flush"
  OBVIOUS
<1>1. step \in Steps /\ JobOK(p, step, job[p]) /\ OverlapInvOf(step, job[p])
  BY HereFacts DEF ShowLink, Steps, JobOK, OverlapInvOf, ApplySteps
<1>2. DeviceOK'
  BY HereFacts DEF ShowLink, DeviceOK
<1> QED
  BY <1>1, <1>2, HereFacts, QuietSafe DEF ShowLink

\* A command that is an error leaves the kernel alone.
LEMMA ErrorSafe ==
    ASSUME Safe, NEW p \in Processes, Finish(p, "error"), UNCHANGED <<file, device, started>>,
           budget' \in 0..MaxDisturbances
    PROVE  Safe'
<1>1. DeviceOK'
  BY HereFacts DEF DeviceOK
<1> QED
  BY <1>1, HereFacts, FinishSafe

LEMMA AddLinkSafe ==
    ASSUME Safe, NEW p \in Processes, AddLink(p)
    PROVE  Safe'
<1>1. CASE device = None
  <2>1. "flush" \in Steps /\ JobOK(p, "flush", job[p]) /\ OverlapInvOf("flush", job[p])
    BY HereFacts DEF AddLink, Steps, JobOK, OverlapInvOf, ApplySteps
  <2>2. DeviceOK'
    <3>1. << >> \in [{} -> SUBSET Cidr]
      OBVIOUS
    <3>2. NewDevice \in Device({})
      BY <3>1 DEF NewDevice, Device
    <3> QED
      BY <1>1, <3>2 DEF AddLink, DeviceOK
  <2> QED
    BY <1>1, <2>1, <2>2, HereFacts, QuietSafe DEF AddLink
<1>2. CASE device # None
  BY <1>2, HereFacts, ErrorSafe DEF AddLink
<1> QED
  BY <1>1, <1>2

LEMMA FlushedFacts ==
    ASSUME NEW keys \in SUBSET Keys, NEW d \in Device(keys)
    PROVE  LET after == [d EXCEPT !.addresses = {}, !.routes = {c \in @ : c.family = 6}]
           IN /\ after \in Device(keys) /\ after.addresses = {} /\ after.peers = d.peers
              /\ after.routes \subseteq d.routes
BY DEF Device

LEMMA FlushAddressesSafe ==
    ASSUME Safe, NEW p \in Processes, FlushAddresses(p)
    PROVE  Safe'
<1>1. CASE device # None
  <2>1. "address" \in Steps /\ JobOK(p, "address", job[p]) /\ OverlapInvOf("address", job[p])
    BY HereFacts DEF FlushAddresses, Steps, JobOK, OverlapInvOf, ApplySteps
  <2>2. DeviceOK'
    <3>1. PICK keys \in SUBSET Keys : device \in Device(keys)
      BY <1>1, HereFacts, DeviceCases
    <3> QED
      BY <1>1, <3>1, FlushedFacts DEF FlushAddresses, DeviceOK
  <2> QED
    BY <1>1, <2>1, <2>2, HereFacts, QuietSafe DEF FlushAddresses
<1>2. CASE device = None
  BY <1>2, HereFacts, ErrorSafe DEF FlushAddresses
<1> QED
  BY <1>1, <1>2

LEMMA AddressedFacts ==
    ASSUME NEW keys \in SUBSET Keys, NEW d \in Device(keys), NEW more \in SUBSET {4, 6}
    PROVE  LET after == [d EXCEPT !.addresses = @ \cup more]
           IN /\ after \in Device(keys) /\ after.addresses = d.addresses \cup more
              /\ after.peers = d.peers /\ after.routes = d.routes
BY DEF Device

LEMMA AddAddressesSafe ==
    ASSUME Safe, NEW p \in Processes, AddAddresses(p)
    PROVE  Safe'
<1> PICK missing : missing = IF device = None THEN {} ELSE Addresses(job[p].item) \ device.addresses
  OBVIOUS
<1>1. CASE device # None /\ missing = Addresses(job[p].item)
  <2>1. /\ device' = [device EXCEPT !.addresses = @ \cup missing]
        /\ Goto(p, "peer") /\ UNCHANGED <<file, started, job, ghost, budget>> /\ pc[p] = "address"
    BY <1>1 DEF AddAddresses
  <2>2. DeviceOK'
    <3>1. PICK keys \in SUBSET Keys : device \in Device(keys)
      BY <1>1, HereFacts, DeviceCases
    <3>2. missing \in SUBSET {4, 6}
      BY <1>1 DEF Addresses
    <3> QED
      BY <2>1, <3>1, <3>2, AddressedFacts DEF DeviceOK
  <2>3. job[p].item \in Interfaces /\ job[p].at = 1
    BY <2>1, HereFacts DEF JobOK, ApplySteps
  <2>4. 1 \in DOMAIN job[p].item.peers \/ job[p].item.peers = << >>
    <3>1. job[p].item.peers \in Seq(Peers)
      BY <2>3, PeersOf
    <3> QED
      BY <3>1, EmptySeq, LenProperties
  <2>5. \A n \in DOMAIN job[p].item.peers : ~(n < 1)
    BY <2>3, PeersOf
  <2>6. Checked(job[p].item, 1)
    BY <2>5 DEF Checked
  <2>7. Distinct(job[p].item) /\ job[p].item # None /\ JobOK(p, "address", job[p])
    BY <2>1, <2>3, HereFacts, PeersAssumption DEF OverlapInvOf
  <2>8. "peer" \in Steps /\ JobOK(p, "peer", job[p])
    BY <2>3, <2>4, <2>7 DEF Steps, JobOK
  <2>9. OverlapInvOf("peer", job[p])
    BY <2>3, <2>6, <2>7 DEF OverlapInvOf
  <2> QED
    BY <2>1, <2>2, <2>8, <2>9, HereFacts, QuietSafe
<1>2. CASE ~(device # None /\ missing = Addresses(job[p].item))
  BY <1>2, HereFacts, ErrorSafe DEF AddAddresses
<1> QED
  BY <1>1, <1>2

\* The loop over the peers: at the end every pair has been checked.
LEMMA CheckedAll ==
    ASSUME NEW item \in Interfaces, Distinct(item), Checked(item, Len(item.peers) + 1)
    PROVE  OverlapFree(item)
<1> SUFFICES ASSUME NEW n \in DOMAIN item.peers, NEW m \in DOMAIN item.peers,
                    n # m, item.peers[n].enabled, item.peers[m].enabled,
                    Overlaps(item.peers[n], item.peers[m])
             PROVE  FALSE
  BY DEF OverlapFree
<1>1. n < Len(item.peers) + 1
  BY PeersOf
<1>2. ~Conflict(item.peers, item.peers[n])
  BY <1>1 DEF Checked
<1>3. item.peers[m] \in Range(item.peers) /\ item.peers[m].id # item.peers[n].id
  BY DEF Range, Distinct
<1> QED
  BY <1>2, <1>3 DEF Conflict, Overlaps

LEMMA NextPeerOnwardSafe ==
    ASSUME Safe, NEW p \in Processes, pc[p] = "peer", NextPeer(p), DeviceOK',
           job[p].item.peers # << >> /\ job[p].item.peers[job[p].at].enabled =>
               ~Conflict(job[p].item.peers, job[p].item.peers[job[p].at]),
           UNCHANGED <<file, started, undisturbed, outcome>>,
           swallowed' \in BOOLEAN, clean' \in BOOLEAN, budget' \in 0..MaxDisturbances
    PROVE  Safe'
<1> PICK item : item = job[p].item
  OBVIOUS
<1> PICK at : at = job[p].at
  OBVIOUS
<1>1. /\ item \in Interfaces /\ item # None /\ Distinct(item) /\ Checked(item, at)
      /\ ((item.peers = << >> /\ at \in Nat \ {0}) \/ at \in DOMAIN item.peers)
      /\ job[p] \in Job /\ JobOK(p, "peer", job[p])
  BY HereFacts DEF JobOK, ApplySteps, OverlapInvOf, Job
<1>2. Len(item.peers) \in Nat /\ DOMAIN item.peers = 1..Len(item.peers)
      /\ (item.peers = << >> => Len(item.peers) = 0)
  BY <1>1, PeersOf, EmptySeq
<1>3. at \in Nat \ {0}
  BY <1>1, <1>2
<1>4. Checked(item, at + 1)
  <2> SUFFICES ASSUME NEW n \in DOMAIN item.peers, n < at + 1, item.peers[n].enabled
               PROVE  ~Conflict(item.peers, item.peers[n])
    BY DEF Checked
  <2>1. CASE n < at
    BY <2>1, <1>1 DEF Checked
  <2>2. CASE n = at
    BY <2>2, <1>2
  <2> QED
    BY <2>1, <2>2, <1>2, <1>3
<1>5. CASE at < Len(item.peers)
  <2> PICK j : j = [job[p] EXCEPT !.at = at + 1]
    OBVIOUS
  <2>1. j \in Job /\ j.item = item /\ j.at = at + 1 /\ j.result = job[p].result
    BY <1>1, <1>3 DEF Job
  <2>2. job' = [job EXCEPT ![p] = j] /\ Goto(p, "peer")
    BY <1>5 DEF NextPeer
  <2>3. "peer" \in Steps /\ JobOK(p, "peer", j)
    BY <1>1, <1>2, <1>3, <1>5, <2>1 DEF Steps, JobOK
  <2>4. OverlapInvOf("peer", j)
    BY <1>1, <1>4, <2>1 DEF OverlapInvOf
  <2> QED
    BY <2>1, <2>2, <2>3, <2>4, OnwardSafe
<1>6. CASE ~(at < Len(item.peers))
  <2> PICK j : j = [job[p] EXCEPT !.at = 1]
    OBVIOUS
  <2>1. j \in Job /\ j.item = item /\ j.at = 1 /\ j.result = job[p].result
    BY <1>1 DEF Job
  <2>2. job' = [job EXCEPT ![p] = j] /\ Goto(p, "unsync")
    BY <1>6 DEF NextPeer
  <2>3. "unsync" \in Steps /\ JobOK(p, "unsync", j)
    BY <1>1, <2>1 DEF Steps, JobOK
  <2>4. Checked(item, Len(item.peers) + 1)
    BY <1>1, <1>2, <1>3, <1>4, <1>6 DEF Checked
  <2>5. OverlapInvOf("unsync", j)
    BY <1>1, <2>1, <2>4, CheckedAll DEF OverlapInvOf
  <2> QED
    BY <2>1, <2>2, <2>3, <2>5, OnwardSafe
<1> QED
  BY <1>5, <1>6

LEMMA NextPeerSafe ==
    ASSUME Safe, NEW p \in Processes, pc[p] = "peer", NextPeer(p), DeviceOK',
           job[p].item.peers # << >> /\ job[p].item.peers[job[p].at].enabled =>
               ~Conflict(job[p].item.peers, job[p].item.peers[job[p].at]),
           UNCHANGED <<file, started, ghost, budget>>
    PROVE  Safe'
<1>1. UNCHANGED <<undisturbed, outcome, swallowed, clean>>
  BY DEF ghost
<1> QED
  BY <1>1, NextPeerOnwardSafe DEF Safe, TypeInv, WorldOK

\* The peer that is next, if there is one.
LEMMA NextIsPeer ==
    ASSUME Safe, NEW p \in Processes, pc[p] = "peer"
    PROVE  /\ job[p].item \in Interfaces
           /\ job[p].item.peers # << >> =>
                /\ job[p].at \in DOMAIN job[p].item.peers
                /\ job[p].item.peers[job[p].at] \in Peers
                /\ job[p].item.peers[job[p].at].id \in Keys
<1>1. /\ job[p].item \in Interfaces
      /\ job[p].item.peers # << >> => job[p].at \in DOMAIN job[p].item.peers
  BY HereFacts DEF JobOK, ApplySteps
<1> QED
  BY <1>1, PeersOf DEF Peers

LEMMA ApplyPeerSafe ==
    ASSUME Safe, NEW p \in Processes, ApplyPeer(p)
    PROVE  Safe'
<1> PICK peers : peers = job[p].item.peers
  OBVIOUS
<1> PICK peer : peer = peers[job[p].at]
  OBVIOUS
<1>1. pc[p] = "peer" /\ UNCHANGED <<file, started, budget>>
  BY DEF ApplyPeer
<1>2. peers # << >> => peer \in Peers /\ peer.id \in Keys
  BY <1>1, NextIsPeer
<1>3. CASE peers = << >>
  <2>1. NextPeer(p) /\ UNCHANGED <<device, ghost>>
    BY <1>3 DEF ApplyPeer
  <2>2. DeviceOK'
    BY <2>1, HereFacts DEF DeviceOK
  <2> QED
    BY <1>1, <1>3, <2>1, <2>2, NextPeerSafe
<1>4. CASE peers # << >> /\ ~peer.enabled
  <2>1. /\ device' = IF device = None THEN None ELSE Forgets(device, {peer.id})
        /\ NextPeer(p) /\ UNCHANGED ghost
    BY <1>4 DEF ApplyPeer
  <2>2. DeviceOK'
    <3>1. CASE device = None
      BY <2>1, <3>1 DEF DeviceOK
    <3>2. CASE device # None
      <4>1. PICK keys \in SUBSET Keys : device \in Device(keys)
        BY <3>2, HereFacts, DeviceCases
      <4>2. Forgets(device, {peer.id}) \in Device(keys \ {peer.id})
        BY <4>1, ForgetsFacts
      <4> QED
        BY <2>1, <3>2, <4>2 DEF DeviceOK
    <3> QED
      BY <3>1, <3>2
  <2> QED
    BY <1>1, <1>4, <2>1, <2>2, NextPeerSafe
<1>5. CASE peers # << >> /\ peer.enabled /\ (device = None \/ Conflict(peers, peer))
  BY <1>1, <1>5, HereFacts, ErrorSafe DEF ApplyPeer
<1>6. CASE peers # << >> /\ peer.enabled /\ device # None /\ ~Conflict(peers, peer)
  <2>1. /\ device' = Admits(device, peer.id, computedServerAllowedIps(peer))
        /\ NextPeer(p) /\ UNCHANGED ghost
    BY <1>6 DEF ApplyPeer
  <2>2. DeviceOK'
    <3>1. PICK keys \in SUBSET Keys : device \in Device(keys)
      BY <1>6, HereFacts, DeviceCases
    <3>2. Admits(device, peer.id, computedServerAllowedIps(peer)) \in Device(keys \cup {peer.id})
      BY <1>2, <1>6, <3>1, AllowedIpsType, AdmitsFacts
    <3> QED
      BY <1>2, <1>6, <2>1, <3>2 DEF DeviceOK
  <2> QED
    BY <1>1, <1>6, <2>1, <2>2, NextPeerSafe
<1> QED
  BY <1>3, <1>4, <1>5, <1>6

LEMMA SyncedFacts ==
    ASSUME NEW p \in Processes, NEW j \in Job, JobOK(p, "unsync", j) \/ JobOK(p, "sync", j),
           OverlapInvOf("unsync", j) \/ OverlapInvOf("sync", j)
    PROVE  Synced(p) \in Steps /\ JobOK(p, Synced(p), j) /\ OverlapInvOf(Synced(p), j)
<1>1. (Synced(p) = "policies" /\ p = Boot) \/ (Synced(p) = "truncate" /\ p # Boot)
  BY DEF Synced
<1> QED
  BY <1>1 DEF Steps, JobOK, OverlapInvOf, ApplySteps

LEMMA UnsyncRoutesSafe ==
    ASSUME Safe, NEW p \in Processes, UnsyncRoutes(p)
    PROVE  Safe'
<1> PICK routes : routes = SiteRoutes(job[p].item)
  OBVIOUS
<1> PICK j : j = [job[p] EXCEPT !.cidrs = routes]
  OBVIOUS
<1> PICK step : step = IF routes = {} THEN Synced(p) ELSE "sync"
  OBVIOUS
<1>1. job[p].item \in Interfaces /\ routes \in SUBSET Cidr
  BY HereFacts, RoutesType DEF UnsyncRoutes, JobOK, ApplySteps
<1>2. j \in Job /\ j.item = job[p].item /\ j.at = job[p].at /\ j.result = job[p].result
  BY <1>1, HereFacts DEF Job
<1>3. JobOK(p, "unsync", j) /\ OverlapInvOf("unsync", j)
  BY <1>2, HereFacts DEF UnsyncRoutes, JobOK, OverlapInvOf
<1>4. step \in Steps /\ JobOK(p, step, j) /\ OverlapInvOf(step, j)
  <2>1. CASE routes = {}
    BY <2>1, <1>2, <1>3, SyncedFacts
  <2>2. CASE routes # {}
    BY <2>2, <1>3 DEF Steps, JobOK, OverlapInvOf, ApplySteps
  <2> QED
    BY <2>1, <2>2
<1>5. DeviceOK'
  BY HereFacts, WithoutRoutesOK DEF UnsyncRoutes
<1>6. job' = [job EXCEPT ![p] = j] /\ Goto(p, step) /\ UNCHANGED <<file, started, ghost, budget>>
  BY DEF UnsyncRoutes
<1> QED
  BY <1>2, <1>4, <1>5, <1>6, QuietSafe

LEMMA RoutedFacts ==
    ASSUME NEW keys \in SUBSET Keys, NEW d \in Device(keys), NEW c \in Cidr
    PROVE  LET after == [d EXCEPT !.routes = @ \cup {c}]
           IN /\ after \in Device(keys) /\ after.addresses = d.addresses
              /\ after.peers = d.peers /\ after.routes = d.routes \cup {c}
BY DEF Device

LEMMA SyncRoutesSafe ==
    ASSUME Safe, NEW p \in Processes, SyncRoutes(p)
    PROVE  Safe'
<1>1. CASE device = None
  BY <1>1, HereFacts, ErrorSafe DEF SyncRoutes
<1>2. CASE device # None
  <2>1. PICK c \in job[p].cidrs :
          /\ device' = [device EXCEPT !.routes = @ \cup {c}]
          /\ job' = [job EXCEPT ![p].cidrs = @ \ {c}]
          /\ Goto(p, IF job[p].cidrs = {c} THEN Synced(p) ELSE "sync")
          /\ UNCHANGED <<file, started, ghost, budget>>
    BY <1>2 DEF SyncRoutes
  <2> PICK j : j = [job[p] EXCEPT !.cidrs = @ \ {c}]
    OBVIOUS
  <2> PICK step : step = IF job[p].cidrs = {c} THEN Synced(p) ELSE "sync"
    OBVIOUS
  <2>2. /\ j \in Job /\ j.item = job[p].item /\ j.at = job[p].at /\ j.result = job[p].result
        /\ c \in Cidr
    BY <2>1, HereFacts DEF Job
  <2>3. JobOK(p, "sync", j) /\ OverlapInvOf("sync", j)
    BY <2>2, HereFacts DEF SyncRoutes, JobOK, OverlapInvOf
  <2>4. step \in Steps /\ JobOK(p, step, j) /\ OverlapInvOf(step, j)
    <3>1. CASE step = "sync"
      BY <3>1, <2>3 DEF Steps
    <3>2. CASE step = Synced(p)
      BY <3>2, <2>2, <2>3, SyncedFacts
    <3> QED
      BY <3>1, <3>2
  <2>5. DeviceOK'
    <3>1. PICK keys \in SUBSET Keys : device \in Device(keys)
      BY <1>2, HereFacts, DeviceCases
    <3> QED
      BY <2>1, <2>2, <3>1, RoutedFacts DEF DeviceOK
  <2>6. job' = [job EXCEPT ![p] = j]
    BY <2>1
  <2> QED
    BY <2>1, <2>2, <2>4, <2>5, <2>6, QuietSafe
<1> QED
  BY <1>1, <1>2

LEMMA TruncateSafe ==
    ASSUME Safe, NEW p \in Processes, Truncate(p)
    PROVE  Safe'
<1>1. "write" \in Steps /\ JobOK(p, "write", job[p]) /\ OverlapInvOf("write", job[p])
  BY HereFacts DEF Truncate, Steps, JobOK, OverlapInvOf, ApplySteps
<1>2. DeviceOK'
  BY HereFacts DEF Truncate, DeviceOK
<1> QED
  BY <1>1, <1>2, HereFacts, QuietSafe DEF Truncate

LEMMA WriteSafe ==
    ASSUME Safe, NEW p \in Processes, Write(p)
    PROVE  Safe'
<1>1. file' = job[p].item /\ (job[p].item # None => OverlapFree(job[p].item))
  BY HereFacts DEF Write, OverlapInvOf
<1>2. DeviceOK'
  BY HereFacts DEF Write, DeviceOK
<1>3. CASE job[p].result = "created"
  <2>1. Finish(p, "applied") /\ UNCHANGED <<started, budget>>
    BY <1>3 DEF Write
  <2>2. "applied" \in Results \ {"created"}
    BY DEF Results
  <2> QED
    BY <1>1, <1>2, <2>1, <2>2, HereFacts, FinishSafe
<1>4. CASE job[p].result # "created"
  <2>1. "policies" \in Steps /\ JobOK(p, "policies", job[p]) /\ OverlapInvOf("policies", job[p])
    BY <1>4, HereFacts DEF Write, Steps, JobOK, OverlapInvOf, ApplySteps
  <2> QED
    BY <1>1, <1>2, <1>4, <2>1, HereFacts, QuietSafe DEF Write
<1> QED
  BY <1>3, <1>4

LEMMA ApplyPoliciesSafe ==
    ASSUME Safe, NEW p \in Processes, ApplyPolicies(p)
    PROVE  Safe'
<1>1. job[p].result \in Results \ {"created"}
  BY HereFacts DEF ApplyPolicies, JobOK, Job
<1>2. DeviceOK'
  BY HereFacts DEF ApplyPolicies, DeviceOK
<1> QED
  BY <1>1, <1>2, HereFacts, FinishSafe DEF ApplyPolicies

LEMMA DisturbFacts ==
    ASSUME NEW kind, Disturb(kind), budget \in 0..MaxDisturbances
    PROVE  budget' \in 0..MaxDisturbances
BY PeersAssumption DEF Disturb

LEMMA FailureSafe ==
    ASSUME Safe, NEW p \in Processes, CommandFails(p) \/ SaveFails(p)
    PROVE  Safe'
<1>1. Finish(p, "error") /\ UNCHANGED <<file, device, started>>
  BY DEF CommandFails, SaveFails
<1>2. budget' \in 0..MaxDisturbances
  BY HereFacts, DisturbFacts DEF CommandFails, SaveFails
<1> QED
  BY <1>1, <1>2, ErrorSafe

LEMMA SilentFacts ==
    ASSUME Safe, NEW p \in Processes, FailsSilently(p)
    PROVE  /\ UNCHANGED <<file, started, undisturbed, outcome>>
           /\ swallowed' = TRUE /\ clean' = FALSE /\ budget' \in 0..MaxDisturbances
           /\ pc[p] \in {"unlink", "unpeer", "unroute", "show", "flush", "peer", "unsync"}
BY HereFacts, DisturbFacts DEF FailsSilently, AtDisabled, AtPeer

LEMMA SilentSafe ==
    ASSUME Safe, NEW p \in Processes, FailsSilently(p)
    PROVE  Safe'
<1> PICK old : old = job[p]
  OBVIOUS
<1>1. /\ UNCHANGED <<file, started, undisturbed, outcome>>
      /\ swallowed' \in BOOLEAN /\ clean' \in BOOLEAN /\ budget' \in 0..MaxDisturbances
  BY SilentFacts
<1>2. old \in Job /\ JobOK(p, pc[p], old) /\ OverlapInvOf(pc[p], old) /\ DeviceOK
  BY HereFacts
<1>3. ASSUME UNCHANGED <<device, job>>, NEW step \in Steps, Goto(p, step),
             JobOK(p, step, old), OverlapInvOf(step, old)
      PROVE  Safe'
  <2>1. DeviceOK'
    BY <1>2, <1>3 DEF DeviceOK
  <2> QED
    BY <1>1, <1>2, <1>3, <2>1, HereFacts, OnwardSafe
<1>4. CASE pc[p] = "unlink"
  <2>1. Goto(p, "truncate") /\ UNCHANGED <<device, job>>
    BY <1>4 DEF FailsSilently, AtDisabled, AtPeer
  <2> QED
    BY <1>2, <1>3, <1>4, <2>1 DEF Steps, JobOK, OverlapInvOf, ApplySteps
<1>5. CASE pc[p] = "unpeer"
  <2>1. /\ Goto(p, IF old.result = "removed" THEN "unroute" ELSE "show")
        /\ UNCHANGED <<device, job>>
    BY <1>5 DEF FailsSilently, AtDisabled, AtPeer
  <2> QED
    BY <1>2, <1>3, <1>5, <2>1 DEF Steps, JobOK, OverlapInvOf, ApplySteps
<1>6. CASE pc[p] = "show"
  <2>1. Goto(p, "add") /\ UNCHANGED <<device, job>>
    BY <1>6 DEF FailsSilently, AtDisabled, AtPeer
  <2> QED
    BY <1>2, <1>3, <1>6, <2>1 DEF Steps, JobOK, OverlapInvOf, ApplySteps
<1>7. CASE pc[p] = "flush"
  <2>1. Goto(p, "address") /\ UNCHANGED <<device, job>>
    BY <1>7 DEF FailsSilently, AtDisabled, AtPeer
  <2> QED
    BY <1>2, <1>3, <1>7, <2>1 DEF Steps, JobOK, OverlapInvOf, ApplySteps
<1>8. CASE pc[p] = "unroute"
  <2> PICK j : j = [old EXCEPT !.cidrs = {}]
    OBVIOUS
  <2> PICK step : step = IF old.result = "removed" THEN "unsync" ELSE "show"
    OBVIOUS
  <2>1. /\ \E cidrs : device' = WithoutRoutes(device, cidrs)
        /\ job' = [job EXCEPT ![p] = j] /\ Goto(p, step)
    BY <1>8 DEF FailsSilently, AtDisabled, AtPeer
  <2>2. j \in Job /\ j.item = old.item /\ j.at = old.at /\ j.result = old.result
    BY <1>2 DEF Job
  <2>3. step \in Steps /\ JobOK(p, step, j) /\ OverlapInvOf(step, j)
    BY <1>2, <1>8, <2>2 DEF Steps, JobOK, OverlapInvOf, ApplySteps
  <2>4. DeviceOK'
    BY <1>2, <2>1, WithoutRoutesOK
  <2> QED
    BY <1>1, <2>1, <2>2, <2>3, <2>4, OnwardSafe
<1>9. CASE pc[p] = "peer"
  <2>1. NextPeer(p) /\ UNCHANGED device /\ ~old.item.peers[old.at].enabled
    BY <1>9 DEF FailsSilently, AtDisabled, AtPeer
  <2>2. DeviceOK'
    BY <1>2, <2>1 DEF DeviceOK
  <2> QED
    BY <1>1, <1>9, <2>1, <2>2, NextPeerOnwardSafe
<1>10. CASE pc[p] = "unsync"
  <2> PICK routes : routes = SiteRoutes(old.item)
    OBVIOUS
  <2> PICK j : j = [old EXCEPT !.cidrs = routes]
    OBVIOUS
  <2> PICK step : step = IF routes = {} THEN Synced(p) ELSE "sync"
    OBVIOUS
  <2>1. /\ \E cidrs : device' = WithoutRoutes(device, cidrs)
        /\ job' = [job EXCEPT ![p] = j] /\ Goto(p, step)
    BY <1>10 DEF FailsSilently, AtDisabled, AtPeer
  <2>2. old.item \in Interfaces /\ routes \in SUBSET Cidr
    BY <1>2, <1>10, HereFacts, RoutesType DEF JobOK, ApplySteps
  <2>3. j \in Job /\ j.item = old.item /\ j.at = old.at /\ j.result = old.result
    BY <1>2, <2>2 DEF Job
  <2>4. JobOK(p, "unsync", j) /\ OverlapInvOf("unsync", j)
    BY <1>2, <1>10, <2>3 DEF JobOK, OverlapInvOf
  <2>5. step \in Steps /\ JobOK(p, step, j) /\ OverlapInvOf(step, j)
    <3>1. CASE routes = {}
      BY <2>3, <2>4, <3>1, SyncedFacts
    <3>2. CASE routes # {}
      BY <2>4, <3>2 DEF Steps, JobOK, OverlapInvOf, ApplySteps
    <3> QED
      BY <3>1, <3>2
  <2>6. DeviceOK'
    BY <1>2, <2>1, WithoutRoutesOK
  <2> QED
    BY <1>1, <2>1, <2>3, <2>5, <2>6, OnwardSafe
<1> QED
  BY <1>4, <1>5, <1>6, <1>7, <1>8, <1>9, <1>10, SilentFacts

LEMMA StopSafe ==
    ASSUME Safe, Crash \/ Reboot
    PROVE  Safe'
<1>1. NoJob \in Job /\ NoJob.at = 1 /\ NoJob.result = "none" /\ NoJob.item = None
  BY NoJobType DEF NoJob
<1>2. Stop /\ file' = file /\ (device' = device \/ device' = None)
  BY DEF Crash, Reboot
<1>3. budget' \in 0..MaxDisturbances
  BY DisturbFacts DEF Crash, Reboot, Safe, TypeInv, WorldOK
<1>4. LocalsOK'
  BY <1>1, <1>2 DEF Stop, LocalsOK, JobOK, Steps, ApplySteps
<1>5. DeviceOK'
  BY <1>2 DEF Safe, TypeInv, DeviceOK
<1>6. undisturbed' \in [Processes -> BOOLEAN]
  BY <1>2, Zenon DEF Stop
<1>7. WorldOK'
  BY <1>2, <1>3, <1>6 DEF Stop, WorldOK, Safe, TypeInv
<1>8. OverlapInv'
  BY <1>1, <1>2 DEF Stop, OverlapInv, OverlapInvOf, Safe
<1> QED
  BY <1>4, <1>5, <1>7, <1>8 DEF Safe, TypeInv

-----------------------------------------------------------------------------
\* What is in force, from step to step.

Inv == Safe /\ ForceInv

\* What ForceInv says of an undisturbed process.
ForceOf(p, step, j) ==
    /\ j.result \in {"created", "applied"} => StageOf(p, step, j)
    /\ clean => TidyOf(step, j)

LEMMA ForceInit == Init => ForceInv
BY DEF Init, ForceInv, Lonely, Idle, Busy, Tidy

\* While nobody has disturbed p, nobody else does anything.
LEMMA OnwardForce ==
    ASSUME Inv, NEW p \in Processes, Busy(p), NEW step \in Steps \ {"idle"}, NEW j \in Job,
           Goto(p, step), job' = [job EXCEPT ![p] = j], UNCHANGED <<started, undisturbed, outcome>>,
           clean' => clean /\ ~swallowed',
           undisturbed[p] => ForceOf(p, step, j)'
    PROVE  ForceInv'
<1>1. LocalsOK /\ ForceInv /\ Lonely
  BY DEF Inv, Safe, TypeInv, ForceInv
<1>2. \A q \in Processes : IF q = p THEN pc'[q] = step /\ job'[q] = j
                           ELSE pc'[q] = pc[q] /\ job'[q] = job[q]
  BY <1>1 DEF Goto, LocalsOK
<1>3. ~Idle /\ outcome = "unknown" /\ started
  BY <1>1 DEF Lonely, Idle
<1>4. ~Idle' /\ \A q \in Processes : Busy(q)' <=> Busy(q)
  BY <1>2 DEF Idle, Busy
<1>5. UNCHANGED <<undisturbed, outcome, started>> /\ (clean' => clean /\ ~swallowed')
  OBVIOUS
<1>6. Lonely'
  BY <1>1, <1>3, <1>4, <1>5 DEF Lonely
<1>7. \A q \in Processes : undisturbed[q] => q = p
  BY <1>1 DEF Lonely
<1>8. \A q \in Processes : undisturbed'[q] =>
        /\ job'[q].result \in {"created", "applied"} => StageOf(q, pc[q], job[q])'
        /\ clean' => TidyOf(pc[q], job[q])'
  <2> SUFFICES ASSUME NEW q \in Processes, undisturbed'[q]
               PROVE  /\ job'[q].result \in {"created", "applied"} => StageOf(q, pc[q], job[q])'
                      /\ clean' => TidyOf(pc[q], job[q])'
    OBVIOUS
  <2>1. q = p /\ undisturbed[p] /\ pc'[q] = step /\ job'[q] = j
    BY <1>2, <1>5, <1>7
  <2>2. ForceOf(p, step, j)'
    BY <2>1
  <2> QED
    BY <2>1, <2>2 DEF ForceOf, StageOf, TidyOf
<1> QED
  BY <1>3, <1>4, <1>5, <1>6, <1>8 DEF ForceInv

\* In which nothing fails.
LEMMA QuietForce ==
    ASSUME Inv, NEW p \in Processes, Busy(p), NEW step \in Steps \ {"idle"}, NEW j \in Job,
           Goto(p, step), job' = [job EXCEPT ![p] = j], UNCHANGED <<started, ghost>>,
           undisturbed[p] => ForceOf(p, step, j)'
    PROVE  ForceInv'
<1>1. UNCHANGED <<undisturbed, outcome, swallowed, clean>>
  BY DEF ghost
<1>2. clean => ~swallowed
  BY DEF Inv, ForceInv, Lonely
<1> QED
  BY <1>1, <1>2, OnwardForce

LEMMA FinishForce ==
    ASSUME Inv, NEW p \in Processes, Busy(p), NEW result, Finish(p, result), UNCHANGED started,
           undisturbed[p] /\ result = "applied" => file' # None /\ Configured',
           undisturbed[p] /\ clean /\ result # "error" => Tidy'
    PROVE  ForceInv'
<1>1. LocalsOK /\ WorldOK /\ Lonely
  BY DEF Inv, Safe, TypeInv, ForceInv
<1>2. \A q \in Processes : pc'[q] = IF q = p THEN "idle" ELSE pc[q]
  BY <1>1 DEF Finish, Goto, LocalsOK
<1>3. \A q \in Processes : ~undisturbed'[q]
  BY <1>1 DEF Finish, Lonely, WorldOK
<1>4. undisturbed[p] => Idle'
  BY <1>1, <1>2 DEF Lonely, Idle, Busy
<1>5. started /\ started'
  BY <1>1 DEF Lonely, Idle
<1>6. /\ outcome' = (IF undisturbed[p] THEN result ELSE "unknown") /\ swallowed' = swallowed
      /\ clean' = (clean /\ result # "error")
  BY DEF Finish
<1>7. clean => undisturbed[p] /\ ~swallowed
  BY <1>1 DEF Lonely
<1>8. clean' => Idle'
  BY <1>4, <1>6, <1>7
<1>9. Lonely'
  <2>1. clean' => ~swallowed'
    BY <1>6, <1>7
  <2> QED
    BY <1>3, <1>4, <1>5, <1>6, <1>8, <2>1 DEF Lonely, Idle
<1> QED
  BY <1>3, <1>5, <1>6, <1>7, <1>9 DEF ForceInv

LEMMA ErrorForce ==
    ASSUME Inv, NEW p \in Processes, Busy(p), Finish(p, "error"), UNCHANGED started
    PROVE  ForceInv'
BY FinishForce

LEMMA StopForce == ASSUME Inv, Crash \/ Reboot PROVE ForceInv'
<1>1. Stop
  BY DEF Crash, Reboot
<1>2. /\ \A p \in Processes : ~undisturbed'[p] /\ ~Busy(p)'
      /\ outcome' = "unknown" /\ ~clean'
  BY <1>1 DEF Stop, Busy
<1> QED
  BY <1>2 DEF ForceInv, Lonely, Idle

LEMMA StartForce ==
    ASSUME Inv, NEW p \in Processes, StartAction(p)
    PROVE  ForceInv'
<1>1. LocalsOK /\ WorldOK /\ (clean /\ Idle => Tidy /\ (~started => file = None))
  BY DEF Inv, Safe, TypeInv, ForceInv
<1>2. Starts(p) /\ file' = file /\ started' = TRUE
  BY <1>1, StartActionFacts DEF Inv, Safe
<1>3. PICK step, j : Begin(p, step, j) /\ StartOK(p, step, j)
  BY <1>2 DEF Starts
<1>4. /\ step # "idle" /\ ~Busy(p)
      /\ \A q \in Processes : IF q = p THEN pc'[q] = step /\ job'[q] = j
                              ELSE pc'[q] = pc[q] /\ job'[q] = job[q]
  BY <1>1, <1>3 DEF Begin, Goto, StartOK, LocalsOK
<1>5. /\ \A q \in Processes : undisturbed'[q] = (q = p /\ Idle)
      /\ outcome' = "unknown" /\ swallowed' = FALSE /\ clean' = (clean /\ Idle)
  BY <1>3 DEF Begin, Idle
<1>6. ~Idle' /\ Busy(p)' /\ (Idle => \A q \in Processes \ {p} : ~Busy(q)')
  BY <1>4 DEF Idle, Busy
<1>7. Lonely'
  BY <1>2, <1>5, <1>6 DEF Lonely
<1>8. ForceOf(p, step, j)' \/ ~Idle
  <2> SUFFICES ASSUME Idle PROVE ForceOf(p, step, j)'
    OBVIOUS
  <2>1. j.result \in {"created", "applied"} => StageOf(p, step, j)'
    BY <1>2, <1>3 DEF StartOK, StageOf
  <2>2. clean' => TidyOf(step, j)'
    BY <1>3, <1>5 DEF StartOK
  <2> QED
    BY <2>1, <2>2 DEF ForceOf
<1>9. \A q \in Processes : undisturbed'[q] =>
        /\ job'[q].result \in {"created", "applied"} => StageOf(q, pc[q], job[q])'
        /\ clean' => TidyOf(pc[q], job[q])'
  <2> SUFFICES ASSUME NEW q \in Processes, undisturbed'[q]
               PROVE  /\ job'[q].result \in {"created", "applied"} => StageOf(q, pc[q], job[q])'
                      /\ clean' => TidyOf(pc[q], job[q])'
    OBVIOUS
  <2>1. q = p /\ Idle /\ pc'[q] = step /\ job'[q] = j
    BY <1>4, <1>5
  <2> QED
    BY <1>8, <2>1 DEF ForceOf, StageOf, TidyOf
<1> QED
  BY <1>5, <1>6, <1>7, <1>9 DEF ForceInv

\* What ForceInv says of the process that takes a step.
LEMMA HereForce ==
    ASSUME Inv, NEW p \in Processes
    PROVE  /\ Safe /\ ForceInv /\ clean \in BOOLEAN /\ (clean => ~swallowed)
           /\ undisturbed[p] => ForceOf(p, pc[p], job[p])
           /\ pc[p] \in ApplySteps \cup {"unpeer", "unroute"} =>
                /\ job[p].item # None /\ job[p].item \in Interfaces
                /\ job[p].result \notin {"none", "deleted"}
<1>1. Safe /\ ForceInv
  BY DEF Inv
<1>2. undisturbed[p] => ForceOf(p, pc[p], job[p])
  BY <1>1 DEF ForceInv, ForceOf
<1>3. clean \in BOOLEAN /\ (clean => ~swallowed)
  BY <1>1, HereFacts DEF WorldOK, ForceInv, Lonely
<1>4. pc[p] \in ApplySteps \cup {"unpeer", "unroute"} =>
        /\ job[p].item # None /\ job[p].item \in Interfaces
        /\ job[p].result \notin {"none", "deleted"}
  BY <1>1, HereFacts DEF JobOK
<1> QED
  BY <1>1, <1>2, <1>3, <1>4

\* Whether an interface is in force depends on the kernel alone.
LEMMA SameForce ==
    ASSUME NEW item, device # None, device' # None, swallowed => swallowed',
           device'.peers = device.peers, device'.addresses = device.addresses
    PROVE  /\ AllInForce(item) => AllInForce(item)'
           /\ AllInForce(item) /\ SiteRoutes(item) \subseteq device'.routes => Complete(item)'
BY DEF AllInForce, Addressed, Complete, Admitted

LEMMA RemoveLinkForce ==
    ASSUME Inv, NEW p \in Processes, RemoveLink(p)
    PROVE  ForceInv'
<1> PICK j : j = job[p]
  OBVIOUS
<1>1. /\ Goto(p, "truncate") /\ job' = [job EXCEPT ![p] = j] /\ device' = None
      /\ UNCHANGED <<started, ghost>> /\ j \in Job /\ Busy(p)
      /\ j.item = None /\ j.result = "deleted"
  BY HereForce, HereFacts DEF RemoveLink, Busy, JobOK
<1>2. ForceOf(p, "truncate", j)'
  BY <1>1 DEF ForceOf, TidyOf
<1> QED
  BY <1>1, <1>2, QuietForce DEF Steps

LEMMA RemovePeerForce ==
    ASSUME Inv, NEW p \in Processes, RemovePeer(p)
    PROVE  ForceInv'
<1> PICK j : j = job[p]
  OBVIOUS
<1> PICK step : step = IF j.result = "removed" THEN "unroute" ELSE "show"
  OBVIOUS
<1>1. /\ pc[p] = "unpeer" /\ Goto(p, step) /\ job' = [job EXCEPT ![p] = j]
      /\ UNCHANGED <<file, started, ghost>> /\ j \in Job /\ Busy(p)
      /\ j.item # None /\ j.result \notin {"none", "deleted", "created"}
  BY HereForce, HereFacts DEF RemovePeer, Busy, JobOK
<1>2. ASSUME undisturbed[p] PROVE ForceOf(p, step, j)'
  <2>1. ForceOf(p, "unpeer", j) /\ DeviceOK
    BY <1>1, <1>2, HereForce, HereFacts
  <2>2. j.result \in {"created", "applied"} => StageOf(p, step, j)'
    BY <1>1, <2>1 DEF ForceOf, StageOf
  <2>3. clean => TidyOf(step, j)'
    <3>1. SUFFICES ASSUME clean PROVE TidyOf(step, j)'
      OBVIOUS
    <3>2. TidyOf("unpeer", j)
      BY <2>1, <3>1 DEF ForceOf
    <3>3. CASE device = None
      <4>1. device' = None /\ j.result \notin {"saved", "removed"}
        BY <1>1, <3>2, <3>3 DEF RemovePeer, TidyOf, AllInForce, Addressed
      <4> QED
        BY <1>1, <4>1 DEF TidyOf
    <3>4. CASE device # None
      <4>1. PICK keys \in SUBSET Keys : device \in Device(keys) /\ keys = DOMAIN device.peers
        BY <2>1, <3>4, DeviceCases
      <4>2. /\ device' = Forgets(device, j.keys) /\ device' \in Device(keys \ j.keys)
            /\ device'.addresses = device.addresses /\ device'.routes = device.routes
            /\ \A k \in keys \ j.keys : device'.peers[k] = device.peers[k]
            /\ device' # None
        <5>1. device' = Forgets(device, j.keys)
          BY <3>4 DEF RemovePeer
        <5>2. device' \in Device(keys \ j.keys) /\ keys \ j.keys \in SUBSET Keys
          BY <4>1, <5>1, ForgetsFacts
        <5> QED
          BY <4>1, <5>1, <5>2, ForgetsFacts, PeersAssumption
      <4>3. DOMAIN device'.peers = keys \ j.keys
        BY <4>2 DEF Device
      <4>4. DOMAIN device'.peers \subseteq Ids(j.item)
        BY <1>1, <3>2, <3>4, <4>1, <4>3 DEF TidyOf
      <4>5. j.result = "removed" => AllInForce(j.item)'
        <5>1. SUFFICES ASSUME j.result = "removed" PROVE AllInForce(j.item)'
          OBVIOUS
        <5>2. AllInForce(j.item) /\ j.keys \cap Ids(j.item) = {}
          BY <1>1, <3>2, <5>1 DEF TidyOf
        <5>3. \A n \in DOMAIN j.item.peers : j.item.peers[n].id \notin j.keys
          BY <5>2 DEF Ids
        <5> QED
          BY <1>1, <4>1, <4>2, <4>3, <5>2, <5>3 DEF AllInForce, Addressed, Admitted, ghost
      <4>6. j.result # "saved"
        BY <1>1, <3>2 DEF TidyOf
      <4> QED
        BY <1>1, <3>2, <3>4, <4>2, <4>4, <4>5, <4>6 DEF TidyOf
    <3> QED
      BY <3>3, <3>4
  <2> QED
    BY <1>1, <2>2, <2>3 DEF ForceOf, ghost
<1>3. step \in Steps \ {"idle"}
  BY DEF Steps
<1> QED
  BY <1>1, <1>2, <1>3, QuietForce

LEMMA UnrouteForce ==
    ASSUME Inv, NEW p \in Processes, Unroute(p)
    PROVE  ForceInv'
<1> PICK old : old = job[p]
  OBVIOUS
<1> PICK j : j = [old EXCEPT !.cidrs = {}]
  OBVIOUS
<1> PICK step : step = IF j.result = "removed" THEN "unsync" ELSE "show"
  OBVIOUS
<1>1. old \in Job /\ j \in Job /\ j.item = old.item /\ j.keys = old.keys /\ j.cidrs = {} /\ j.at = old.at
      /\ j.result = old.result
  BY HereForce, HereFacts DEF Job
<1>2. /\ pc[p] = "unroute" /\ Goto(p, step) /\ job' = [job EXCEPT ![p] = j]
      /\ UNCHANGED <<file, started, ghost>> /\ Busy(p)
      /\ j.item # None /\ j.result \notin {"none", "deleted", "created"}
      /\ device' = WithoutRoutes(device, old.cidrs)
  BY <1>1, HereForce, HereFacts DEF Unroute, Busy, JobOK
<1>3. ASSUME undisturbed[p] PROVE ForceOf(p, step, j)'
  <2>1. ForceOf(p, "unroute", old) /\ DeviceOK
    BY <1>2, <1>3, HereForce, HereFacts
  <2>2. j.result \in {"created", "applied"} => StageOf(p, step, j)'
    BY <1>1, <1>2, <2>1 DEF ForceOf, StageOf
  <2>3. clean => TidyOf(step, j)'
    <3>1. SUFFICES ASSUME clean PROVE TidyOf(step, j)'
      OBVIOUS
    <3>2. TidyOf("unroute", old)
      BY <2>1, <3>1 DEF ForceOf
    <3>3. CASE device = None
      <4>1. device' = None /\ j.result \notin {"saved", "removed"}
        BY <1>1, <1>2, <3>2, <3>3 DEF WithoutRoutes, TidyOf, AllInForce, Addressed
      <4> QED
        BY <1>2, <4>1 DEF TidyOf
    <3>4. CASE device # None
      <4>1. PICK keys \in SUBSET Keys : device \in Device(keys) /\ keys = DOMAIN device.peers
        BY <2>1, <3>4, DeviceCases
      <4>2. /\ device' \in Device(keys) /\ device' # None
            /\ device'.addresses = device.addresses /\ device'.peers = device.peers
            /\ device'.routes = device.routes \ old.cidrs
        <5>1. device' = [device EXCEPT !.routes = @ \ old.cidrs]
          BY <1>2, <3>4 DEF WithoutRoutes
        <5>2. /\ device' \in Device(keys)
              /\ device'.addresses = device.addresses /\ device'.peers = device.peers
              /\ device'.routes = device.routes \ old.cidrs
          BY <4>1, <5>1, WithoutRoutesFacts
        <5> QED
          BY <5>2, PeersAssumption
      <4>3. DOMAIN device'.peers \subseteq Ids(j.item) /\ device'.routes \subseteq RemoteNetworks(j.item)
        BY <1>1, <1>2, <3>2, <3>4, <4>2 DEF TidyOf
      <4>4. j.result = "removed" => AllInForce(j.item)'
        BY <1>1, <1>2, <3>2, <3>4, <4>2, SameForce DEF TidyOf, ghost
      <4>5. j.result # "saved"
        BY <1>1, <1>2, <3>2 DEF TidyOf
      <4> QED
        BY <1>2, <4>2, <4>3, <4>4, <4>5 DEF TidyOf
    <3> QED
      BY <3>3, <3>4
  <2> QED
    BY <1>2, <2>2, <2>3 DEF ForceOf, ghost
<1>4. step \in Steps \ {"idle"}
  BY DEF Steps
<1> QED
  BY <1>1, <1>2, <1>3, <1>4, QuietForce

LEMMA ShowLinkForce ==
    ASSUME Inv, NEW p \in Processes, ShowLink(p)
    PROVE  ForceInv'
<1> PICK j : j = job[p]
  OBVIOUS
<1> PICK step : step = IF device = None THEN "add" ELSE "flush"
  OBVIOUS
<1>1. /\ pc[p] = "show" /\ Goto(p, step) /\ job' = [job EXCEPT ![p] = j]
      /\ UNCHANGED <<file, device, started, ghost>> /\ j \in Job /\ Busy(p)
      /\ j.item # None /\ j.result \notin {"none", "deleted"}
  BY HereForce, HereFacts DEF ShowLink, Busy, ApplySteps
<1>2. ASSUME undisturbed[p] PROVE ForceOf(p, step, j)'
  <2>1. ForceOf(p, "show", j)
    BY <1>1, <1>2, HereForce
  <2>2. j.result \in {"created", "applied"} => StageOf(p, step, j)'
    BY <1>1, <2>1 DEF ForceOf, StageOf
  <2>3. clean => TidyOf(step, j)'
    BY <1>1, <2>1 DEF ForceOf, TidyOf
  <2> QED
    BY <1>1, <2>2, <2>3 DEF ForceOf, ghost
<1>3. step \in Steps \ {"idle"}
  BY DEF Steps
<1> QED
  BY <1>1, <1>2, <1>3, QuietForce

LEMMA AddLinkForce ==
    ASSUME Inv, NEW p \in Processes, AddLink(p)
    PROVE  ForceInv'
<1> PICK j : j = job[p]
  OBVIOUS
<1>1. /\ pc[p] = "add" /\ UNCHANGED <<file, started>> /\ j \in Job /\ Busy(p)
      /\ j.item # None /\ j.result \notin {"none", "deleted"}
  BY HereForce, HereFacts DEF AddLink, Busy, ApplySteps
<1>2. CASE device # None
  BY <1>1, <1>2, ErrorForce DEF AddLink
<1>3. CASE device = None
  <2>1. /\ device' = NewDevice /\ Goto(p, "flush") /\ job' = [job EXCEPT ![p] = j] /\ UNCHANGED ghost
    BY <1>3, HereForce, HereFacts DEF AddLink
  <2>2. ASSUME undisturbed[p] PROVE ForceOf(p, "flush", j)'
    <3>1. ForceOf(p, "add", j)
      BY <1>1, <2>2, HereForce
    <3>2. j.result \in {"created", "applied"} => StageOf(p, "flush", j)'
      BY <1>1, <3>1 DEF ForceOf, StageOf
    <3>3. DOMAIN device'.peers = {} /\ device'.routes = {}
      BY <2>1 DEF NewDevice
    <3>4. clean => TidyOf("flush", j)'
      BY <1>1, <3>1, <3>3 DEF ForceOf, TidyOf
    <3> QED
      BY <1>1, <2>1, <3>2, <3>4 DEF ForceOf, ghost
  <2> QED
    BY <1>1, <2>1, <2>2, QuietForce DEF Steps
<1> QED
  BY <1>2, <1>3

LEMMA FlushAddressesForce ==
    ASSUME Inv, NEW p \in Processes, FlushAddresses(p)
    PROVE  ForceInv'
<1> PICK j : j = job[p]
  OBVIOUS
<1>1. /\ pc[p] = "flush" /\ UNCHANGED <<file, started>> /\ j \in Job /\ Busy(p)
      /\ j.item # None /\ j.result \notin {"none", "deleted"} /\ DeviceOK
  BY HereForce, HereFacts DEF FlushAddresses, Busy, ApplySteps
<1>2. CASE device = None
  BY <1>1, <1>2, ErrorForce DEF FlushAddresses
<1>3. CASE device # None
  <2>1. /\ device' = [device EXCEPT !.addresses = {}, !.routes = {c \in @ : c.family = 6}]
        /\ Goto(p, "address") /\ job' = [job EXCEPT ![p] = j] /\ UNCHANGED ghost
    BY <1>3, HereForce, HereFacts DEF FlushAddresses
  <2>2. PICK keys \in SUBSET Keys : device \in Device(keys)
    BY <1>1, <1>3, DeviceCases
  <2>3. /\ device' \in Device(keys) /\ device'.addresses = {}
        /\ device'.peers = device.peers /\ device'.routes \subseteq device.routes
    BY <2>1, <2>2, FlushedFacts
  <2>4. device' # None
    BY <2>3, PeersAssumption
  <2>5. ASSUME undisturbed[p] PROVE ForceOf(p, "address", j)'
    <3>1. ForceOf(p, "flush", j)
      BY <1>1, <2>5, HereForce
    <3>2. j.result \in {"created", "applied"} => StageOf(p, "address", j)'
      BY <1>1, <2>3, <2>4, <3>1 DEF ForceOf, StageOf
    <3>3. clean => TidyOf("address", j)'
      BY <1>1, <1>3, <2>3, <2>4, <3>1 DEF ForceOf, TidyOf
    <3> QED
      BY <1>1, <2>1, <3>2, <3>3 DEF ForceOf, ghost
  <2> QED
    BY <1>1, <2>1, <2>5, QuietForce DEF Steps
<1> QED
  BY <1>2, <1>3

LEMMA AddAddressesForce ==
    ASSUME Inv, NEW p \in Processes, AddAddresses(p)
    PROVE  ForceInv'
<1> PICK j : j = job[p]
  OBVIOUS
<1> PICK missing : missing = IF device = None THEN {} ELSE Addresses(j.item) \ device.addresses
  OBVIOUS
<1>1. /\ pc[p] = "address" /\ UNCHANGED <<file, started>> /\ j \in Job /\ Busy(p) /\ j.at = 1
      /\ j.item # None /\ j.item \in Interfaces /\ j.result \notin {"none", "deleted"} /\ DeviceOK
  BY HereForce, HereFacts DEF AddAddresses, Busy, ApplySteps, JobOK
<1>2. CASE ~(device # None /\ missing = Addresses(j.item))
  BY <1>1, <1>2, ErrorForce DEF AddAddresses
<1>3. CASE device # None /\ missing = Addresses(j.item)
  <2>1. /\ device' = [device EXCEPT !.addresses = @ \cup missing]
        /\ Goto(p, "peer") /\ job' = [job EXCEPT ![p] = j] /\ UNCHANGED ghost
    BY <1>3, HereForce, HereFacts DEF AddAddresses
  <2>2. PICK keys \in SUBSET Keys : device \in Device(keys)
    BY <1>1, <1>3, DeviceCases
  <2>3. missing \in SUBSET {4, 6}
    BY <1>3 DEF Addresses
  <2>4. /\ device' \in Device(keys) /\ device' # None
        /\ device'.addresses = device.addresses \cup Addresses(j.item)
        /\ device'.peers = device.peers /\ device'.routes = device.routes
    BY <1>3, <2>1, <2>2, <2>3, AddressedFacts, PeersAssumption
  <2>5. ASSUME undisturbed[p] PROVE ForceOf(p, "peer", j)'
    <3>1. ForceOf(p, "address", j)
      BY <1>1, <2>5, HereForce
    <3>2. FirstInForce(j.item, j.at)'
      <4>1. \A n \in DOMAIN j.item.peers : ~(n < 1)
        BY <1>1, PeersOf
      <4> QED
        BY <1>1, <4>1 DEF FirstInForce
    <3>3. j.result \in {"created", "applied"} => StageOf(p, "peer", j)'
      BY <1>1, <2>1, <2>4, <3>1, <3>2 DEF ForceOf, StageOf, Addressed, ghost
    <3>4. clean => TidyOf("peer", j)'
      BY <1>1, <1>3, <2>4, <3>1 DEF ForceOf, TidyOf
    <3> QED
      BY <1>1, <2>1, <3>3, <3>4 DEF ForceOf, ghost
  <2> QED
    BY <1>1, <2>1, <2>5, QuietForce DEF Steps
<1> QED
  BY <1>2, <1>3

\* The loop has brought one more peer into force.
LEMMA NextPeerOnward ==
    ASSUME Inv, NEW p \in Processes, pc[p] = "peer", NextPeer(p),
           UNCHANGED <<file, started, undisturbed, outcome>>, clean' => clean /\ ~swallowed',
           NEW old, old = job[p],
           undisturbed[p] /\ old.result \in {"created", "applied"} =>
               Addressed(old.item)' /\ FirstInForce(old.item, old.at + 1)',
           undisturbed[p] /\ clean' /\ device' # None =>
               /\ DOMAIN device'.peers \subseteq Ids(old.item)
               /\ device'.routes \subseteq RemoteNetworks(old.item)
    PROVE  ForceInv'
<1> PICK at : at = IF old.at < Len(old.item.peers) THEN old.at + 1 ELSE 1
  OBVIOUS
<1> PICK j : j = [old EXCEPT !.at = at]
  OBVIOUS
<1> PICK step : step = IF old.at < Len(old.item.peers) THEN "peer" ELSE "unsync"
  OBVIOUS
<1>1. /\ old \in Job /\ old.item \in Interfaces /\ old.item # None /\ old.result \notin {"none", "deleted"}
      /\ old.at \in Nat \ {0} /\ JobOK(p, "peer", old)
  BY HereForce, HereFacts DEF ApplySteps, Job
<1>2. /\ Len(old.item.peers) \in Nat /\ DOMAIN old.item.peers = 1..Len(old.item.peers)
  BY <1>1, PeersOf
<1>3. j \in Job /\ j.item = old.item /\ j.keys = old.keys /\ j.cidrs = old.cidrs /\ j.at = at /\ j.result = old.result
  BY <1>1 DEF Job
<1>4. Goto(p, step) /\ job' = [job EXCEPT ![p] = j] /\ Busy(p) /\ step \in Steps \ {"idle"}
  BY DEF NextPeer, Busy, Steps
<1>5. ASSUME undisturbed[p] PROVE ForceOf(p, step, j)'
  <2>1. ForceOf(p, "peer", old)
    BY <1>5, HereForce
  <2>2. j.result \in {"created", "applied"} => StageOf(p, step, j)'
    <3>1. SUFFICES ASSUME j.result \in {"created", "applied"} PROVE StageOf(p, step, j)'
      OBVIOUS
    <3>2. Addressed(j.item)' /\ FirstInForce(j.item, old.at + 1)'
      BY <1>3, <1>5, <3>1 DEF FirstInForce, Addressed
    <3>3. p = Boot => file' = j.item
      BY <1>3, <2>1, <3>1 DEF ForceOf, StageOf
    <3>4. CASE old.at < Len(old.item.peers)
      BY <1>3, <3>2, <3>3, <3>4 DEF StageOf
    <3>5. CASE ~(old.at < Len(old.item.peers))
      <4>1. \A n \in DOMAIN j.item.peers : n < old.at + 1
        BY <1>1, <1>2, <1>3, <3>5
      <4>2. AllInForce(j.item)'
        BY <3>2, <4>1 DEF AllInForce, Addressed, FirstInForce
      <4> QED
        BY <1>3, <3>3, <3>5, <4>2 DEF StageOf
    <3> QED
      BY <3>4, <3>5
  <2>3. clean' => TidyOf(step, j)'
    BY <1>1, <1>3, <1>5, <2>1 DEF ForceOf, TidyOf
  <2> QED
    BY <1>1, <1>3, <2>2, <2>3 DEF ForceOf
<1> QED
  BY <1>3, <1>4, <1>5, OnwardForce

LEMMA NextPeerForce ==
    ASSUME Inv, NEW p \in Processes, pc[p] = "peer", NextPeer(p), UNCHANGED <<file, started, ghost>>,
           NEW old, old = job[p],
           undisturbed[p] /\ old.result \in {"created", "applied"} =>
               Addressed(old.item)' /\ FirstInForce(old.item, old.at + 1)',
           undisturbed[p] /\ clean /\ device' # None =>
               /\ DOMAIN device'.peers \subseteq Ids(old.item)
               /\ device'.routes \subseteq RemoteNetworks(old.item)
    PROVE  ForceInv'
<1>1. UNCHANGED <<undisturbed, outcome, swallowed, clean>>
  BY DEF ghost
<1>2. clean => ~swallowed
  BY HereForce
<1> QED
  BY <1>1, <1>2, NextPeerOnward

\* A peer that is taken from the kernel leaves the first ones in force.
LEMMA ForgetsFirst ==
    ASSUME NEW item \in Interfaces, Distinct(item), NEW at \in DOMAIN item.peers,
           ~item.peers[at].enabled, NEW keys \in SUBSET Keys, device \in Device(keys),
           FirstInForce(item, at), swallowed' = swallowed,
           device' = Forgets(device, {item.peers[at].id})
    PROVE  FirstInForce(item, at + 1)'
<1>1. /\ DOMAIN device.peers = keys /\ DOMAIN device'.peers = keys \ {item.peers[at].id}
      /\ \A k \in keys \ {item.peers[at].id} : device'.peers[k] = device.peers[k]
  <2>1. device' \in Device(keys \ {item.peers[at].id})
        /\ \A k \in keys \ {item.peers[at].id} : device'.peers[k] = device.peers[k]
    BY ForgetsFacts
  <2> QED
    BY <2>1 DEF Device
<1>2. SUFFICES ASSUME NEW n \in DOMAIN item.peers, n < at + 1
               PROVE  IF item.peers[n].enabled THEN Admitted(item.peers[n])'
                      ELSE swallowed' \/ item.peers[n].id \notin DOMAIN device'.peers
  BY DEF FirstInForce, Admitted
<1>3. CASE n = at
  BY <1>1, <1>3
<1>4. CASE n # at
  <2>1. n < at /\ item.peers[n].id # item.peers[at].id
    BY <1>2, <1>4, PeersOf DEF Distinct
  <2> QED
    BY <1>1, <2>1 DEF FirstInForce, Admitted
<1> QED
  BY <1>3, <1>4

\* A peer that overlaps no other takes no AllowedIP from the first ones.
LEMMA AdmitsFirst ==
    ASSUME NEW item \in Interfaces, Distinct(item), NEW at \in DOMAIN item.peers,
           item.peers[at].enabled, ~Conflict(item.peers, item.peers[at]),
           NEW keys \in SUBSET Keys, device \in Device(keys), FirstInForce(item, at),
           swallowed' = swallowed,
           device' = Admits(device, item.peers[at].id, computedServerAllowedIps(item.peers[at]))
    PROVE  FirstInForce(item, at + 1)'
<1> PICK peer : peer = item.peers[at]
  OBVIOUS
<1> PICK allowed : allowed = computedServerAllowedIps(peer)
  OBVIOUS
<1>1. peer \in Peers /\ peer.id \in Keys /\ allowed \in SUBSET Cidr
  BY PeersOf, AllowedIpsType DEF Peers
<1>2. /\ DOMAIN device.peers = keys /\ DOMAIN device'.peers = keys \cup {peer.id}
      /\ allowed # {} => device'.peers[peer.id] = allowed
      /\ \A k \in keys \ {peer.id} : device'.peers[k] = device.peers[k] \ allowed
  <2>1. /\ device' \in Device(keys \cup {peer.id})
        /\ allowed # {} => device'.peers[peer.id] = allowed
        /\ \A k \in keys \ {peer.id} : device'.peers[k] = device.peers[k] \ allowed
    BY <1>1, AdmitsFacts
  <2> QED
    BY <2>1 DEF Device
<1>3. SUFFICES ASSUME NEW n \in DOMAIN item.peers, n < at + 1
               PROVE  IF item.peers[n].enabled THEN Admitted(item.peers[n])'
                      ELSE swallowed' \/ item.peers[n].id \notin DOMAIN device'.peers
  BY DEF FirstInForce, Admitted
<1>4. CASE n = at
  BY <1>2, <1>4 DEF Admitted
<1>5. CASE n # at
  <2>1. n < at /\ item.peers[n].id # peer.id
    BY <1>3, <1>5, PeersOf DEF Distinct
  <2>2. CASE ~item.peers[n].enabled
    BY <1>2, <2>1, <2>2 DEF FirstInForce
  <2>3. CASE item.peers[n].enabled
    <3>1. Admitted(item.peers[n])
      BY <2>1, <2>3 DEF FirstInForce
    <3>2. computedServerAllowedIps(item.peers[n]) \cap allowed = {}
      <4>1. item.peers[n] \in Range(item.peers)
        BY DEF Range
      <4>2. \A c \in Cidr : cidrOverlaps(c, c)
        BY DEF Cidr, cidrOverlaps
      <4> QED
        BY <1>1, <2>1, <2>3, <4>1, <4>2 DEF Conflict
    <3>3. item.peers[n].id \in keys \ {peer.id}
      BY <1>2, <2>1, <3>1 DEF Admitted
    <3>4. device'.peers[item.peers[n].id] = device.peers[item.peers[n].id] \ allowed
      BY <1>2, <3>3
    <3>5. Admitted(item.peers[n])'
      BY <1>2, <3>1, <3>2, <3>3, <3>4 DEF Admitted
    <3> QED
      BY <2>3, <3>5
  <2> QED
    BY <2>2, <2>3
<1> QED
  BY <1>4, <1>5

LEMMA ApplyPeerForce ==
    ASSUME Inv, NEW p \in Processes, ApplyPeer(p)
    PROVE  ForceInv'
<1> PICK j : j = job[p]
  OBVIOUS
<1> PICK item : item = j.item
  OBVIOUS
<1> PICK peer : peer = item.peers[j.at]
  OBVIOUS
<1>1. /\ pc[p] = "peer" /\ UNCHANGED <<file, started>> /\ Busy(p) /\ DeviceOK /\ Safe
      /\ item \in Interfaces /\ item # None /\ j.result \notin {"none", "deleted"} /\ Distinct(item)
      /\ (item.peers # << >> => j.at \in DOMAIN item.peers /\ peer \in Peers /\ peer.id \in Keys)
  BY HereForce, HereFacts, NextIsPeer DEF ApplyPeer, Busy, ApplySteps, OverlapInvOf
<1>2. undisturbed[p] => ForceOf(p, "peer", j)
  BY <1>1, HereForce
<1>3. /\ undisturbed[p] /\ j.result \in {"created", "applied"} =>
           Addressed(item) /\ FirstInForce(item, j.at)
      /\ undisturbed[p] /\ clean /\ device # None =>
           DOMAIN device.peers \subseteq Ids(item) /\ device.routes \subseteq RemoteNetworks(item)
  BY <1>1, <1>2 DEF ForceOf, StageOf, TidyOf
<1>4. CASE item.peers = << >>
  <2>1. NextPeer(p) /\ UNCHANGED <<device, ghost>> /\ swallowed' = swallowed
    BY <1>4 DEF ApplyPeer, ghost
  <2>2. DOMAIN item.peers = {}
    BY <1>4
  <2>3. FirstInForce(item, j.at + 1)'
    BY <2>2 DEF FirstInForce
  <2>4. Addressed(item) => Addressed(item)'
    BY <2>1 DEF Addressed
  <2> QED
    BY <1>1, <1>3, <2>1, <2>3, <2>4, NextPeerForce
<1>5. CASE item.peers # << >> /\ ~peer.enabled
  <2>1. /\ device' = IF device = None THEN None ELSE Forgets(device, {peer.id})
        /\ NextPeer(p) /\ UNCHANGED ghost /\ swallowed' = swallowed
    BY <1>5 DEF ApplyPeer, ghost
  <2>2. CASE device = None
    BY <1>1, <1>3, <2>1, <2>2, NextPeerForce DEF Addressed
  <2>3. CASE device # None
    <3>1. PICK keys \in SUBSET Keys : device \in Device(keys) /\ keys = DOMAIN device.peers
      BY <1>1, <2>3, DeviceCases
    <3>2. device' = Forgets(device, {peer.id})
      BY <2>1, <2>3
    <3>3. /\ device' \in Device(keys \ {peer.id})
          /\ device'.addresses = device.addresses /\ device'.routes = device.routes
      BY <3>1, <3>2, ForgetsFacts
    <3>4. DOMAIN device'.peers = keys \ {peer.id} /\ device' # None
      BY <3>3, PeersAssumption DEF Device
    <3>5. undisturbed[p] /\ j.result \in {"created", "applied"} => FirstInForce(item, j.at + 1)'
      BY <1>1, <1>3, <1>5, <2>1, <3>1, <3>2, ForgetsFirst
    <3>6. Addressed(item) => Addressed(item)'
      BY <2>1, <3>3, <3>4 DEF Addressed
    <3> QED
      BY <1>1, <1>3, <2>1, <2>3, <3>1, <3>3, <3>4, <3>5, <3>6, NextPeerForce
  <2> QED
    BY <2>2, <2>3
<1>6. CASE item.peers # << >> /\ peer.enabled /\ (device = None \/ Conflict(item.peers, peer))
  BY <1>1, <1>6, ErrorForce DEF ApplyPeer
<1>7. CASE item.peers # << >> /\ peer.enabled /\ device # None /\ ~Conflict(item.peers, peer)
  <2>1. /\ device' = Admits(device, peer.id, computedServerAllowedIps(peer))
        /\ NextPeer(p) /\ UNCHANGED ghost /\ swallowed' = swallowed
    BY <1>7 DEF ApplyPeer, ghost
  <2>2. PICK keys \in SUBSET Keys : device \in Device(keys) /\ keys = DOMAIN device.peers
    BY <1>1, <1>7, DeviceCases
  <2>3. /\ device' \in Device(keys \cup {peer.id})
        /\ device'.addresses = device.addresses /\ device'.routes = device.routes
    <3>1. peer.id \in Keys /\ computedServerAllowedIps(peer) \in SUBSET Cidr
      BY <1>1, <1>7, AllowedIpsType
    <3>2. PICK key : key = peer.id
      OBVIOUS
    <3>3. PICK allowed : allowed = computedServerAllowedIps(peer)
      OBVIOUS
    <3>4. key \in Keys /\ allowed \in SUBSET Cidr /\ device' = Admits(device, key, allowed)
      BY <2>1, <3>1, <3>2, <3>3
    <3>5. keys \in SUBSET Keys /\ device \in Device(keys)
      BY <2>2
    <3> QED
      BY ONLY <3>2, <3>4, <3>5, AdmitsFacts
  <2>4. DOMAIN device'.peers = keys \cup {peer.id} /\ peer.id \in Ids(item)
    BY <1>1, <1>7, <2>3 DEF Device, Ids
  <2>5. device' # None
    BY <1>1, <1>7, <2>3, PeersAssumption
  <2>6. undisturbed[p] /\ j.result \in {"created", "applied"} => FirstInForce(item, j.at + 1)'
    BY <1>1, <1>3, <1>7, <2>1, <2>2, AdmitsFirst
  <2>7. Addressed(item) => Addressed(item)'
    BY <2>1, <2>3, <2>5 DEF Addressed
  <2> QED
    BY <1>1, <1>3, <1>7, <2>1, <2>2, <2>3, <2>4, <2>5, <2>6, <2>7, NextPeerForce
<1> QED
  BY <1>4, <1>5, <1>6, <1>7

\* Everything is put in force: what is still to be done are the routes.
LEMMA SyncedForce ==
    ASSUME Inv, NEW p \in Processes, pc[p] \in {"unsync", "sync"},
           NEW j \in Job, j.item = job[p].item, j.result = job[p].result,
           Goto(p, Synced(p)), job' = [job EXCEPT ![p] = j], UNCHANGED <<file, started, ghost>>,
           undisturbed[p] /\ j.result \in {"created", "applied"} => Complete(j.item)',
           undisturbed[p] /\ clean =>
               /\ device' # None => DOMAIN device'.peers \subseteq Ids(j.item)
                                    /\ device'.routes \subseteq SiteRoutes(j.item)
               /\ j.result = "removed" => Complete(j.item)'
    PROVE  ForceInv'
<1>1. /\ j.item # None /\ j.result \notin {"none", "deleted"} /\ Busy(p) /\ JobOK(p, pc[p], job[p])
      /\ clean \in BOOLEAN
  BY HereForce, HereFacts DEF ApplySteps, Busy
<1>2. (Synced(p) = "policies" /\ p = Boot) \/ (Synced(p) = "truncate" /\ p # Boot)
  BY DEF Synced
<1>3. ASSUME undisturbed[p] PROVE ForceOf(p, Synced(p), j)'
  <2>1. ForceOf(p, pc[p], job[p])
    BY <1>3, HereForce
  <2>2. j.result \in {"created", "applied"} => StageOf(p, Synced(p), j)'
    <3>1. SUFFICES ASSUME j.result \in {"created", "applied"} PROVE StageOf(p, Synced(p), j)'
      OBVIOUS
    <3>2. p = Boot => file' = j.item
      BY <2>1, <3>1 DEF ForceOf, StageOf
    <3>3. Complete(j.item)'
      BY <1>3, <3>1
    <3> QED
      BY <1>1, <1>2, <3>2, <3>3 DEF StageOf
  <2>3. clean => TidyOf(Synced(p), j)'
    <3>1. SUFFICES ASSUME clean PROVE TidyOf(Synced(p), j)'
      OBVIOUS
    <3>2. TidyOf(pc[p], job[p])
      BY <2>1, <3>1 DEF ForceOf
    <3>3. j.result # "saved"
      BY <1>1, <3>2 DEF TidyOf
    <3>4. j.result = "removed" => Synced(p) = "truncate" /\ Complete(j.item)' /\ AllInForce(j.item)'
      BY <1>1, <1>2, <1>3, <3>1 DEF JobOK, Complete
    <3> QED
      BY <1>1, <1>2, <1>3, <3>1, <3>3, <3>4 DEF TidyOf
  <2> QED
    BY <1>1, <2>2, <2>3 DEF ForceOf, ghost
<1>4. Synced(p) \in Steps \ {"idle"}
  BY <1>2 DEF Steps
<1> QED
  BY <1>1, <1>3, <1>4, QuietForce

LEMMA UnsyncRoutesForce ==
    ASSUME Inv, NEW p \in Processes, UnsyncRoutes(p)
    PROVE  ForceInv'
<1> PICK old : old = job[p]
  OBVIOUS
<1> PICK routes : routes = SiteRoutes(old.item)
  OBVIOUS
<1> PICK j : j = [old EXCEPT !.cidrs = routes]
  OBVIOUS
<1>1. /\ pc[p] = "unsync" /\ old \in Job /\ DeviceOK /\ Busy(p)
      /\ old.item # None /\ old.item \in Interfaces /\ old.result \notin {"none", "deleted"}
      /\ device' = WithoutRoutes(device, RemoteNetworks(old.item))
      /\ UNCHANGED <<file, started, ghost>>
  BY HereForce, HereFacts DEF UnsyncRoutes, ApplySteps, Busy
<1>2. routes \in SUBSET Cidr /\ routes \subseteq RemoteNetworks(old.item)
  BY <1>1, RoutesType
<1>3. j \in Job /\ j.item = old.item /\ j.keys = old.keys /\ j.cidrs = routes /\ j.at = old.at
      /\ j.result = old.result
  BY <1>1, <1>2 DEF Job
<1>4. job' = [job EXCEPT ![p] = j] /\ Goto(p, IF routes = {} THEN Synced(p) ELSE "sync")
  BY DEF UnsyncRoutes
<1>5. undisturbed[p] => ForceOf(p, "unsync", old)
  BY <1>1, HereForce
<1>6. device' # None => device # None
  BY <1>1 DEF WithoutRoutes
<1>7. device # None =>
        /\ device' # None /\ device'.addresses = device.addresses /\ device'.peers = device.peers
        /\ device'.routes = device.routes \ RemoteNetworks(old.item)
  <2>1. SUFFICES ASSUME device # None
                 PROVE  /\ device' # None /\ device'.addresses = device.addresses
                        /\ device'.peers = device.peers
                        /\ device'.routes = device.routes \ RemoteNetworks(old.item)
    OBVIOUS
  <2>2. PICK keys \in SUBSET Keys : device \in Device(keys)
    BY <1>1, <2>1, DeviceCases
  <2>3. device' = [device EXCEPT !.routes = @ \ RemoteNetworks(old.item)]
    BY <1>1, <2>1 DEF WithoutRoutes
  <2>4. /\ device' \in Device(keys) /\ device'.addresses = device.addresses
        /\ device'.peers = device.peers
        /\ device'.routes = device.routes \ RemoteNetworks(old.item)
    BY <2>2, <2>3, WithoutRoutesFacts
  <2> QED
    BY <2>4, PeersAssumption
<1>8. undisturbed[p] /\ j.result \in {"created", "applied"} => AllInForce(j.item)'
  <2>1. undisturbed[p] /\ j.result \in {"created", "applied"} => AllInForce(j.item)
    BY <1>3, <1>5 DEF ForceOf, StageOf
  <2> QED
    BY <1>1, <1>7, <2>1, SameForce DEF AllInForce, Addressed, ghost
<1>9. undisturbed[p] /\ clean =>
        /\ device' # None => DOMAIN device'.peers \subseteq Ids(j.item) /\ device'.routes = {}
        /\ j.result # "saved" /\ (j.result = "removed" => AllInForce(j.item)')
  <2>1. SUFFICES ASSUME undisturbed[p], clean
                 PROVE  /\ device' # None => DOMAIN device'.peers \subseteq Ids(j.item) /\ device'.routes = {}
                        /\ j.result # "saved" /\ (j.result = "removed" => AllInForce(j.item)')
    OBVIOUS
  <2>2. TidyOf("unsync", old)
    BY <1>5, <2>1 DEF ForceOf
  <2>3. device # None => DOMAIN device.peers \subseteq Ids(j.item) /\ device.routes \subseteq RemoteNetworks(old.item)
    BY <1>1, <1>3, <2>2 DEF TidyOf
  <2>4. j.result # "saved" /\ (j.result = "removed" => AllInForce(j.item))
    BY <1>1, <1>3, <2>2 DEF TidyOf
  <2>5. j.result = "removed" => AllInForce(j.item)'
    BY <1>1, <1>7, <2>4, SameForce DEF AllInForce, Addressed, ghost
  <2> QED
    BY <1>6, <1>7, <2>3, <2>4, <2>5
<1>10. CASE routes = {}
  <2>1. AllInForce(j.item)' => Complete(j.item)'
    BY <1>3, <1>10 DEF Complete
  <2>2. Goto(p, Synced(p)) /\ j.item = job[p].item /\ j.result = job[p].result
    BY <1>3, <1>4, <1>10
  <2>3. undisturbed[p] /\ j.result \in {"created", "applied"} => Complete(j.item)'
    BY <1>8, <2>1
  <2>4. undisturbed[p] /\ clean =>
          /\ device' # None => DOMAIN device'.peers \subseteq Ids(j.item)
                               /\ device'.routes \subseteq SiteRoutes(j.item)
          /\ j.result = "removed" => Complete(j.item)'
    BY <1>9, <2>1
  <2> QED
    BY <1>1, <1>3, <1>4, <2>2, <2>3, <2>4, SyncedForce
<1>11. CASE routes # {}
  <2>1. ASSUME undisturbed[p] PROVE ForceOf(p, "sync", j)'
    <3>1. SiteRoutes(j.item) \ j.cidrs = {} /\ j.cidrs \subseteq SiteRoutes(j.item)
      BY <1>3
    <3>2. j.result \in {"created", "applied"} => StageOf(p, "sync", j)'
      <4>1. j.result \in {"created", "applied"} /\ p = Boot => file' = j.item
        BY <1>1, <1>3, <1>5, <2>1 DEF ForceOf, StageOf
      <4> QED
        BY <1>1, <1>3, <1>8, <2>1, <3>1, <4>1 DEF StageOf
    <3>3. clean => TidyOf("sync", j)'
      BY <1>1, <1>3, <1>9, <2>1, <3>1 DEF TidyOf
    <3> QED
      BY <1>1, <1>3, <3>2, <3>3 DEF ForceOf, ghost
  <2> QED
    BY <1>1, <1>3, <1>4, <1>11, <2>1, QuietForce DEF Steps
<1> QED
  BY <1>10, <1>11

LEMMA SyncRoutesForce ==
    ASSUME Inv, NEW p \in Processes, SyncRoutes(p)
    PROVE  ForceInv'
<1> PICK old : old = job[p]
  OBVIOUS
<1>1. /\ pc[p] = "sync" /\ old \in Job /\ DeviceOK /\ Busy(p)
      /\ old.item # None /\ old.item \in Interfaces /\ old.result \notin {"none", "deleted"}
      /\ UNCHANGED <<file, started>>
  BY HereForce, HereFacts DEF SyncRoutes, ApplySteps, Busy
<1>2. CASE device = None
  BY <1>1, <1>2, ErrorForce DEF SyncRoutes
<1>3. CASE device # None
  <2>1. PICK c \in old.cidrs :
          /\ device' = [device EXCEPT !.routes = @ \cup {c}]
          /\ job' = [job EXCEPT ![p].cidrs = @ \ {c}]
          /\ Goto(p, IF old.cidrs = {c} THEN Synced(p) ELSE "sync")
          /\ UNCHANGED ghost
    BY <1>3 DEF SyncRoutes
  <2> PICK j : j = [old EXCEPT !.cidrs = @ \ {c}]
    OBVIOUS
  <2>2. /\ j \in Job /\ j.item = old.item /\ j.keys = old.keys /\ j.cidrs = old.cidrs \ {c}
        /\ j.at = old.at /\ j.result = old.result /\ c \in Cidr
    BY <1>1 DEF Job
  <2>3. job' = [job EXCEPT ![p] = j]
    BY <2>1
  <2>4. undisturbed[p] => ForceOf(p, "sync", old)
    BY <1>1, HereForce
  <2>5. PICK keys \in SUBSET Keys : device \in Device(keys)
    BY <1>1, <1>3, DeviceCases
  <2>6. /\ device' \in Device(keys) /\ device'.addresses = device.addresses
        /\ device'.peers = device.peers /\ device'.routes = device.routes \cup {c}
    BY <2>1, <2>2, <2>5, RoutedFacts
  <2>7. device' # None
    BY <2>6, PeersAssumption
  <2>8. undisturbed[p] /\ (j.result \in {"created", "applied"} \/ (clean /\ j.result = "removed")) =>
          AllInForce(j.item)' /\ SiteRoutes(j.item) \ j.cidrs \subseteq device'.routes
    <3>1. SUFFICES ASSUME undisturbed[p], j.result \in {"created", "applied"} \/ (clean /\ j.result = "removed")
                   PROVE  AllInForce(j.item)' /\ SiteRoutes(j.item) \ j.cidrs \subseteq device'.routes
      OBVIOUS
    <3>2. AllInForce(j.item) /\ SiteRoutes(j.item) \ old.cidrs \subseteq device.routes
      BY <1>1, <2>2, <2>4, <3>1 DEF ForceOf, StageOf, TidyOf
    <3> QED
      BY <1>3, <2>1, <2>2, <2>6, <2>7, <3>2, SameForce DEF ghost
  <2>9. undisturbed[p] /\ clean =>
          /\ DOMAIN device'.peers \subseteq Ids(j.item) /\ device'.routes \subseteq SiteRoutes(j.item)
          /\ j.cidrs \subseteq SiteRoutes(j.item) /\ j.result # "saved"
    <3>1. SUFFICES ASSUME undisturbed[p], clean
                   PROVE  /\ DOMAIN device'.peers \subseteq Ids(j.item) /\ device'.routes \subseteq SiteRoutes(j.item)
                          /\ j.cidrs \subseteq SiteRoutes(j.item) /\ j.result # "saved"
      OBVIOUS
    <3>2. TidyOf("sync", old)
      BY <2>4, <3>1 DEF ForceOf
    <3> QED
      BY <1>1, <1>3, <2>2, <2>6, <3>2 DEF TidyOf
  <2>10. CASE old.cidrs = {c}
    <3>1. j.cidrs = {} /\ Goto(p, Synced(p)) /\ j.item = job[p].item /\ j.result = job[p].result
      BY <2>1, <2>2, <2>10
    <3>2. undisturbed[p] /\ (j.result \in {"created", "applied"} \/ (clean /\ j.result = "removed")) =>
            Complete(j.item)'
      BY <2>8, <3>1 DEF Complete
    <3>3. undisturbed[p] /\ j.result \in {"created", "applied"} => Complete(j.item)'
      BY <3>2
    <3>4. undisturbed[p] /\ clean =>
            /\ device' # None => DOMAIN device'.peers \subseteq Ids(j.item)
                                 /\ device'.routes \subseteq SiteRoutes(j.item)
            /\ j.result = "removed" => Complete(j.item)'
      BY <2>9, <3>2
    <3> QED
      BY <1>1, <2>1, <2>2, <2>3, <3>1, <3>3, <3>4, SyncedForce
  <2>11. CASE old.cidrs # {c}
    <3>1. ASSUME undisturbed[p] PROVE ForceOf(p, "sync", j)'
      <4>1. j.result \in {"created", "applied"} => StageOf(p, "sync", j)'
        <5>1. j.result \in {"created", "applied"} /\ p = Boot => file' = j.item
          BY <1>1, <2>2, <2>4, <3>1 DEF ForceOf, StageOf
        <5> QED
          BY <2>8, <3>1, <5>1 DEF StageOf
      <4>2. clean => TidyOf("sync", j)'
        BY <1>1, <2>2, <2>8, <2>9, <3>1 DEF TidyOf
      <4> QED
        BY <1>1, <2>1, <2>2, <4>1, <4>2 DEF ForceOf, ghost
    <3> QED
      BY <1>1, <2>1, <2>2, <2>3, <2>11, <3>1, QuietForce DEF Steps
  <2> QED
    BY <2>10, <2>11
<1> QED
  BY <1>2, <1>3

\* A failure that is swallowed: the kernel may keep more than it should.
LEMMA SilentForce ==
    ASSUME Inv, NEW p \in Processes, FailsSilently(p)
    PROVE  ForceInv'
<1> PICK old : old = job[p]
  OBVIOUS
<1>1. /\ UNCHANGED <<file, started, undisturbed, outcome>> /\ swallowed' /\ ~clean'
      /\ pc[p] \in {"unlink", "unpeer", "unroute", "show", "flush", "peer", "unsync"}
      /\ Busy(p) /\ Safe
  BY HereForce, SilentFacts DEF Busy
<1>2. old \in Job /\ JobOK(p, pc[p], old) /\ OverlapInvOf(pc[p], old) /\ DeviceOK
  BY <1>1, HereFacts
<1>3. undisturbed[p] /\ old.result \in {"created", "applied"} => StageOf(p, pc[p], old)
  BY HereForce DEF ForceOf
<1>4. ASSUME NEW step \in Steps \ {"idle"}, NEW j \in Job, Goto(p, step), job' = [job EXCEPT ![p] = j],
             undisturbed[p] /\ j.result \in {"created", "applied"} => StageOf(p, step, j)'
      PROVE  ForceInv'
  <2>1. undisturbed[p] => ForceOf(p, step, j)'
    BY <1>1, <1>4 DEF ForceOf
  <2> QED
    BY <1>1, <1>4, <2>1, OnwardForce
<1>5. CASE pc[p] = "unlink"
  <2>1. Goto(p, "truncate") /\ job' = [job EXCEPT ![p] = old] /\ old.result = "deleted"
    BY <1>1, <1>2, <1>5, HereFacts DEF FailsSilently, AtDisabled, AtPeer, JobOK
  <2> QED
    BY <1>2, <1>4, <2>1 DEF Steps
<1>6. CASE pc[p] \in {"unpeer", "show"}
  <2> PICK step : step = IF pc[p] = "show" THEN "add" ELSE IF old.result = "removed" THEN "unroute" ELSE "show"
    OBVIOUS
  <2>1. Goto(p, step) /\ job' = [job EXCEPT ![p] = old]
    BY <1>1, <1>6, HereFacts DEF FailsSilently, AtDisabled, AtPeer
  <2>2. undisturbed[p] /\ old.result \in {"created", "applied"} => StageOf(p, step, old)'
    BY <1>1, <1>3 DEF StageOf
  <2> QED
    BY <1>2, <1>4, <2>1, <2>2 DEF Steps
<1>7. CASE pc[p] = "flush"
  <2>1. Goto(p, "address") /\ job' = [job EXCEPT ![p] = old] /\ device' = device /\ device # None
    BY <1>1, <1>7, HereFacts DEF FailsSilently, AtDisabled, AtPeer
  <2>2. undisturbed[p] /\ old.result \in {"created", "applied"} => StageOf(p, "address", old)'
    BY <1>1, <1>3, <2>1 DEF StageOf
  <2> QED
    BY <1>2, <1>4, <2>1, <2>2 DEF Steps
<1>8. CASE pc[p] = "unroute"
  <2> PICK j : j = [old EXCEPT !.cidrs = {}]
    OBVIOUS
  <2> PICK step : step = IF old.result = "removed" THEN "unsync" ELSE "show"
    OBVIOUS
  <2>1. job' = [job EXCEPT ![p] = j] /\ Goto(p, step)
    BY <1>8 DEF FailsSilently, AtDisabled, AtPeer
  <2>2. j \in Job /\ j.item = old.item /\ j.result = old.result
    BY <1>2 DEF Job
  <2>3. undisturbed[p] /\ j.result \in {"created", "applied"} => StageOf(p, step, j)'
    BY <1>1, <1>3, <2>2 DEF StageOf
  <2> QED
    BY <1>4, <2>1, <2>2, <2>3 DEF Steps
<1>9. CASE pc[p] = "peer"
  <2>1. NextPeer(p) /\ device' = device /\ ~old.item.peers[old.at].enabled /\ old.item.peers # << >>
    BY <1>9 DEF FailsSilently, AtDisabled, AtPeer
  <2>2. old.item \in Interfaces /\ old.at \in DOMAIN old.item.peers
    BY <1>1, <1>9, <2>1, NextIsPeer
  <2>3. undisturbed[p] /\ old.result \in {"created", "applied"} =>
          Addressed(old.item)' /\ FirstInForce(old.item, old.at + 1)'
    <3>1. SUFFICES ASSUME Addressed(old.item), FirstInForce(old.item, old.at)
                   PROVE  Addressed(old.item)' /\ FirstInForce(old.item, old.at + 1)'
      BY <1>3, <1>9 DEF StageOf
    <3>2. ASSUME NEW n \in DOMAIN old.item.peers, n < old.at + 1, old.item.peers[n].enabled
          PROVE  Admitted(old.item.peers[n])
      <4>1. n < old.at
        BY <2>1, <2>2, <3>2, PeersOf
      <4> QED
        BY <3>1, <3>2, <4>1 DEF FirstInForce
    <3> QED
      BY <1>1, <2>1, <3>1, <3>2 DEF Addressed, FirstInForce, Admitted
  <2> QED
    BY <1>1, <1>9, <2>1, <2>3, NextPeerOnward
<1>10. CASE pc[p] = "unsync"
  <2> PICK routes : routes = SiteRoutes(old.item)
    OBVIOUS
  <2> PICK j : j = [old EXCEPT !.cidrs = routes]
    OBVIOUS
  <2> PICK step : step = IF routes = {} THEN Synced(p) ELSE "sync"
    OBVIOUS
  <2>1. PICK cidrs : device' = WithoutRoutes(device, cidrs)
    BY <1>10 DEF FailsSilently, AtDisabled, AtPeer
  <2>2. job' = [job EXCEPT ![p] = j] /\ Goto(p, step)
    BY <1>10 DEF FailsSilently, AtDisabled, AtPeer
  <2>3. old.item \in Interfaces /\ old.item # None /\ routes \in SUBSET Cidr
    BY <1>2, <1>10, HereForce, RoutesType DEF ApplySteps
  <2>4. j \in Job /\ j.item = old.item /\ j.cidrs = routes /\ j.result = old.result
    BY <1>2, <2>3 DEF Job
  <2>5. step \in Steps \ {"idle"} /\ (step = "policies" => p = Boot)
    BY DEF Steps, Synced
  <2>6. undisturbed[p] /\ j.result \in {"created", "applied"} => StageOf(p, step, j)'
    <3>1. SUFFICES ASSUME undisturbed[p], j.result \in {"created", "applied"} PROVE StageOf(p, step, j)'
      OBVIOUS
    <3>2. AllInForce(old.item) /\ (p = Boot => file = old.item)
      BY <1>3, <1>10, <2>4, <3>1 DEF StageOf
    <3>3. PICK keys \in SUBSET Keys : device \in Device(keys) /\ device # None
      BY <1>2, <3>2, DeviceCases DEF AllInForce, Addressed
    <3>4. /\ device' \in Device(keys) /\ device' # None
          /\ device'.peers = device.peers /\ device'.addresses = device.addresses
      BY <2>1, <3>3, WithoutRoutesFacts, PeersAssumption DEF WithoutRoutes
    <3>5. AllInForce(old.item)'
      BY <1>1, <3>2, <3>3, <3>4, SameForce
    <3>6. AllInForce(j.item)' /\ SiteRoutes(j.item) \ j.cidrs = {}
      BY <2>4, <3>5
    <3>7. routes = {} => Complete(j.item)'
      BY <2>4, <3>6 DEF Complete
    <3> QED
      BY <1>1, <2>3, <2>4, <2>5, <3>2, <3>6, <3>7 DEF StageOf, Synced
  <2> QED
    BY <1>4, <2>2, <2>4, <2>5, <2>6
<1> QED
  BY <1>1, <1>5, <1>6, <1>7, <1>8, <1>9, <1>10

LEMMA TruncateForce ==
    ASSUME Inv, NEW p \in Processes, Truncate(p)
    PROVE  ForceInv'
<1> PICK j : j = job[p]
  OBVIOUS
<1>1. /\ pc[p] = "truncate" /\ Goto(p, "write") /\ job' = [job EXCEPT ![p] = j]
      /\ UNCHANGED <<device, started, ghost>> /\ j \in Job /\ Busy(p) /\ p # Boot
  BY HereForce, HereFacts DEF Truncate, Busy, JobOK
<1>2. ASSUME undisturbed[p] PROVE ForceOf(p, "write", j)'
  <2>1. ForceOf(p, "truncate", j)
    BY <1>1, <1>2, HereForce
  <2>2. j.result \in {"created", "applied"} => StageOf(p, "write", j)'
    BY <1>1, <2>1 DEF ForceOf, StageOf, Complete, AllInForce, Addressed, Admitted, ghost
  <2>3. clean => TidyOf("write", j)'
    BY <1>1, <2>1 DEF ForceOf, TidyOf, Complete, AllInForce, Addressed, Admitted, ghost
  <2> QED
    BY <1>1, <2>1, <2>2, <2>3 DEF ForceOf, ghost
<1> QED
  BY <1>1, <1>2, QuietForce DEF Steps

LEMMA CompleteIsConfigured ==
    ASSUME file # None, Complete(file)
    PROVE  Configured
BY DEF Complete, AllInForce, Addressed, Configured

LEMMA WriteForce ==
    ASSUME Inv, NEW p \in Processes, Write(p)
    PROVE  ForceInv'
<1> PICK j : j = job[p]
  OBVIOUS
<1>1. /\ pc[p] = "write" /\ file' = j.item /\ p # Boot
      /\ UNCHANGED <<device, started, swallowed>> /\ j \in Job /\ Busy(p) /\ clean \in BOOLEAN
      /\ (clean => ~swallowed)
  BY HereForce, HereFacts DEF Write, Busy, JobOK, Finish, ghost
<1>2. undisturbed[p] => ForceOf(p, "write", j)
  BY <1>1, HereForce
<1>3. undisturbed[p] /\ j.result \in {"created", "applied"} => j.item # None /\ Complete(j.item)'
  BY <1>1, <1>2 DEF ForceOf, StageOf, Complete, AllInForce, Addressed, Admitted
<1>4. CASE j.result = "created"
  <2>1. Finish(p, "applied")
    BY <1>4 DEF Write
  <2>2. undisturbed[p] => file' # None /\ Configured'
    BY <1>1, <1>3, <1>4 DEF Complete, AllInForce, Addressed, Configured
  <2>3. undisturbed[p] /\ clean => Tidy'
    <3>1. SUFFICES ASSUME undisturbed[p], clean PROVE Tidy'
      OBVIOUS
    <3>2. TidyOf("write", j) /\ j.item # None /\ device # None
      BY <1>2, <1>3, <1>4, <3>1 DEF ForceOf, StageOf, Complete, AllInForce, Addressed
    <3> QED
      BY <1>1, <2>2, <3>1, <3>2 DEF Tidy, TidyOf
  <2> QED
    BY <1>1, <2>1, <2>2, <2>3, FinishForce
<1>5. CASE j.result # "created"
  <2>1. Goto(p, "policies") /\ job' = [job EXCEPT ![p] = j] /\ UNCHANGED ghost
    BY <1>5, HereForce, HereFacts DEF Write
  <2>2. ASSUME undisturbed[p] PROVE ForceOf(p, "policies", j)'
    <3>1. j.result \in {"created", "applied"} => StageOf(p, "policies", j)'
      BY <1>1, <1>3, <2>2 DEF StageOf
    <3>2. clean => TidyOf("policies", j)'
      BY <1>1, <1>2, <2>2 DEF ForceOf, TidyOf, Complete, AllInForce, Addressed, Admitted
    <3> QED
      BY <1>1, <1>2, <2>1, <2>2, <3>1, <3>2 DEF ForceOf, ghost
  <2> QED
    BY <1>1, <2>1, <2>2, QuietForce DEF Steps
<1> QED
  BY <1>4, <1>5

LEMMA ApplyPoliciesForce ==
    ASSUME Inv, NEW p \in Processes, ApplyPolicies(p)
    PROVE  ForceInv'
<1> PICK j : j = job[p]
  OBVIOUS
<1>1. /\ pc[p] = "policies" /\ Finish(p, j.result) /\ UNCHANGED <<file, device, started, swallowed>>
      /\ j \in Job /\ Busy(p) /\ clean \in BOOLEAN /\ (clean => ~swallowed) /\ j.result # "created"
      /\ (j.result \in {"none", "deleted"} => j.item = None)
  BY HereForce, HereFacts DEF ApplyPolicies, Busy, JobOK, Finish
<1>2. undisturbed[p] => ForceOf(p, "policies", j)
  BY <1>1, HereForce
<1>3. undisturbed[p] /\ j.result = "applied" => file # None /\ file = j.item /\ Complete(file)
  BY <1>2 DEF ForceOf, StageOf
<1>4. undisturbed[p] /\ j.result = "applied" => file' # None /\ Configured'
  BY <1>1, <1>3 DEF Complete, AllInForce, Addressed, Configured, Admitted
<1>6. undisturbed[p] /\ clean => Tidy
  <2>1. SUFFICES ASSUME undisturbed[p], clean PROVE Tidy
    OBVIOUS
  <2>2. TidyOf("policies", j)
    BY <1>2, <2>1 DEF ForceOf
  <2>3. CASE j.item = None
    BY <1>1, <2>1, <2>2, <2>3 DEF TidyOf, Tidy
  <2>4. CASE j.item # None
    <3>1. j.result \in {"applied", "saved", "removed"}
      BY <1>1, <2>4 DEF Job, Results
    <3>2. file = j.item /\ Complete(file)
      BY <1>3, <2>1, <2>2, <2>4, <3>1 DEF TidyOf
    <3>3. Configured /\ device # None
      BY <2>4, <3>2, CompleteIsConfigured DEF Complete, AllInForce, Addressed
    <3> QED
      BY <1>1, <2>1, <2>2, <2>4, <3>2, <3>3 DEF TidyOf, Tidy
  <2> QED
    BY <2>3, <2>4
<1>7. Tidy => Tidy'
  BY <1>1 DEF Tidy, Configured, Admitted
<1> QED
  BY <1>1, <1>4, <1>6, <1>7, FinishForce

-----------------------------------------------------------------------------
\* The theorems.

LEMMA InvInit == Init => Inv
BY SafeInit, ForceInit DEF Inv

\* A step of a process, after the first one of an operation.
CommandStep(p) ==
    \/ RemoveLink(p) \/ RemovePeer(p) \/ Unroute(p) \/ ShowLink(p) \/ AddLink(p)
    \/ FlushAddresses(p) \/ AddAddresses(p) \/ ApplyPeer(p)
    \/ UnsyncRoutes(p) \/ SyncRoutes(p) \/ Truncate(p) \/ Write(p) \/ ApplyPolicies(p)
    \/ CommandFails(p) \/ FailsSilently(p) \/ SaveFails(p)

LEMMA CommandInv ==
    ASSUME Inv, NEW p \in Processes, CommandStep(p)
    PROVE  Inv'
<1>1. Safe
  BY DEF Inv
<1>2. CASE RemovePeer(p)
  BY <1>1, <1>2, RemovePeerSafe, RemovePeerForce DEF Inv
<1>3. CASE Unroute(p)
  BY <1>1, <1>3, UnrouteSafe, UnrouteForce DEF Inv
<1>4. CASE ShowLink(p)
  BY <1>1, <1>4, ShowLinkSafe, ShowLinkForce DEF Inv
<1>5. CASE AddLink(p)
  BY <1>1, <1>5, AddLinkSafe, AddLinkForce DEF Inv
<1>6. CASE FlushAddresses(p)
  BY <1>1, <1>6, FlushAddressesSafe, FlushAddressesForce DEF Inv
<1>7. CASE AddAddresses(p)
  BY <1>1, <1>7, AddAddressesSafe, AddAddressesForce DEF Inv
<1>8. CASE ApplyPeer(p)
  BY <1>1, <1>8, ApplyPeerSafe, ApplyPeerForce DEF Inv
<1>9. CASE UnsyncRoutes(p)
  BY <1>1, <1>9, UnsyncRoutesSafe, UnsyncRoutesForce DEF Inv
<1>10. CASE SyncRoutes(p)
  BY <1>1, <1>10, SyncRoutesSafe, SyncRoutesForce DEF Inv
<1>11. CASE Truncate(p)
  BY <1>1, <1>11, TruncateSafe, TruncateForce DEF Inv
<1>12. CASE Write(p)
  BY <1>1, <1>12, WriteSafe, WriteForce DEF Inv
<1>13. CASE ApplyPolicies(p)
  BY <1>1, <1>13, ApplyPoliciesSafe, ApplyPoliciesForce DEF Inv
<1>14. CASE CommandFails(p) \/ SaveFails(p)
  <2>1. Busy(p) /\ Finish(p, "error") /\ UNCHANGED started
    BY <1>14 DEF CommandFails, SaveFails, Busy, AtEnabled, AtPeer
  <2> QED
    BY <1>1, <1>14, <2>1, FailureSafe, ErrorForce DEF Inv
<1>15. CASE RemoveLink(p)
  BY <1>1, <1>15, RemoveLinkSafe, RemoveLinkForce DEF Inv
<1>16. CASE FailsSilently(p)
  BY <1>1, <1>16, SilentSafe, SilentForce DEF Inv
<1> QED
  BY <1>2, <1>3, <1>4, <1>5, <1>6, <1>7, <1>8, <1>9, <1>10, <1>11, <1>12, <1>13, <1>14, <1>15, <1>16
     DEF CommandStep

LEMMA InvStep ==
    ASSUME Inv, [Next]_vars
    PROVE  Inv'
<1>1. Safe /\ (clean /\ Idle => Tidy /\ (~started => file = None))
  BY DEF Inv, ForceInv
<1>2. ASSUME NEW p \in Processes, StartAction(p) PROVE Inv'
  BY <1>1, <1>2, StartSafe, StartForce DEF Inv
<1>3. CASE Crash \/ Reboot
  BY <1>1, <1>3, StopSafe, StopForce DEF Inv
<1>4. CASE UNCHANGED vars
  <2>1. UNCHANGED <<file, device, started, pc, job, undisturbed, swallowed, outcome, clean, budget>>
    BY <1>4 DEF vars, control, ghost
  <2>2. Safe'
    BY <1>1, <2>1 DEF Safe, TypeInv, LocalsOK, DeviceOK, WorldOK, OverlapInv
  <2>3. ForceInv'
    <3>1. /\ Lonely' = Lonely /\ Idle' = Idle /\ Tidy' = Tidy /\ Configured' = Configured
          /\ \A p \in Processes :
               /\ StageOf(p, pc[p], job[p])' = StageOf(p, pc[p], job[p])
               /\ TidyOf(pc[p], job[p])' = TidyOf(pc[p], job[p])
      BY <2>1 DEF Lonely, Idle, Busy, Tidy, Configured, StageOf, TidyOf, Complete, AllInForce, Addressed,
                  FirstInForce, Admitted
    <3> QED
      BY <2>1, <3>1 DEF Inv, ForceInv
  <2> QED
    BY <2>2, <2>3 DEF Inv
<1>5. ASSUME NEW p \in Processes, CommandStep(p) PROVE Inv'
  BY <1>5, CommandInv
<1>6. Boot \in Processes /\ Requests \subseteq Processes
  BY DEF Processes
<1>7. CASE StartBoot
  BY <1>2, <1>6, <1>7 DEF StartAction
<1>8. ASSUME NEW r \in Requests,
             \/ CreateInterface(r) \/ DeleteInterface(r) \/ SaveOther(r) \/ ConfigureIpv6(r)
             \/ AddPeer(r) \/ UpdatePeer(r) \/ SetPeerEnabled(r) \/ DeletePeer(r)
      PROVE  Inv'
  BY <1>2, <1>6, <1>8 DEF StartAction
<1> QED
  BY <1>3, <1>4, <1>5, <1>7, <1>8 DEF Next, CommandStep

LEMMA InvAlways == Spec => []Inv
<1>1. Init => Inv
  BY InvInit
<1>2. Inv /\ [Next]_vars => Inv'
  BY InvStep
<1> QED
  BY <1>1, <1>2, PTL DEF Spec

\* state.json, the kernel's interface and what every process has in memory are of
\* their types, and the loop of applyInterface never goes past the last peer.
THEOREM WireGuardTypes == Spec => []TypeOK
<1>1. Inv => TypeOK
  BY DEF Inv, Safe, TypeInv, LocalsOK, JobOK, DeviceOK, WorldOK, TypeOK
<1> QED
  BY <1>1, InvAlways, PTL

\* Two networks that do not overlap by cidrOverlaps have no address in common.
LEMMA DisjointNetworks ==
    ASSUME NEW a \in Cidr, NEW b \in Cidr, ~cidrOverlaps(a, b), a.family = b.family
    PROVE  (a.first .. a.last) \cap (b.first .. b.last) = {}
BY DEF Cidr, cidrOverlaps

\* state.json never has two enabled peers with an address in common, for any
\* number of peers, requests and disturbances: every operation that may bring
\* in an overlap goes through the loop of applyInterface, which checks each
\* enabled peer of the very list that is saved later.
THEOREM OverlapsStayOut == Spec => []NoOverlap
<1>1. ASSUME Inv PROVE NoOverlap
  <2>1. file # None => file \in Interfaces /\ OverlapFree(file)
    BY <1>1 DEF Inv, Safe, TypeInv, WorldOK, OverlapInv
  <2>2. SUFFICES ASSUME file # None, NEW n \in DOMAIN file.peers, NEW m \in DOMAIN file.peers,
                        n # m, file.peers[n].enabled, file.peers[m].enabled,
                        NEW a \in computedServerAllowedIps(file.peers[n]),
                        NEW b \in computedServerAllowedIps(file.peers[m]), a.family = b.family
                 PROVE  (a.first .. a.last) \cap (b.first .. b.last) = {}
    BY DEF NoOverlap
  <2>3. a \in Cidr /\ b \in Cidr
    BY <2>1, <2>2, PeersOf, AllowedIpsType
  <2>4. ~cidrOverlaps(a, b)
    BY <2>1, <2>2 DEF OverlapFree, Overlaps
  <2> QED
    BY <2>2, <2>3, <2>4, DisjointNetworks
<1> QED
  BY <1>1, InvAlways, PTL

\* After an operation with applyInterface that nothing came between was reported
\* as done, the kernel has the addresses of state.json and its enabled peers, with
\* their AllowedIPs and routes, whatever had failed, crashed or overlapped before,
\* and whatever the operation itself has swallowed; unless it has swallowed a
\* failure it has no disabled peer of the file and no other address. As long as
\* nothing at all has failed, the kernel has nothing that the file has not.
THEOREM PeersAreInForce == Spec => []PeersInForce
<1>1. Inv => PeersInForce
  BY DEF Inv, ForceInv, PeersInForce, Tidy, Idle
<1> QED
  BY <1>1, InvAlways, PTL
=============================================================================
