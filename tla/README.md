# Verification of Docker Router Manager

TLA+ models of Docker Router Manager (DRM), its backend and the sign-in of its
frontend, their TLC configurations, and TLAPS proofs. All line numbers refer to
the sources under `src/`.

DRM is one Node process. It runs with host networking, keeps its state in JSON
files under `/data`, and changes the host: iptables and ip6tables, routes,
WireGuard interfaces. Its requests are asynchronous functions that share
everything, take (almost) no locks, and let each other run at every `await`. A
request is therefore a process in the models, and a step is what happens
between two awaits.

## Inventory

| Part | State | Operations | What is hard | What makes it correct |
|---|---|---|---|---|
| Firewall service (`firewallService.ts`) | `firewall.json` (draft), `firewall.applied.json`, `firewall.backup.json`; chains DRM-FIREWALL, DRM-INPUT, DRM6-FIREWALL, DRM6-INPUT, and their jumps; conntrack entries | add and delete rules (three kinds), apply, disable, rollback, status | about 40 commands per rendering, each of which may fail; restoring after a failure; overlapping requests; truncated files; crash and reboot | the record of what is in force is what the kernel enforces; refused connections are ended; essential ICMPv6 is never cut off |
| Authentication service (`authService.ts`) | `users.json`, `sessions.json`, a promise per path that serialises saves | bootstrap, login, touch, logout, create, password change and reset, role, deletion, startup cleanup | whole files are read, changed and saved with awaits in between; expiry; first start; failing reads and saves | the built-in administrator stays; the default password is useless; what is revoked stays revoked |
| HTTP API (`index.ts`) | login rate limiter | middleware, role gates, routes; startup restores that nobody awaits | the session and the role are those of an earlier moment | no request is served without session, changed password and role |
| Routing service (`routingService.ts`) | `routes.json`, kernel routes, forwarding switches | add, update, delete, restore | the kernel changes before the file; no restoring after a failure | enabled managed routes are in the kernel after a success and after a restart |
| WireGuard service (`wireguardService.ts`) | `wireguard/state.json`, key files, interfaces, peers, routes, chains DRM-WG*, DRM-WG6* | create and delete an interface, IPv6, peers, access policy, restore | long sequences of commands; a rendering that throws in the middle; state loaded, changed and saved around them | a client reaches what its policy allows only; AllowedIPs of enabled peers do not overlap |
| Docker service and client | none | read-only queries of the Docker socket | a network disappears between listing and inspecting it | |
| Update service | one cached answer | query GitHub, compare versions | tags with parts that are missing or no numbers | only a newer version is announced |
| Frontend (`App.tsx`, `api.ts`) | per tab the user it shows and a CSRF token; per browser the session cookie | sign in and out, change the password, poll, check for updates, send changes | tabs share the cookie and nothing else; answers come late, in any order, or never | a tab acts for the user it shows; it notices the end of its session, and nothing else is taken for it |
| `backend/dist` | | stale build output, replaced in the Docker build | | |

Parts interact through function calls within the process (the routes of
`index.ts` call the services; the firewall service calls `listNetworks` of the
Docker service for every forward chain it renders), through the kernel (the
firewall and the WireGuard service insert jumps into the same parent chains),
and through the files, each of which belongs to one service.

## Plan

1. `FirewallRules`, `Firewall` (done): the core of DRM, one rendering command
   at a time, with proofs.
2. `AccountStore`, `Auth` (done): accounts and sessions, with the abstract
   store that they implement for requests one at a time, with proofs.
3. `Routing` (done): managed routes, refused routes, restore at startup.
4. `WireGuardRules`, `WireGuardAccess` (done): the access policies and the
   chains they are rendered into.
5. `WireGuard` (done): an interface and its peers, file against kernel in the
   order that each operation has, overlap of AllowedIPs, automatic IPv6
   addresses, restore at startup.
6. `FirewallWorkflow`, `FirewallRefinement` (done): draft, configuration in
   force and snapshot as the apply / rollback workflow promises them,
   implemented by `Firewall`.
7. `UpdateService`, `Session` (done): who is signed in, in the tabs of a
   browser.
8. `JsonFile`: the lock and the rename of `saveJson` (lines 45-63), shown to
   implement a register that is written atomically and in order, also when
   saves fail; this is what `Auth` takes for granted.
9. Proofs for every value of the constants (done): see below.

## Modules

| Module | Stands for |
|---|---|
| `FirewallRules` | configurations and the commands that the three `build...Commands` functions emit for them; pure definitions |
| `Firewall` | the firewall service as a state machine, with faults, environment and properties |
| `FirewallWorkflow` | abstract: draft, configuration in force, snapshot |
| `FirewallRefinement` | the refinement mapping from `Firewall` to `FirewallWorkflow` |
| `MCFirewall` | instances for TLC |
| `FirewallProofs` | theorems about `Firewall` |
| `FirewallWorkflowProofs` | theorems about `Firewall`: it implements `FirewallWorkflow`, and refused connections end |
| `AccountStore` | abstract: accounts and sessions, changed one record at a time |
| `Auth` | the authentication service and the middleware in front of every route |
| `MCAuth` | symmetry for TLC |
| `AuthProofs` | theorems about `Auth`, for requests that overlap |
| `AuthSerialProofs` | theorems about `Auth`, for requests one at a time |
| `Routing`, `MCRouting` | managed routes, `routes.json` and the routing table; instances |
| `RoutingProofs` | theorems about `Routing` |
| `WireGuardRules` | access policies and the rules that `applyAccessPolicies` makes of them; pure definitions |
| `WireGuardAccess`, `MCWireGuardAccess` | saving and rendering access policies, with faults, environment and properties; instances |
| `WireGuardAccessProofs` | theorems about `WireGuardRules` and `WireGuardAccess` |
| `WireGuard`, `MCWireGuard` | an interface, its peers and their routes, in `state.json` and in the kernel; instances |
| `WireGuardProofs` | theorems about `WireGuard` |
| `UpdateService` | the comparison of versions; pure definitions |
| `Session`, `MCSession` | sign-in in the tabs of one browser against the middleware; instances |
| `SessionProofs` | theorems about `Session` and `UpdateService` |

### Firewall

State: `draft`, `applied`, `backup` are the three files; a file is a
configuration, `Missing` (absent, or truncated by a `writeFile` that has not
written yet) or `Torn` (does not parse). `parent`, `exists`, `chain` are
iptables and ip6tables; the four pairs of a parent chain and a DRM chain are
the *hooks*, numbered in the order in which `render()` treats them. `flows` are
conntrack entries, `nets` the Docker networks. Every request has a program
counter `pc`, the hook and the command (`hook`, `pos`) that its loop has
reached, and its local variables (`job`).

Actions: `StartAdd`, `StartDelete`, `StartChange`, `StartRollback` begin an
operation with the read of its file. `EditTruncate`/`EditWrite` and the three
pairs like it are the two halves of `writeFile`. `ChainExists` to `AppendRule`
are `render()`, one command each. `Throw` is the `catch` of `applyFirewall`,
which renders and records the previous configuration; `disableFirewall` and
`rollbackFirewall` have none. `Terminate` is the conntrack cleanup.

What may go wrong: `CommandFails` (a command whose failure propagates),
`QueryFails` (one whose failure is taken for "not there"), `DockerFails`,
`SaveFails`, `ConntrackFails`, `Crash`, `Reboot`, `ForeignInsert` (another
program inserts a rule into a parent chain), `RemoveNetwork`. A run bounds
their number by `MaxDisturbances`; the proofs do not.

Abstractions: a rule is an identity with a kind, the hooks of its family and,
for network rules, its networks. All commands of one rule are one token, the
eight essential ICMPv6 accepts are one token, and a rule that has no command in
a chain leaves the inert token `skip`, so that positions match the
configuration. The loop over conntrack deletions is one step. Reading the
status at the end of an operation changes nothing and is left out; so is input
validation, whose failures have no effect. Of the rules, only those for
published ports match a flow, which is all that the conntrack cleanup is about.
A new rule has an identity that nothing refers to.

History variables: `alone` (this rendering has been the only one since it
began) and `outcome` (how the last rendering that ran alone has ended). They
restrict no step.

Properties:

- `InForce`: a rendering that was reported as done, or that restored what was
  there, leaves `firewall.applied.json` readable and equal to what the chains
  and jumps hold, whatever failed, crashed or overlapped *before*.
- `NeverRecordedAhead`: a configuration is recorded as applied only when the
  chains hold it, unless renderings overlap.
- `EssentialIcmpFirst`: no rule precedes the essential ICMPv6 accepts in
  DRM6-INPUT, at any moment, for requests one at a time.
- `RefusedFlowsEnded`: after a success, no connection lives that the rules
  refuse, though the chains were empty for a while and let it in.
- `RequestsAnswered`: the loops over jumps end.
- `ImplementsWorkflow`: `Firewall` implements `FirewallWorkflow`. An edit
  changes one rule of the draft; an apply or a disable takes a snapshot of what
  is in force before it replaces it; a failed apply and a rollback put the
  snapshot in force; and the draft is replaced only by what is in force. The
  mapping takes `writeFile` for one step, at its truncation: a request that is
  between the two halves is going to write (`WritingAt`). It holds for requests
  one at a time while files can be written, whatever commands fail: a crash or
  a full disk between the halves loses the file, and two requests overwrite
  each other's draft and snapshot, neither of which any document excludes.

The comment of line 130, "Ensure exactly one jump from DOCKER-USER and keep it
first", is not a property of any run, because the code does not keep it: it asks
with `-C` whether there is a jump (lines 131-135 and 482-485), wherever it is.
`InForce` therefore asks for a jump and leaves open where it is and how often;
what may happen is described below. It says nothing of jumps when the firewall
is disabled either: all of them are deleted unless a `-D` fails (line 139), and
then those that are left lead to an empty chain.

### Auth

State: `users` and `sessions` are the two files, as functions from
identifiers. `pc[r]`, `job[r]` and the snapshots `newUsers[r]` and
`newSessions[r]` belong to request `r`: what it has read, changed, and is about
to save. `saveJson` writes a temporary file and renames it, so a save is one
step. Its lock orders saves and protects nothing else: the file is read long
before. Time is a clock; a session has the time of its last touch, and is over
`Ttl` later. A password is a value; hashing and verifying it are the awaits
between read and save.

Actions: `StartBoot`, `Boot`, `Bootstrap`, `Cleanup` are `initializeAuth`, which
is called and not awaited before the server listens. `Authenticate`,
`SaveUsers`, `OpenSession`, `SaveSessions` are a login. `StartRequest`,
`ReadCaller`, `Touch` are the middleware with `getSession` and the gates (428,
403) that follow; then one action per handler prepares what is saved, and
`SaveUsers`, `CloseSessions`, `SaveSessions` save it.

What may go wrong: `SaveFails`, `Crash` (with a new start), and a read that
fails: `loadJson` takes it for an empty file, so `getUsersRaw` creates the
built-in account anew, over all others (`UsersReadFails`, `SessionsReadFails`).

Not modelled: the flag `disabled`, which nothing sets; the login rate limit;
the CSRF token and the cookie attributes, which are data of one request;
the times of creation and last login.

Properties:

- `AdminKept`: the built-in account stays and stays an administrator, and names
  stay unique, however saves overwrite each other. Each check is made against
  the very snapshot that is saved; that is why it survives, and why the check
  for the last administrator does no work (the built-in one is always there).
- `DefaultPasswordUseless`: past the middleware nobody has the default password
  except to change it, also after a failed read has brought it back.
- `RevokedStayRevoked`: holds for requests one at a time, with failing saves
  and crashes; violated when they overlap.
- `ImplementsStore`: for requests one at a time, each step is a step of
  `AccountStore` or changes nothing there: saving a whole file changes one
  account, opens, prolongs or ends the sessions the request is about, and drops
  those that are over.

### Routing

State: `managed` is `routes.json` (a file that cannot be parsed is an empty
one, as `readManagedRoutes` has it), `table` the main routing table, `up` the
hops that exist: those through a WireGuard interface come with the interface.
`routes[p]` is the list a request is about to save; for `Boot`, which is
`restoreManagedRoutes`, it is what is left to apply.

Actions: `StartAdd`, `StartUpdate`, `StartDelete` are the requests up to their
first command. `Apply` and `Delete` are `applyOne` and `deleteOne`, `Read` the
read of an addition (which comes after its command; the other two read first),
`BootWith` the filter of the startup, which leaves out disabled routes as it
comes to them,
`Truncate` and `Write` the halves of `writeFile`. `WireGuardApply` is the part
of `applyInterface` that matters here: the interface exists, and its routes are
gone with its addresses.

What may go wrong: `ApplyFails` (the kernel refuses a route), `DeleteFails`
(`deleteOne` does not report it), `SaveFails`, `Crash`, `Reboot`, and a request
that makes WireGuard apply its interface again.

Abstractions: gateway and device are one hop, and a family is part of the
destination. `Careful` limits the users, not the code: a destination is given
to one route only. Without it two managed routes may stand for one entry of the
table, and deleting one of them takes both out.

History variables: `overlapped` and `leftover` (whether operations overlapped
since the start, or left something behind since the reboot), `excused` (routes
for which the user saw an error).

Properties: `Installed` (what is enabled in the file is in the table, except
where an error was reported; a restart mends what overlapping requests have
left) and `NothingLeft` (what is in the table is the host's own or managed).

### WireGuardAccess

State: `policies` is `state.json`, as far as the chains depend on it: per
interface the policy, the families it has an address of, and the networks of its
enabled site-to-site peers. `parent` and `chain` are PREROUTING, FORWARD and
POSTROUTING and DRM's chains below them, per family.

Actions: `StartChange` is any operation that ends with `save` and
`applyAccessPolicies`; `StartCreate` ends with `save`; `StartBoot` is
`restoreWireGuard`, which runs beside the requests. What they do before the save
(interfaces, peers, routes) is the subject of module `WireGuard`. `Jump`,
`Insert`, `Flush`, `AppendRule` are one command each.

What may go wrong with an error: `CommandFails`, `SaveFails`; and a policy for
the Internet without a WAN interface, for which a rendering throws. What may
fail and is passed over: deleting a jump (`JumpMissed`: the loops of lines 179,
198 and 207 take any error of `-D` for "no jump left", and insert another one),
listing FORWARD for the place behind DOCKER-USER (`ListFails`), and the commands
of the IPv6 nat chain in lines 217 and 227 (`NatFails`). Besides: `Crash`,
`Reboot`, `DockerRestart` (DOCKER-USER comes first again), `ForeignInsert`.

Abstractions: the rules for several networks are one, each resource and site
has networks of both families, and clients are those with an address of the
interface's first network in a family. Chains that do not exist are created as
needed and count as empty. The writes to `ip_forward` are left out. `Rendering`
looks the commands for a file up in the set of all renderings (`Renderings`),
which TLC computes once.

Properties:

- `PolicyEnforced`: after an operation that is reported as done, the first rule
  that matches decides, for every interface, source and destination, what the
  policy in the file promises, whatever failed, crashed or overlapped before and
  whatever has failed silently in it; the exception from Docker's raw rules is
  made for selected Docker networks only; and DRM's chain is jumped to: once,
  unless this very operation has passed over the failing deletion of a jump. The
  next one removes all jumps that are left.
- `DockerUserFirst`: that jump is behind the one to DOCKER-USER, unless this very
  operation has passed over the failing deletion of a jump or the failing listing
  of FORWARD.
- `OnlySelected`: violated, see below.

History variables: `undisturbed` and `outcome`, as in `Firewall`; `swallowed`,
which kinds of failure the last operation to begin has passed over; `granted`,
the interfaces whose last change was a success and that no one has touched since.

### WireGuard

State: `file` is one interface of `state.json`, with its peers in order;
`device` is that interface in the kernel, with the families of its addresses,
the AllowedIPs of each public key, and the routes to remote networks. `job[p]`
is the interface in the memory of a request: it was read at the beginning, and
is saved as a whole at the end.

Actions: `CreateInterface` to `DeletePeer` are the eight operations up to their
first command; `SaveOther` is any operation that reads this interface and saves
it unchanged. `RemovePeer` and `Unroute` are the commands before
`applyInterface`. `ShowLink`, `AddLink`, `FlushAddresses`, `AddAddresses`,
`ApplyPeer`, `UnsyncRoutes`, `SyncRoutes` are `applyInterface` and
`syncPeerRoutes`, with the order of the code: creating an interface saves last,
deleting one removes the link first, deleting a peer does not apply the
interface. `Truncate`, `Write` are `save`, and `ApplyPolicies` stands for
`WireGuardAccess`. `StartBoot` is `restoreWireGuard`, which runs beside the
requests and saves nothing. `RemoveLink` is the first command of
`deleteWireGuardInterface`.

What may go wrong: `CommandFails` (a command whose error ends the operation),
`FailsSilently` (one whose error is caught, after which the operation goes on:
the look for the link, the address flush, removing a peer, its routes or the
interface), `SaveFails`, `Crash`, `Reboot`, and the overlap of two operations,
which counts as a disturbance. The kernel is modelled
by what the commands rely on: an AllowedIP belongs to one peer and is taken from
the one that had it; the link must exist; the IPv4 routes go with the addresses.

Abstractions: a network is a family and a range of numbers, which is what
`cidrRange` makes of it; that a network has a text with a prefix is left out. A
peer is its key and its addresses: names, endpoints, DNS and the client's own
AllowedIPs change nothing else, and a public key is that of one peer:
`addWireGuardPeer` takes a key from the user without looking for it in the file,
which the model does not do. A request
that is refused before its first command (nothing there, an overlap) is not a
step. Deletions of routes in a loop, and additions of addresses, are one step.
The gateway of an interface with IPv6 is host 1 of its network, as
`autoIpv6GatewayFromIpv4` makes it.

Properties:

- `NoOverlap`: `state.json` never has two enabled peers whose AllowedIPs
  overlap, however operations fail and overlap. Enabling a peer makes no check
  of its own; it is `applyInterface`, which stands between every change and its
  save, that keeps the file right, at the price of a kernel that is half
  configured by then.
- `PeersInForce`: after an operation with `applyInterface`, or a start, was
  reported as done, the kernel has the enabled peers of the file with their
  AllowedIPs and routes, whatever had gone wrong before and whatever has failed
  silently in it. Unless this very operation has passed over a failure, disabled
  peers are out of the kernel and the interface has its own addresses only. As
  long as nothing has gone wrong, with an error or without, the kernel has
  nothing else either, and a deleted interface is gone.

History variables: `undisturbed`, `outcome` as in `WireGuardAccess`;
`swallowed`, that the last operation to begin has passed over a failure; `clean`,
that every operation so far has succeeded undisturbed and without one.

### Session and UpdateService

State: the server has the sessions `opened` so far with their users, those
that are `live`, and the users who have to change a temporary password. The
browser has one `cookie`. Each tab has the user it shows (`shown`, React state
of `AuthenticatedApp`) and the CSRF token in a variable of `api.ts`. `flight` is
the set of requests and answers on their way, in no order: a request has taken
the cookie along when it was sent, and its answer sets the cookie when it
arrives, before the code of the page sees it.

Actions: `Login`, `SignOut`, `ChangePassword`, `Change` (any other request that
changes something), `Poll` (the timers of `MainApp`), `Load` (a page is opened
or reloaded). `Serve` is the middleware and the authentication routes, one step
per request: 401 without a session, 428 with a temporary password, 403 without
the CSRF token of the session. `Arrive` is what `apiFetch` and its callers do
with an answer, `Lose` what they do when `fetch` throws. `EndSession` and
`PasswordSet` are expiry, administrators and other browsers.

Abstractions: a CSRF token is the session it belongs to. Equal requests of a
tab merge. A poll that is lost is one that was not sent. When the login form is
shown the token is forgotten, since no request that needs one can be sent
before another is set. A handler of the server is one step: `Auth` has its
awaits, and the sessions that come back there (`AuthRevocation`) do not come
back here. A reload drops the answers the page was waiting for. A tag is the
sequence of the numbers between its dots. What the update service has cached is
left out: an update check may be answered with any release or with none.

Properties:

- `ActsAsShown`: what the server does for a tab it does for the user whom the
  tab showed when it asked, although the tabs share the cookie, others sign in
  and out, and late answers set the cookie back. The CSRF check does that, not
  only what it is named for.
- `EndNoticed`: when the session of the cookie has ended, every tab in
  `MainApp` stops showing its user, unless someone signs in again.
- `NoticeIsDue`: an update is announced only if it is newer, and only to the
  user for whom the tab asked, whoever has signed in there meanwhile. `Weight`
  is the reference for `isNewerVersion`.
- `OnlyConfirmed`: a tab goes back to the login form only for a logout there or
  a 401 for a session that has ended (comment at `api.ts` line 66); no 403, 428,
  error or lost connection does that.

## Runs

| Run | What it shows |
|---|---|
| `FirewallFaults` | two hooks (one of each kind of parent chain, one of each family), one request at a time, any one disturbance, rules of all three kinds, a flow: all safety properties |
| `FirewallFour` | the code's four hooks; a rule for both families whose second network has no IPv6 subnet; every request is answered, and the workflow is implemented |
| `FirewallEssentialIcmp` | a violation: two overlapping applies put rules before the ICMPv6 accepts |
| `AuthSerial` | one request at a time, any one failing save or crash, the clock runs past expiry |
| `AuthRace` | two requests, three account identifiers, any one failing read |
| `AuthRevocation` | a violation: a revoked session is saved again |
| `RoutingFaults` | requests, one at a time, beside the startup; two routes, any three disturbances |
| `RoutingTunnel` | a violation: after a reboot, a route through a tunnel is tried before the tunnel is there |
| `WireGuardAccess` | two interfaces with the chains of one family; any one disturbance, which may be that the startup and a request overlap; policies that grant nothing or everything |
| `WireGuardPeers` | one interface, two peers (a client, and a site whose network holds the client's address), two requests and the startup; any one disturbance, which may be an overlap |
| `WireGuardSelected` | a violation: an interface loses its final drop because of another's policy |

Bounds. One disturbance per behaviour is enough to stop any loop at any
command, and to do so in the restoring rendering as well, since a restore
starts only after an error that a removed network can cause without being
counted again; the proofs cover any number. Two requests are the least that
overlap; lost updates need no third. Hooks matter by kind of parent chain and by
what precedes the rules, which two hooks show; the run with four shows the order
of the code. One rule of each kind is enough to tell a configuration from its
predecessors, since identities are recycled once nothing refers to them. In
`Auth`, two names (the built-in one and another) and three identifiers let two
requests add accounts of the same name; with `TouchAfter = 0` every request of
`AuthRace` touches its session, so that the clock can stand still there.

In `Routing`, two routes are the least for the startup to fail on one and go on;
the third destination is that of a route of the host; the disturbances are a
restart, a refusal in it, and one more. In `WireGuardAccess` two interfaces show
what one does to the chains of the other. The families do not read each other's
chains and the loops treat them alike; the run has IPv6, where a failure of the
nat table is ignored, and `WireGuardSelected` has both. One disturbance is
enough, since every rendering that is reported as done has flushed all chains;
an overlap is one for both operations, and what is required of the next
operation is that it puts things right alone. A failure that is passed over is
the one disturbance of a behaviour too: the operation goes on to its end, and
the next one starts from what it has left. In `WireGuardPeers` two peers are the
least that overlap; with IPv6 on, so do the automatic addresses of a peer that
was added after a deletion and of one that was there before. In `SessionTabs`
two tabs, two users and two sessions are the least for one tab to sign in over
another; one request beside a poll lets answers arrive out of order. An update
check counts as that request: the run has its user signed out before the answer
comes, and that another one has signed in by then is in the proofs only.

Overlapping requests of the firewall are not in a run that passes: `InForce`
and `NeverRecordedAhead` are proved for any number of them, and
`FirewallEssentialIcmp` shows what they break.

Fairness. Liveness is checked under weak fairness of `Continue(r)` for each
request: Node resumes every request whose await is over, and all awaited
operations (files, iptables with `-w 5`, the Docker socket) end. Starting a
request, faults and the environment are not fair. In `Session` the timers of each
page are fair, and the server and the network answer polls; users, other
requests and the ends of sessions are not. The fairness of `Poll` is strong only
because the bound `MaxPolls` lets the timer of one page wait for the request of
another: `setInterval` itself waits for nothing.

## Proofs

`FirewallProofs`, for all values of the constants that meet the assumptions of
`FirewallRules` and `Firewall` (any number of hooks, rules, requests and
disturbances):

- `TypeCorrect`. The type invariant is not inductive alone: that `hook` stays
  below `HookCount` and `pos` within the commands of the configuration that is
  being rendered has to be known (`PosOK`).
- `InForceCorrect`, `RecordCorrect`. The strengthening says, for a rendering
  that is alone, how far the kernel has got: chains before its hook are done,
  the others are not yet, by stage (`Stage`); chains that are checked exist
  (`ChainsFound`); at most one rendering is alone, and while it is the outcome
  is unknown (`Lonely`); and once it has ended, record and kernel agree
  (`Settled`).
- `EssentialIcmpCorrect`, under the assumption that there is one request: then
  every rendering is alone (`AlwaysAlone`), and `Stage` orders its commands.

`AuthProofs`, for all values of the constants of `Auth` under `AuthAssumption`
(any number of requests that overlap, of accounts and sessions, of faults):

- `TypeCorrect`. What has to be known besides the types is which operations
  reach which step and which fields of the job are set there (`ControlOK`), and
  that a request that is being handled was admitted.
- `AdminCorrect`. Inductive with two facts about requests under way
  (`AdminAt`): what is about to be saved as `users.json` is sound itself, which
  is why overlapping saves cannot break the property, they only lose changes;
  and nobody is past the middleware while there is no account, so that
  `getUsersRaw` cannot create the built-in account there, beside snapshots that
  are older than it. Both are claimed only as long as every read of the file
  succeeded (`intact`).
- `DefaultPasswordCorrect`. Every record with the default password is marked as
  one to change, in the file, in every snapshot that is about to be saved, and
  in the account that the middleware looked up (`MarkInv`). It holds without
  `intact`: an account that appears because a file could not be read is marked
  too.

`AuthSerialProofs`, under the further assumption `Serial` (the requests are one
and the same; `AuthRevocation` shows that `RevokedCorrect` needs it):

- `RevokedCorrect`. No pending save holds a session that has ended, nor one that
  the operation under way is about to end, and the identifier a login has drawn
  is not one of an ended session (`RevokedAt`). Reads may fail.
- `StoreCorrect`, also under `NoBadReads`: each step of `Auth` is a step of
  `AccountStore` or leaves accounts, sessions and clock alone. What is about to
  be saved is one step of the store away from what the file holds when it is
  saved (`StoreFor`): that is where a second request would come in between.

`FirewallWorkflowProofs`, on top of the invariants of `FirewallProofs`:

- `WorkflowCorrect`: `Spec => ImplementsWorkflow`, step by step, for one request
  at a time (`Serial`) and without `write`, `crash` and `reboot` among the
  disturbances (`NoTornFiles`): a `writeFile` that is cut off between its halves
  leaves a file that reads as nothing, and the draft or the snapshot is lost.
  Commands, rules, queries, Docker and conntrack may fail at any time. The
  inductive invariant (`WorkflowInv`) says for each step what the request knows
  of the three files: what it is about to write is one edit of the draft, is
  the draft, or is the snapshot, and what it took the snapshot of is still in
  force.
- `RefusedFlowsCorrect`, as long as deleting conntrack entries works
  (`ConntrackWorks`, without which nothing ends them). It needs `InForce`, that
  the lists of network rules, in the files and in every request, hold no rule of
  a published port (the rules a flow meets in its chain are those of two lists,
  of which conntrack is told one), and that what a disable renders is not
  enabled (`Apart`). Then each flow that the rules for published ports refuse is
  among those whose entries `Terminate` deletes. Requests may overlap, and
  everything else may fail.

`SessionProofs`, for any number of tabs, users, sessions and tags, in whatever
order messages arrive:

- `SessionTypes`, `ChangesAreOwn`, `LoginFormIsDue`. A tab has the token of a
  session of the user it shows (`TabInv`). Of what is on its way (`FlightInv`):
  the sessions it names have been opened; a change carries the token of the user
  it was asked for by, and its answer comes from a session of that user; a 401
  names a session that is over, and stays over (`RequestInv`); a page that is
  loaded shows nobody and waits for one answer (`LoadInv`); and an update check
  that has not been cancelled was sent for the user still shown (`CheckInv`).
- `NewerIsStrict`: `isNewerVersion` is a strict order on tags (which compares the
  first parts that differ), with missing parts taken for 0.
- `NoticeForAnyTags`, `NoticeForSmallTags`: the notice of a new version. The
  run's property compares numbers made of the parts, so that theorem has the
  hypothesis that the parts fit into these numbers; the other has none.

`RoutingProofs`, for any number of requests that overlap, of routes and of
disturbances:

- `RoutingTypes`. Besides the types: which fields of a job are set at which
  step, and that the startup has an enabled route at hand when it applies one
  (`LocalFor`).
- `InstalledCorrect`, for users who give a destination one route (`Careful`) and
  hosts without routes through tunnels: with them it is false, as `RoutingTunnel`
  shows. `NothingLeftCorrect`, for users who give a destination one route. Both
  rest on `OneEach`: among the file, all lists that anybody is about to save and
  all routes that anybody is about to apply, a destination belongs to one
  identifier, lists have no identifier twice, and the identifier of an addition
  is in none of them before the file is read. So a command for one route leaves
  the entries of all others alone. `Holding` and `Leaving` then say for each step
  what the table has at least and at most while one process does something, and
  `Pending` that the list it is about to save is still the file with its one
  change.

`WireGuardProofs`, for any number of requests that overlap, of peers, networks
and disturbances:

- `WireGuardTypes`. The loop over the peers is within the list (`TypeInv`).
- `OverlapsStayOut`. The peers before the one that the loop of `applyInterface`
  is at have no conflict (`Checked`), and after the loop the interface in the
  memory of the request is free of overlaps (`OverlapInv`), whatever the file has
  become meanwhile: so saves that overwrite each other do not break it.
- `PeersAreInForce`. For an operation that nothing has come between, by its
  step: the file is what it read, the interface in its memory differs by the one
  change, and the kernel has the peers before the one that is next, and their
  routes (`StageOf` in `ForceInv`; `Lonely`: there is one such operation at
  most); and if nothing has ever gone wrong, nothing else (`TidyOf`). Of an
  operation that has passed over a failure this is claimed for the enabled peers
  and the routes to add.

`WireGuardAccessProofs`, for any number of interfaces, policies, resources, sites,
requests that overlap, and disturbances:

- `AccessTypes`. A process is within the list of hooks or of commands that it
  goes through (`TypeInv`).
- `PoliciesAreEnforced`, `DockerUserIsFirst`. The invariant (`AccessInv`) has
  four parts: an operation that nothing has come between is the only one
  (`Alone`); a parent chain has at most one jump to DOCKER-USER, which is what
  makes "behind the first one" and "behind all of them" the same; by its step,
  how far such an operation has come (`Stage`: the hooks before the next one
  have a jump, and one in its place if no deletion and no listing has failed
  unnoticed (`Jumped`); the chains flushed so far are empty, but for the nat
  chain, whose flush may fail; and what the chains decide is what the commands
  so far decide, `Built`); and after the last command all of this holds. That
  the whole rendering decides what the policies promise, whatever the interfaces
  before and behind a given one have, is lemma `CommandsGive`: the commands for
  one interface and family have the answer for its connections and none for the
  others (`InterfaceGives`), and in a sequence of sequences of which one has an
  answer that one decides (`FlattenGives`).
- These need an induction over lists of any length, for `FlattenSeq`. The
  induction theorems of the library cannot be used here, since they take an
  operator as a parameter; the lemmas use the least number that would be a
  counterexample instead (`Least`, from `WFMin`).

Assumptions that the theorems have beside those of the modules are named in
their statements. Those of the modules are about the constants: that a value
that stands for "nothing" is none of the others, that orders and lists are what
their names say.

Only model-checked: `RequestsAnswered` and `EndNoticed`, liveness properties,
which are out of the prover's reach; and the violations.

## Disagreements between code and comments

- `FirewallEssentialIcmp`: `firewallService.ts` line 402 against the missing
  lock around `render`.
- `AuthRevocation`: `authService.ts` line 228 against saves of sessions that
  were read before.
- `RoutingTunnel`: README.md line 258 (routes persist, with a route through
  `wg0` as the example) against `index.ts` line 332, which restores routes and
  tunnels side by side.
- `WireGuardSelected`: README.md line 307 (access to selected resources only)
  against `wireguardService.ts` line 256: a policy is saved, then found to be
  incomplete when the chains are already flushed, and the interfaces behind it
  have no rules.

Against a comment, and described here only:

- `firewallService.ts` line 130, "Ensure exactly one jump from DOCKER-USER and
  keep it first". A rule that another program inserts ahead of the jump
  (`ForeignInsert`) stays ahead at every later rendering, since `-C` finds the
  jump wherever it is. A `-C` that fails (`QueryFails`), in either check of a
  rendering, inserts a second jump, and so do two requests that overlap
  and both find none; later renderings keep both. The second jump does no harm by
  itself, as the chain ends in RETURN; a rule ahead of the first one decides
  before DRM does.
- `App.tsx` line 319, "Update checks must never interrupt login." A 401 for the
  update check raises `drm-auth-expired` like any other (`api.ts` line 67), so
  that a late one signs out a tab that has signed in again meanwhile, although
  the caller ignores the error.
- `wireguardService.ts` line 197, "Keep DOCKER-USER before DRM WireGuard
  forwarding." An operation whose `-D` or `-S` fails reports a success with a
  jump ahead of DOCKER-USER, and the next operation puts it right.
  `DockerUserFirst` excepts it.

Behaviour that the models show and that no document speaks of, so that no run
states it:

- A command of WireGuard that removes something may fail without an error: a
  peer or an interface that was deleted (`wireguardService.ts` lines 516 and
  469) is out of `state.json` and stays in the kernel, until an interface of
  that name or a peer with that key is created again; a disabled peer (lines 510
  and 348) stays until the next operation.

- A 401 or a logout that arrives late signs a tab out although it has signed in
  again meanwhile: `drm-auth-expired` does not say which session has ended.
- A late answer sets the cookie to the session it belongs to (`index.ts` line
  74). A tab that has signed in anew is then refused every change (403) until
  it is loaded again. `ActsAsShown` is why it is refused.
- `signOut` (`App.tsx` line 322) ignores that the logout failed: the login form
  is shown, and the session and the cookie live on.
- `wg set ... peer` without `allowed-ips` (`wireguardService.ts` line 351): a peer
  that is updated to have no AllowedIPs keeps those it had in the kernel.
  `PeersInForce` excepts such peers.
- An operation that fails after its first command leaves the kernel ahead of
  `state.json`, also when the overlap of an enabled peer was the reason.
- An interface with two networks of a family: `applyAccessPolicies` knows the
  first only (`wireguardService.ts` line 238).

## Not modelled

- The lock of `saveJson` (planned). `Auth` takes a save for one step.
- The forwarding switches of the routing service: each writes one file of
  `/proc` and reads it back.
- The cache of the update service: 15 minutes, errors included. It changes how
  old an answer is, and nothing depends on its age.
- The pages of the frontend that show and edit networks, firewall, routes,
  peers and users: forms and tables without state that outlives them.
- The Docker queries and all status functions only read. Key files, client
  configurations and QR codes are written or formatted, and read by nobody here.
- The login rate limit, request validation and the stale build output in
  `backend/dist`, which is not what runs.
