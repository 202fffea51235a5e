-------------------------------- MODULE Routing --------------------------------
(***************************************************************************)
(* backend/src/routingService.ts: static routes that are kept in            *)
(* routes.json and in the routing table of the host. Every operation        *)
(* changes the table with one or two ip commands and saves the whole file;  *)
(* at startup the routes of the file are put into the table, while          *)
(* restoreWireGuard creates the tunnels that some of them go through.       *)
(***************************************************************************)
EXTENDS Integers, SequencesExt

CONSTANTS
    Requests,         \* the requests that may be in progress at the same time
    Boot,             \* restoreManagedRoutes
    Ids,              \* UUIDs of managed routes
    Destinations,
    Hops,             \* gateways and interfaces
    TunnelHops,       \* the hops through a WireGuard interface
    Metrics,
    Foreign,          \* the routes of the host that DRM has nothing to do with
    Careful,          \* users give a destination one route only
    Disturbances,     \* the kinds of disturbance that occur
    MaxDisturbances,  \* bound on the number of disturbances of a behaviour
    None              \* no route

Processes == Requests \cup {Boot}

Entry == [dest : Destinations, hop : Hops, metric : Metrics]
Route == [id : Ids, entry : Entry, enabled : BOOLEAN]

ASSUME RoutingAssumption ==
    /\ Boot \notin Requests
    /\ TunnelHops \subseteq Hops
    /\ Metrics \subseteq Nat
    /\ Foreign \subseteq Entry
    /\ Careful \in BOOLEAN
    /\ Disturbances \subseteq {"refuse", "keep", "write", "crash", "reboot", "wireguard"}
    /\ MaxDisturbances \in Nat
    /\ None \notin Route

VARIABLES
    managed,     \* routes.json; a file that does not parse is an empty one
    table,       \* the main routing table
    up,          \* the hops that exist
    started,     \* the process runs
    tunnels,     \* restoreWireGuard is over
    pc,          \* pc[p]: the step process p takes next
    job,         \* job[p]: the route it had before and the one it gets
    routes,      \* routes[p]: what p saves; for Boot, what it has yet to apply
    overlapped,  \* history: operations have overlapped since the process started
    leftover,    \* history: an operation since the last reboot was cut short or overlapped
    excused,     \* history: the routes whose operation failed
    budget       \* the number of disturbances so far

kernel == <<table, up>>
control == <<pc, job, routes>>
ghost == <<overlapped, leftover, excused>>
vars == <<managed, kernel, started, tunnels, control, ghost, budget>>

Steps == {"idle", "apply", "read", "delete", "truncate", "write"}
Job == [op : {"none", "add", "update", "delete"},
        old : Route \cup {None}, route : Route \cup {None}]
NoJob == [op |-> "none", old |-> None, route |-> None]

Busy(p) == pc[p] # "idle"

-----------------------------------------------------------------------------
\* ip route replace: a destination and a metric have one route.
Replaced(t, e) == {x \in t : x.dest # e.dest \/ x.metric # e.metric} \cup {e}

\* ip route del is given no metric: it deletes the matching route with the
\* least one.
Removed(t, e) ==
    LET hits == {x \in t : x.dest = e.dest /\ x.hop = e.hop}
    IN t \ {x \in hits : \A y \in hits : x.metric <= y.metric}

\* The routes of the file, and of what processes have read of it.
Snapshots == Range(managed) \cup UNION {Range(routes[p]) : p \in Processes}

InUse == {route.id : route \in Snapshots}
         \cup {job[r].route.id : r \in {q \in Requests : job[q].route # None}}

EntryOf(x) == {route.entry : route \in {x} \ {None}}

\* The routes that somebody else has, or is about to have.
Others(old) ==
    (Foreign \cup {route.entry : route \in Snapshots}
             \cup UNION {EntryOf(job[p].route) : p \in Processes}) \ EntryOf(old)

\* What users may enter: anything; or nothing that shares a destination, but for
\* the very route that an operation which failed has left in the table.
Entries(old) ==
    {e \in Entry : Careful =>
        /\ \A x \in Others(old) : x.dest # e.dest
        /\ \A x \in table \ EntryOf(old) : x.dest = e.dest => x = e}

Init ==
    /\ managed = <<>>
    /\ table = Foreign
    /\ up = Hops \ TunnelHops
    /\ started = FALSE /\ tunnels = FALSE
    /\ pc = [p \in Processes |-> "idle"]
    /\ job = [p \in Processes |-> NoJob]
    /\ routes = [p \in Processes |-> <<>>]
    /\ overlapped = FALSE /\ leftover = FALSE /\ excused = {}
    /\ budget = 0

Goto(p, step) == pc' = [pc EXCEPT ![p] = step]

Answer(p) ==
    /\ Goto(p, "idle")
    /\ job' = [job EXCEPT ![p] = NoJob]
    /\ routes' = [routes EXCEPT ![p] = <<>>]

\* A request starts; the history takes down whether another one goes on.
Begin(r, step, j, snapshot) ==
    /\ started /\ ~Busy(r)
    /\ Goto(r, step)
    /\ job' = [job EXCEPT ![r] = j]
    /\ routes' = [routes EXCEPT ![r] = snapshot]
    /\ overlapped' = (overlapped \/ \E p \in Processes : Busy(p))
    /\ leftover' = (leftover \/ \E p \in Processes : Busy(p))
    /\ UNCHANGED <<managed, kernel, started, tunnels, excused, budget>>

-----------------------------------------------------------------------------
\* addManagedRoute of a valid route: it is applied before the file is read.
StartAdd(r) ==
    \E id \in Ids \ InUse, e \in Entries(None) :
      Begin(r, "apply", [op |-> "add", old |-> None,
                         route |-> [id |-> id, entry |-> e, enabled |-> TRUE]], <<>>)

\* updateManagedRoute has read the file and found the route; one that is not
\* there, or that is changed into an invalid one, throws without effect.
StartUpdate(r) ==
    \E i \in DOMAIN managed, enabled \in BOOLEAN : \E e \in Entries(managed[i]) :
      LET new == [id |-> managed[i].id, entry |-> e, enabled |-> enabled]
      IN Begin(r, "delete", [op |-> "update", old |-> managed[i], route |-> new],
               ReplaceAt(managed, i, new))

\* deleteManagedRoute has read the file and found the route.
StartDelete(r) ==
    \E i \in DOMAIN managed :
      Begin(r, "delete", [op |-> "delete", old |-> managed[i], route |-> None],
            RemoveAt(managed, i))

\* The startup goes on with the first enabled route of these, if there is one.
BootWith(todo) ==
    \E n \in 0..Len(todo) :
        /\ \A i \in 1..n : ~todo[i].enabled
        /\ n < Len(todo) => todo[n + 1].enabled
        /\ routes' = [routes EXCEPT ![Boot] = SubSeq(todo, n + 1, Len(todo))]
        /\ Goto(Boot, IF n = Len(todo) THEN "idle" ELSE "apply")

\* The process starts and reads the file; the server listens at once.
StartBoot ==
    /\ ~started
    /\ started' = TRUE
    /\ BootWith(managed)
    /\ UNCHANGED <<managed, kernel, tunnels, job, ghost, budget>>

\* The route that p applies.
Current(p) == IF p = Boot THEN Head(routes[Boot]) ELSE job[p].route

\* The command is over, well or not: Boot goes on with the next route.
NextRoute == BootWith(Tail(routes[Boot])) /\ UNCHANGED job

\* Mutation: the startup stops at a route that cannot be applied.
Refused_Stops(p) == Answer(p)

\* applyOne throws: a request fails, the startup logs it and goes on.
Refused(p) == IF p = Boot THEN NextRoute ELSE Answer(p)

\* applyOne
Apply(p) ==
    /\ pc[p] = "apply"
    /\ IF Current(p).entry.hop \in up
       THEN /\ table' = Replaced(table, Current(p).entry)
            /\ excused' = excused \ {Current(p).id}
            /\ IF p = Boot
               THEN NextRoute
               ELSE /\ Goto(p, IF job[p].op = "add" THEN "read" ELSE "truncate")
                    /\ UNCHANGED <<job, routes>>
       ELSE /\ Refused(p)
            /\ excused' = IF p = Boot THEN excused ELSE excused \cup {Current(p).id}
            /\ UNCHANGED table
    /\ UNCHANGED <<managed, up, started, tunnels, overlapped, leftover, budget>>

\* Mutation: what is pushed is the old route of an update.
Read_Old(r) ==
    /\ pc[r] = "read"
    /\ routes' = [routes EXCEPT ![r] = Append(managed, job[r].old)]
    /\ Goto(r, "truncate")
    /\ UNCHANGED <<managed, kernel, started, tunnels, job, ghost, budget>>

\* addManagedRoute reads the file and pushes the new route.
Read(r) ==
    /\ pc[r] = "read"
    /\ routes' = [routes EXCEPT ![r] = Append(managed, job[r].route)]
    /\ Goto(r, "truncate")
    /\ UNCHANGED <<managed, kernel, started, tunnels, job, ghost, budget>>

\* Mutation: an update leaves the old route in the table.
Delete_OfDeletedOnly(r) ==
    /\ pc[r] = "delete"
    /\ table' = IF job[r].op = "delete" THEN Removed(table, job[r].old.entry) ELSE table
    /\ Goto(r, IF job[r].op = "update" /\ job[r].route.enabled THEN "apply" ELSE "truncate")
    /\ UNCHANGED <<managed, up, started, tunnels, job, routes, ghost, budget>>

\* deleteOne of the old route
Delete(r) ==
    /\ pc[r] = "delete"
    /\ table' = Removed(table, job[r].old.entry)
    /\ Goto(r, IF job[r].op = "update" /\ job[r].route.enabled THEN "apply" ELSE "truncate")
    /\ UNCHANGED <<managed, up, started, tunnels, job, routes, ghost, budget>>

\* saveManagedRoutes: writeFile truncates the file, and then writes it.
Truncate(r) ==
    /\ pc[r] = "truncate"
    /\ managed' = <<>>
    /\ Goto(r, "write")
    /\ UNCHANGED <<kernel, started, tunnels, job, routes, ghost, budget>>

Write(r) ==
    /\ pc[r] = "write"
    /\ managed' = routes[r]
    /\ Answer(r)
    /\ UNCHANGED <<kernel, started, tunnels, ghost, budget>>

-----------------------------------------------------------------------------
\* What goes wrong.
Disturb(kind) ==
    /\ kind \in Disturbances
    /\ budget < MaxDisturbances
    /\ budget' = budget + 1

\* The kernel refuses a route (a gateway it cannot reach).
ApplyFails(p) ==
    /\ pc[p] = "apply"
    /\ Disturb("refuse")
    /\ Refused(p)
    /\ excused' = excused \cup {Current(p).id}
    /\ UNCHANGED <<managed, kernel, started, tunnels, overlapped, leftover>>

\* The route is not deleted, and deleteOne does not say so.
DeleteFails(r) ==
    /\ pc[r] = "delete"
    /\ Disturb("keep")
    /\ Goto(r, IF job[r].op = "update" /\ job[r].route.enabled THEN "apply" ELSE "truncate")
    /\ leftover' = TRUE
    /\ UNCHANGED <<managed, kernel, started, tunnels, job, routes, overlapped, excused>>

\* The file cannot be opened, or is left empty.
SaveFails(r) ==
    /\ pc[r] \in {"truncate", "write"}
    /\ Disturb("write")
    /\ Answer(r)
    /\ leftover' = TRUE
    /\ excused' = excused \cup {route.id : route \in {job[r].old} \ {None}}
    /\ UNCHANGED <<managed, kernel, started, tunnels, overlapped>>

Stop ==
    /\ started' = FALSE /\ tunnels' = FALSE
    /\ pc' = [p \in Processes |-> "idle"]
    /\ job' = [p \in Processes |-> NoJob]
    /\ routes' = [p \in Processes |-> <<>>]
    /\ overlapped' = FALSE

\* The process dies. Docker starts it again.
Crash ==
    /\ started
    /\ Disturb("crash")
    /\ Stop
    /\ leftover' = (leftover \/ \E p \in Processes : Busy(p))
    /\ UNCHANGED <<managed, kernel, excused>>

Reboot ==
    /\ Disturb("reboot")
    /\ Stop
    /\ table' = Foreign
    /\ up' = Hops \ TunnelHops
    /\ leftover' = FALSE
    /\ UNCHANGED <<managed, excused>>

\* applyInterface of the WireGuard service, at startup or in a request: it
\* creates the interface if need be and flushes its addresses, and with its last
\* address the kernel deletes the routes through it.
WireGuardApply ==
    /\ started
    /\ \/ ~tunnels /\ UNCHANGED budget
       \/ Disturb("wireguard")
    /\ tunnels' = TRUE
    /\ up' = Hops
    /\ table' = {e \in table : e.hop \notin TunnelHops}
    /\ UNCHANGED <<managed, started, control, ghost>>

-----------------------------------------------------------------------------
Next ==
    \/ StartBoot \/ Apply(Boot) \/ ApplyFails(Boot)
    \/ \E r \in Requests :
        \/ StartAdd(r) \/ StartUpdate(r) \/ StartDelete(r)
        \/ Apply(r) \/ Read(r) \/ Delete(r) \/ Truncate(r) \/ Write(r)
        \/ ApplyFails(r) \/ DeleteFails(r) \/ SaveFails(r)
    \/ Crash \/ Reboot \/ WireGuardApply

Spec == Init /\ [][Next]_vars

-----------------------------------------------------------------------------
TypeOK ==
    /\ managed \in Seq(Route)
    /\ table \subseteq Entry
    /\ up \subseteq Hops
    /\ started \in BOOLEAN /\ tunnels \in BOOLEAN
    /\ pc \in [Processes -> Steps]
    /\ job \in [Processes -> Job]
    /\ routes \in [Processes -> Seq(Route)]
    /\ overlapped \in BOOLEAN /\ leftover \in BOOLEAN
    /\ excused \subseteq Ids
    /\ budget \in 0..MaxDisturbances

\* Both restores are over and no request is in progress.
Quiet == started /\ tunnels /\ \A p \in Processes : ~Busy(p)

EnabledEntries(ids) ==
    {route.entry : route \in {x \in Range(managed) : x.enabled /\ x.id \in ids}}

\* A managed route is in the routing table, after every operation and after a
\* restart, unless an error was reported for it or operations overlapped. A
\* restart puts right what an overlap has left. (README.md line 258:
\* "persistence of DRM-managed routes".)
Installed == Quiet /\ ~overlapped => EnabledEntries(Ids \ excused) \subseteq table

\* A route that was deleted, disabled or changed is out of the table, and so is
\* one whose addition failed: nothing is there but what the host has itself and
\* the managed routes, as long as no save failed and nothing overlapped.
NothingLeft == Quiet /\ ~leftover => table \subseteq Foreign \cup EnabledEntries(Ids)
=============================================================================
