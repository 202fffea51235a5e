---------------------------- MODULE WireGuardAccess ----------------------------
(***************************************************************************)
(* backend/src/wireguardService.ts, the access policies: what the clients  *)
(* and the remote networks of each WireGuard interface may reach.          *)
(*                                                                         *)
(* Every operation reads state.json, changes one interface in memory, saves *)
(* the whole file and then renders the policies of all interfaces into     *)
(* iptables and ip6tables: the jumps to DRM's chains, a flush, and the      *)
(* rules one at a time. Like the rest of DRM it takes no lock. (What an     *)
(* operation does before its save is in module WireGuard.)                  *)
(***************************************************************************)
EXTENDS WireGuardRules

CONSTANTS
    Requests,         \* the requests that may be in progress at the same time
    Boot,             \* restoreWireGuard
    DockerUser,       \* the families with a DOCKER-USER chain in FORWARD
    Disturbances,     \* the kinds of disturbance that occur
    MaxDisturbances   \* bound on the number of disturbances of a behaviour

Processes == Requests \cup {Boot}

ASSUME AccessAssumption ==
    /\ Boot \notin Requests
    /\ DockerUser \subseteq Range(Families)
    /\ Disturbances \subseteq {"overlap", "command", "list", "write", "crash", "reboot", "docker", "foreign"}
    /\ MaxDisturbances \in Nat

VARIABLES
    policies,     \* state.json
    parent,       \* parent[h]: the rules of the parent chain of hook h
    chain,        \* chain[h]: the rules of DRM's chain of hook h
    started,      \* the process runs
    pc,           \* pc[p]: the step process p takes next
    job,          \* job[p]: what p saves and renders, and where its loop is
    undisturbed,  \* history: nothing has come between the steps of p so far
    swallowed,    \* history: what the last operation to begin has failed to do, and
                  \* has gone on as if it had: "delete" a jump, "list" FORWARD
    outcome,      \* history: how the last operation has ended, if undisturbed
    granted,      \* history: the interfaces whose last change was a success,
                  \* in a behaviour without disturbances
    budget        \* the number of disturbances so far

kernel == <<parent, chain>>
control == <<pc, job>>
ghost == <<undisturbed, swallowed, outcome, granted>>
vars == <<policies, kernel, started, control, ghost, budget>>

Steps == {"idle", "truncate", "write", "jump", "insert", "flush", "append"}
ParentRule == {"jump", "docker-user", "other"}

\* target: the configuration that is saved and rendered. at: the hook or the
\* command that is next. place: where the jump goes.
Job == [op : {"none", "create", "change", "boot"}, iface : Names \cup {None},
        target : Config, at : Nat \ {0}, place : Nat \ {0}]
NoJob == [op |-> "none", iface |-> None, target |-> NoInterfaces, at |-> 1, place |-> 1]

Busy(p) == pc[p] # "idle"

ParentAtStart(h) ==
    IF h.table = "forward" /\ h.family \in DockerUser THEN <<"docker-user">> ELSE <<>>

-----------------------------------------------------------------------------
Init ==
    /\ policies = NoInterfaces
    /\ parent = [h \in Hooks |-> ParentAtStart(h)]
    /\ chain = [h \in Hooks |-> <<>>]
    /\ started = FALSE
    /\ pc = [p \in Processes |-> "idle"]
    /\ job = [p \in Processes |-> NoJob]
    /\ undisturbed = [p \in Processes |-> FALSE]
    /\ swallowed = {}
    /\ outcome = "unknown" /\ granted = {}
    /\ budget = 0

Goto(p, step) == pc' = [pc EXCEPT ![p] = step]
Set(p, at, place) == job' = [job EXCEPT ![p] = [@ EXCEPT !.at = at, !.place = place]]

Disturb(kind) ==
    /\ kind \in Disturbances
    /\ budget < MaxDisturbances
    /\ budget' = budget + 1

\* An operation begins that has read the file. That it overlaps another one is a
\* disturbance of both, after which any number of them may overlap those.
Begin(p, step, j) ==
    LET free == \A q \in Processes : ~Busy(q)
    IN /\ ~Busy(p)
       /\ IF \E q \in Processes : undisturbed[q] THEN Disturb("overlap") ELSE UNCHANGED budget
       /\ Goto(p, step)
       /\ job' = [job EXCEPT ![p] = j]
       /\ undisturbed' = [q \in Processes |-> q = p /\ free]
       /\ swallowed' = {}
       /\ outcome' = "unknown"
       /\ granted' = IF free /\ budget = 0 THEN granted \ {j.iface} ELSE {}

\* The operation is over, with success or with an error.
Finish(p, result) ==
    /\ Goto(p, "idle")
    /\ job' = [job EXCEPT ![p] = NoJob]
    /\ undisturbed' = [undisturbed EXCEPT ![p] = FALSE]
    /\ outcome' = IF undisturbed[p] THEN result ELSE "unknown"
    /\ granted' = IF undisturbed[p] /\ budget = 0 /\ result # "error"
                  THEN granted \cup ({job[p].iface} \ {None}) ELSE granted
    /\ UNCHANGED swallowed

\* The loop over the hooks or over the commands goes on, or ends.
Next1(p, last, again, after) ==
    /\ Set(p, IF job[p].at < last THEN job[p].at + 1 ELSE 1, 1)
    /\ Goto(p, IF job[p].at < last THEN again ELSE after)

-----------------------------------------------------------------------------
\* createWireGuardInterface: the policy of a new interface is disabled, and no
\* policies are applied.
StartCreate(r) ==
    /\ started /\ ~Busy(r)
    /\ \E i \in {n \in Names : policies[n] = None}, p \in {q \in Policies : ~q.enabled /\ q.sites = {}} :
         Begin(r, "truncate", [NoJob EXCEPT !.op = "create", !.iface = i,
                               !.target = [policies EXCEPT ![i] = p]])
    /\ UNCHANGED <<policies, kernel, started>>

\* Any other operation: a new access policy, another address, peers that are
\* added, changed, enabled, disabled or removed, or the interface itself is.
StartChange(r) ==
    /\ started /\ ~Busy(r)
    /\ \E i \in {n \in Names : policies[n] # None}, p \in Policies \cup {None} :
         /\ p # policies[i]
         /\ Begin(r, "truncate", [NoJob EXCEPT !.op = "change", !.iface = i,
                                  !.target = [policies EXCEPT ![i] = p]])
    /\ UNCHANGED <<policies, kernel, started>>

\* restoreWireGuard is called before the server listens, and not awaited.
StartBoot ==
    /\ ~started
    /\ started' = TRUE
    /\ Begin(Boot, "jump", [NoJob EXCEPT !.op = "boot", !.target = policies])
    /\ UNCHANGED <<policies, kernel>>

\* save: writeFile truncates, and then writes. An empty file has no interfaces.
Truncate(r) ==
    /\ pc[r] = "truncate"
    /\ policies' = NoInterfaces
    /\ Goto(r, "write")
    /\ UNCHANGED <<kernel, started, job, ghost, budget>>

Write(r) ==
    /\ pc[r] = "write"
    /\ policies' = job[r].target
    /\ IF job[r].op = "create"
       THEN Finish(r, "saved")
       ELSE Goto(r, "jump") /\ UNCHANGED <<job, ghost>>
    /\ UNCHANGED <<kernel, started, budget>>

-----------------------------------------------------------------------------
\* ensureAccessChains. It also creates chains that do not exist, which nothing
\* jumps to.

\* Mutation: the index of the rule, which counts from 0, is not made a position.
Place_Index(rules) == SelectInSeq(rules, LAMBDA rule : rule = "docker-user") - 1

\* The position behind the first jump to DOCKER-USER, or the first one.
Place(rules) == SelectInSeq(rules, LAMBDA rule : rule = "docker-user") + 1

\* Mutation: a jump that is there is kept.
Jump_Kept(p) ==
    /\ pc[p] = "jump"
    /\ LET h == JumpOrder[job[p].at]
       IN IF "jump" \in Range(parent[h])
          THEN /\ Next1(p, Len(JumpOrder), "jump", "flush")
               /\ UNCHANGED parent
          ELSE /\ Set(p, job[p].at, 1)
               /\ Goto(p, "insert")
               /\ UNCHANGED parent
    /\ UNCHANGED <<policies, chain, started, ghost, budget>>

\* Mutation: one jump is deleted.
Jump_OneDeleted(p) ==
    /\ pc[p] = "jump"
    /\ LET h == JumpOrder[job[p].at]
           kept == RemoveFirst(parent[h], "jump")
       IN IF "jump" \in Range(parent[h]) /\ h.table = "nat"
          THEN /\ Next1(p, Len(JumpOrder), "jump", "flush")
               /\ UNCHANGED parent
          ELSE /\ parent' = [parent EXCEPT ![h] = kept]
               /\ Set(p, job[p].at, IF h.table = "forward" THEN Place(kept) ELSE 1)
               /\ Goto(p, "insert")
    /\ UNCHANGED <<policies, chain, started, ghost, budget>>

\* One command: a jump is deleted, until that is an error, as it is when there is
\* none (and, in JumpMissed, when there is one). Then FORWARD is listed,
\* for the position behind the jump to DOCKER-USER. In the nat table a jump that
\* is there is kept.
Jump(p) ==
    /\ pc[p] = "jump"
    /\ LET h == JumpOrder[job[p].at]
       IN IF "jump" \in Range(parent[h])
          THEN IF h.table = "nat"
               THEN /\ Next1(p, Len(JumpOrder), "jump", "flush")
                    /\ UNCHANGED parent
               ELSE /\ parent' = [parent EXCEPT ![h] = RemoveFirst(@, "jump")]
                    /\ UNCHANGED control
          ELSE /\ Set(p, job[p].at, IF h.table = "forward" THEN Place(parent[h]) ELSE 1)
               /\ Goto(p, "insert")
               /\ UNCHANGED parent
    /\ UNCHANGED <<policies, chain, started, ghost, budget>>

\* iptables refuses a position beyond the end.
Insert(p) ==
    /\ pc[p] = "insert"
    /\ LET h == JumpOrder[job[p].at]
       IN IF job[p].place <= Len(parent[h]) + 1
          THEN /\ parent' = [parent EXCEPT ![h] = InsertAt(@, job[p].place, "jump")]
               /\ Next1(p, Len(JumpOrder), "jump", "flush")
               /\ UNCHANGED ghost
          ELSE Finish(p, "error") /\ UNCHANGED parent
    /\ UNCHANGED <<policies, chain, started, budget>>

\* applyAccessPolicies

Flush(p) ==
    /\ pc[p] = "flush"
    /\ chain' = [chain EXCEPT ![FlushOrder[job[p].at]] = <<>>]
    /\ Next1(p, Len(FlushOrder), "flush", "append")
    /\ UNCHANGED <<policies, parent, started, ghost, budget>>

\* A command of the rendering, or the error of a policy for the Internet without
\* a WAN interface.
AppendRule(p) ==
    /\ pc[p] = "append"
    /\ LET commands == Rendering(job[p].target)
           c == commands[job[p].at]
       IN IF c.hook = None
          THEN Finish(p, "error") /\ UNCHANGED chain
          ELSE /\ chain' = [chain EXCEPT ![c.hook] = Append(@, c.rule)]
               /\ IF job[p].at < Len(commands)
                  THEN Set(p, job[p].at + 1, 1) /\ UNCHANGED <<pc, ghost>>
                  ELSE Finish(p, "done")
    /\ UNCHANGED <<policies, parent, started, budget>>

-----------------------------------------------------------------------------
\* What goes wrong.

\* The nat chain of IPv6: an error of its jump or its flush is swallowed.
Optional(p) ==
    \/ pc[p] = "insert" /\ JumpOrder[job[p].at] = Hook("nat", 6)
    \/ pc[p] = "flush" /\ FlushOrder[job[p].at] = Hook("nat", 6)

NatFails(p) ==
    /\ Optional(p)
    /\ Disturb("command")
    /\ IF pc[p] = "insert" THEN Next1(p, Len(JumpOrder), "jump", "flush")
       ELSE Next1(p, Len(FlushOrder), "flush", "append")
    /\ UNCHANGED <<policies, kernel, started, ghost>>

CommandFails(p) ==
    /\ pc[p] \in {"insert", "flush", "append"}
    /\ ~Optional(p)
    /\ Disturb("command")
    /\ Finish(p, "error")
    /\ UNCHANGED <<policies, kernel, started>>

\* The listing of FORWARD fails, and is taken for one without DOCKER-USER.
ListFails(p) ==
    /\ pc[p] = "jump"
    /\ JumpOrder[job[p].at].table = "forward"
    /\ "jump" \notin Range(parent[JumpOrder[job[p].at]])
    /\ Disturb("list")
    /\ Set(p, job[p].at, 1)
    /\ Goto(p, "insert")
    /\ swallowed' = swallowed \cup {"list"}
    /\ UNCHANGED <<policies, kernel, started, undisturbed, outcome, granted>>

\* The deletion of a jump that is there fails, or in the nat table the look for
\* one, and is taken for one that there was no jump; so may the listing after it.
JumpMissed(p) ==
    /\ pc[p] = "jump"
    /\ LET h == JumpOrder[job[p].at]
       IN /\ "jump" \in Range(parent[h])
          /\ \E place \in {1} \cup (IF h.table = "forward" THEN {Place(parent[h])} ELSE {}) :
               Set(p, job[p].at, place)
          /\ swallowed' = IF h.table = "nat" THEN swallowed ELSE swallowed \cup {"delete"}
    /\ Disturb("command")
    /\ Goto(p, "insert")
    /\ UNCHANGED <<policies, kernel, started, undisturbed, outcome, granted>>

\* The file cannot be opened, or is left empty.
SaveFails(r) ==
    /\ pc[r] \in {"truncate", "write"}
    /\ Disturb("write")
    /\ Finish(r, "error")
    /\ UNCHANGED <<policies, kernel, started>>

Stop ==
    /\ started' = FALSE
    /\ pc' = [p \in Processes |-> "idle"]
    /\ job' = [p \in Processes |-> NoJob]
    /\ undisturbed' = [p \in Processes |-> FALSE]
    /\ swallowed' = {}
    /\ outcome' = "unknown"

\* The process dies. Docker starts it again.
Crash ==
    /\ started /\ Disturb("crash")
    /\ Stop
    /\ UNCHANGED <<policies, kernel, granted>>

Reboot ==
    /\ Disturb("reboot")
    /\ Stop
    /\ parent' = [h \in Hooks |-> ParentAtStart(h)]
    /\ chain' = [h \in Hooks |-> <<>>]
    /\ UNCHANGED <<policies, granted>>

\* A position that was looked up before a parent chain changes is out of date.
Intervene ==
    /\ undisturbed' = [p \in Processes |-> undisturbed[p] /\ pc[p] # "insert"]
    /\ UNCHANGED <<policies, chain, started, control, swallowed, outcome, granted>>

\* Docker is restarted, and puts its jump to DOCKER-USER first.
DockerRestart(f) ==
    /\ Disturb("docker")
    /\ parent' = [parent EXCEPT ![Hook("forward", f)] =
                    <<"docker-user">> \o RemoveFirst(@, "docker-user")]
    /\ Intervene

\* Another program inserts a rule.
ForeignInsert(h) ==
    /\ Disturb("foreign")
    /\ parent' = [parent EXCEPT ![h] = <<"other">> \o @]
    /\ Intervene

-----------------------------------------------------------------------------
Next ==
    \/ StartBoot
    \/ \E r \in Requests :
        StartCreate(r) \/ StartChange(r) \/ Truncate(r) \/ Write(r) \/ SaveFails(r)
    \/ \E p \in Processes :
        \/ Jump(p) \/ Insert(p) \/ Flush(p) \/ AppendRule(p)
        \/ CommandFails(p) \/ NatFails(p) \/ ListFails(p) \/ JumpMissed(p)
    \/ Crash \/ Reboot
    \/ \E f \in Range(Families) : DockerRestart(f)
    \/ \E h \in Hooks : ForeignInsert(h)

Spec == Init /\ [][Next]_vars

-----------------------------------------------------------------------------
TypeOK ==
    /\ policies \in Config
    /\ parent \in [Hooks -> Seq(ParentRule)]
    /\ chain \in [Hooks -> Seq(Rule)]
    /\ started \in BOOLEAN
    /\ pc \in [Processes -> Steps]
    /\ job \in [Processes -> Job]
    /\ undisturbed \in [Processes -> BOOLEAN]
    /\ swallowed \subseteq {"delete", "list"}
    /\ outcome \in {"unknown", "error", "saved", "done"}
    /\ granted \subseteq Names
    /\ budget \in 0..MaxDisturbances

\* What a policy promises for new connections from s to d.
Selected(p, f, s, d) ==
    \/ d \in p.docker \cup p.lan
    \/ s = Client /\ d = Internet /\ f \in p.internet
Promised(i, f, s, d) ==
    IF ~Serves(policies, i, f) THEN "return"
    ELSE IF s \notin policies[i].sites \cup {Client} THEN "return"
    ELSE IF Selected(policies[i], f, s, d) THEN "accept" ELSE "drop"

JumpedOnce(h) == Cardinality({n \in DOMAIN parent[h] : parent[h][n] = "jump"}) = 1

\* After an operation that was reported as done, whatever had failed, crashed or
\* overlapped before or failed silently meanwhile, the chains decide what the
\* policies in state.json promise, for every interface, and the packets are sent
\* there; Docker's protection of container addresses is bypassed for selected
\* Docker networks only. They are sent there once, unless this very operation has
\* taken the failing deletion of a jump for the last one (lines 179, 198, 207);
\* the jumps that former operations have left behind are gone.
PolicyEnforced ==
    outcome = "done" =>
        /\ \A i \in Names, f \in Range(Families), s \in Sources, d \in Destinations :
             /\ Verdict(chain[Hook("forward", f)], i, s, d) = Promised(i, f, s, d)
             /\ \/ Verdict(chain[Hook("raw", f)], i, s, d) = "return"
                \/ Promised(i, f, s, d) = "accept" /\ d \in policies[i].docker
             /\ Promised(i, f, s, d) = "accept" /\ d \in policies[i].docker =>
                    Verdict(chain[Hook("raw", f)], i, s, d) = "accept"
        /\ \A h \in Hooks : h.table # "nat" =>
             /\ "jump" \in Range(parent[h])
             /\ "delete" \notin swallowed => JumpedOnce(h)

\* The jump to DRM's chain is behind the one to DOCKER-USER, where the rules of
\* the firewall are, wherever Docker or an operation that failed has put them
\* before. (Line 197: "Keep DOCKER-USER before DRM WireGuard forwarding.") Excepted
\* is the operation that has failed to delete a jump or to list FORWARD itself and
\* is reported as done all the same: it does not keep that.
DockerUserFirst ==
    outcome = "done" /\ swallowed = {} =>
        \A f \in Range(Families) :
            LET rules == parent[Hook("forward", f)]
            IN \A n, m \in DOMAIN rules : rules[n] = "docker-user" /\ rules[m] = "jump" => n < m

\* A policy that was granted limits the clients of its interface for as long as
\* nobody changes it and nothing fails: they reach nothing that is not selected.
\* (README.md line 307: "WireGuard peers can be granted access only to selected
\* resources.")
OnlySelected ==
    started /\ budget = 0 /\ (\A p \in Processes : ~Busy(p)) =>
        \A i \in granted, f \in Range(Families), d \in Destinations :
            Promised(i, f, Client, d) = "drop" =>
                Verdict(chain[Hook("forward", f)], i, Client, d) = "drop"
=============================================================================
