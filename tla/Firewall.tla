------------------------------- MODULE Firewall -------------------------------
(***************************************************************************)
(* backend/src/firewallService.ts: requests edit a draft configuration     *)
(* (firewall.json) and apply it, disable the firewall or roll it back by    *)
(* rendering a configuration into iptables, one command at a time, and     *)
(* recording it in firewall.applied.json and firewall.json.                *)
(*                                                                         *)
(* The service takes no lock: every await (a file operation, an iptables   *)
(* command, a Docker call) lets the other requests run, so each of them is *)
(* one action here.                                                        *)
(***************************************************************************)
EXTENDS FirewallRules

CONSTANTS
    Requests,         \* the requests that may be in progress at the same time
    Refusing,         \* the rules whose action is DROP or REJECT
    Flows,            \* connections to published ports
    FlowHook,         \* FlowHook[f]: the forward hook that sees flow f
    FlowRules,        \* FlowRules[f]: the published rules that match flow f
    Disturbances,     \* the kinds of disturbance that occur
    MaxDisturbances   \* bound on the number of disturbances of a behaviour

DisturbanceKinds == {"iptables", "docker", "write", "conntrack", "crash",
                     "reboot", "foreign", "network"}

ASSUME FirewallAssumption ==
    /\ Refusing \subseteq Rules
    /\ FlowHook \in [Flows -> ForwardHooks]
    /\ FlowRules \in [Flows -> SUBSET {r \in Rules : Kind[r] = "published"}]
    /\ Disturbances \subseteq DisturbanceKinds
    /\ MaxDisturbances \in Nat

VARIABLES
    \* the three files
    draft,      \* firewall.json
    applied,    \* firewall.applied.json
    backup,     \* firewall.backup.json
    \* the kernel
    parent,     \* parent[h]: rules of DOCKER-USER or INPUT, "jump" is ours
    exists,     \* the hooks whose DRM chain exists
    chain,      \* chain[h]: what the DRM chain of hook h holds
    flows,      \* established connections (conntrack)
    nets,       \* the Docker networks that exist
    \* the requests
    pc,         \* pc[r]: the step request r takes next
    hook,       \* hook[r]: the hook that step is about
    pos,        \* pos[r]: the command that is appended next
    job,        \* job[r]: the local variables of r
    \* history
    alone,      \* alone[r]: r renders and no other request has, since it began
    outcome,    \* how the last rendering ended, "unknown" while one goes on
    budget      \* the number of disturbances so far

files == <<draft, applied, backup>>
kernel == <<parent, exists, chain>>
world == <<nets, flows, budget>>
control == <<pc, hook, pos>>
ghost == <<alone, outcome>>
vars == <<files, kernel, world, control, job, ghost>>

Steps == {"idle", "editT", "editW", "readApplied", "backupT", "backupW",
          "exists", "create", "check", "insert", "flush", "remove", "recheck",
          "reinsert", "build", "append", "appliedT", "appliedW", "configT",
          "configW", "terminate"}

\* render(), and what follows it until the operation is over.
RenderSteps == Steps \ {"idle", "editT", "editW", "readApplied", "backupT", "backupW"}

Operations == {"none", "edit", "apply", "disable", "rollback"}

Job == [op : Operations, target : Config, previous : Config, undo : BOOLEAN]

NoJob == [op |-> "none", target |-> EmptyConfig, previous |-> EmptyConfig, undo |-> FALSE]

Active(r) == pc[r] \in RenderSteps

-----------------------------------------------------------------------------
\* Whether the jump to the DRM chain is in the parent chain of hook h.
Jumped(h) == "jump" \in Range(parent[h])

\* The chain of f's hook refuses f: the first rule that matches f refuses it.
RefusedBy(commands, f) ==
    \E i \in DOMAIN commands :
        /\ commands[i] \in FlowRules[f] \cap Refusing
        /\ \A j \in 1..(i - 1) : commands[j] \notin FlowRules[f] \cup {"return"}

\* Everything that holds a rule; a new UUID is in none of it.
Configs == {ReadConfig(draft), ReadConfig(applied), ReadConfig(backup)}
           \cup UNION {{job[r].target, job[r].previous} : r \in Requests}
InUse == UNION {RulesOf(c) : c \in Configs} \cup UNION {Range(chain[h]) : h \in Hooks}

Init ==
    /\ draft = Missing /\ applied = Missing /\ backup = Missing
    /\ parent = [h \in Hooks |-> <<>>]
    /\ exists = {}
    /\ chain = [h \in Hooks |-> <<>>]
    /\ flows = {}
    /\ nets = Networks
    /\ pc = [r \in Requests |-> "idle"]
    /\ hook = [r \in Requests |-> 1]
    /\ pos = [r \in Requests |-> 1]
    /\ job = [r \in Requests |-> NoJob]
    /\ alone = [r \in Requests |-> FALSE]
    /\ outcome = "unknown"
    /\ budget = 0

Goto(r, step, h) ==
    /\ pc' = [pc EXCEPT ![r] = step]
    /\ hook' = [hook EXCEPT ![r] = h]
    /\ pos' = [pos EXCEPT ![r] = 1]

\* Mutation: the loop runs once too often.
NextHook_OffByOne(r, again, after) ==
    IF hook[r] <= HookCount THEN Goto(r, again, hook[r] + 1) ELSE Goto(r, after, 1)

\* The body of a loop over the hooks is done for one of them.
NextHook(r, again, after) ==
    IF hook[r] < HookCount THEN Goto(r, again, hook[r] + 1) ELSE Goto(r, after, 1)

\* The request is answered before or after its rendering.
Answer(r) ==
    /\ Goto(r, "idle", 1)
    /\ job' = [job EXCEPT ![r] = NoJob]

\* A rendering is over. What it says of the kernel is only known when no other
\* rendering ran between its commands.
Finish(r, result) ==
    /\ Answer(r)
    /\ outcome' = IF alone[r] THEN result ELSE "unknown"
    /\ alone' = [alone EXCEPT ![r] = FALSE]

\* A rendering starts, with the job j.
StartRender(r, j) ==
    /\ Goto(r, "exists", 1)
    /\ job' = [job EXCEPT ![r] = j]
    /\ outcome' = "unknown"
    /\ alone' = IF \E s \in Requests \ {r} : Active(s)
                THEN [s \in Requests |-> FALSE]
                ELSE [alone EXCEPT ![r] = TRUE]

\* Mutation: the previous configuration is recorded without being rendered.
Throw_NotRendered(r) ==
    IF job[r].op = "apply" /\ ~job[r].undo
    THEN /\ Goto(r, "appliedT", 1)
         /\ job' = [job EXCEPT ![r] = [@ EXCEPT !.target = job[r].previous, !.undo = TRUE]]
         /\ UNCHANGED ghost
    ELSE Finish(r, "unknown")

\* An error after StartRender: apply renders the previous configuration again,
\* any other operation, or an error of that second rendering, is final.
Throw(r) ==
    IF job[r].op = "apply" /\ ~job[r].undo
    THEN /\ Goto(r, "exists", 1)
         /\ job' = [job EXCEPT ![r] = [@ EXCEPT !.target = job[r].previous, !.undo = TRUE]]
         /\ UNCHANGED ghost
    ELSE Finish(r, "unknown")

-----------------------------------------------------------------------------
\* The requests: the step that reads, up to its next await.

\* addFirewallRule, addPublishedPortRule, addHostInputRule: the input is valid
\* and the draft has been read.
StartAdd(r) ==
    /\ pc[r] = "idle"
    /\ \E rule \in Rules \ InUse :
         job' = [job EXCEPT ![r] = [NoJob EXCEPT !.op = "edit",
                                    !.target = AddRule(ReadConfig(draft), rule)]]
    /\ Goto(r, "editT", 1)
    /\ UNCHANGED <<files, kernel, world, ghost>>

\* deleteFirewallRule, deletePublishedPortRule, deleteHostInputRule of a rule
\* the draft has; any other throws without effect.
StartDelete(r) ==
    /\ pc[r] = "idle"
    /\ \E kind \in {"published", "network", "input"} :
         \E i \in DOMAIN ReadConfig(draft)[kind] :
           job' = [job EXCEPT ![r] = [NoJob EXCEPT !.op = "edit",
                                      !.target = DeleteAt(ReadConfig(draft), kind, i)]]
    /\ Goto(r, "editT", 1)
    /\ UNCHANGED <<files, kernel, world, ghost>>

\* applyFirewall and disableFirewall differ in the flag they give the draft.
StartChange(r, op) ==
    /\ pc[r] = "idle"
    /\ job' = [job EXCEPT ![r] = [NoJob EXCEPT !.op = op,
                 !.target = [ReadConfig(draft) EXCEPT !.enabled = (op = "apply")]]]
    /\ Goto(r, "readApplied", 1)
    /\ UNCHANGED <<files, kernel, world, ghost>>

\* rollbackFirewall throws without effect when there is no readable backup.
StartRollback(r) ==
    /\ pc[r] = "idle"
    /\ backup \notin NoConfig
    /\ StartRender(r, [NoJob EXCEPT !.op = "rollback", !.target = backup])
    /\ UNCHANGED <<files, kernel, world>>

\* Mutation: the snapshot is taken of the draft.
ReadApplied_Draft(r) ==
    /\ pc[r] = "readApplied"
    /\ job' = [job EXCEPT ![r] = [@ EXCEPT !.previous = ReadConfig(draft)]]
    /\ Goto(r, "backupT", 1)
    /\ UNCHANGED <<files, kernel, world, ghost>>

ReadApplied(r) ==
    /\ pc[r] = "readApplied"
    /\ job' = [job EXCEPT ![r] = [@ EXCEPT !.previous = ReadConfig(applied)]]
    /\ Goto(r, "backupT", 1)
    /\ UNCHANGED <<files, kernel, world, ghost>>

-----------------------------------------------------------------------------
\* writeFile truncates the file, then writes it from its start. When another
\* request has written since the truncation, what is left of its longer text
\* may follow the new one: the file does not parse.
Written(file, c) == IF file = Missing THEN {c} ELSE {c, Torn}

EditTruncate(r) ==
    /\ pc[r] = "editT"
    /\ draft' = Missing
    /\ Goto(r, "editW", 1)
    /\ UNCHANGED <<applied, backup, kernel, world, job, ghost>>

EditWrite(r) ==
    /\ pc[r] = "editW"
    /\ draft' \in Written(draft, job[r].target)
    /\ Answer(r)
    /\ UNCHANGED <<applied, backup, kernel, world, ghost>>

BackupTruncate(r) ==
    /\ pc[r] = "backupT"
    /\ backup' = Missing
    /\ Goto(r, "backupW", 1)
    /\ UNCHANGED <<draft, applied, kernel, world, job, ghost>>

BackupWrite(r) ==
    /\ pc[r] = "backupW"
    /\ backup' \in Written(backup, job[r].previous)
    /\ StartRender(r, job[r])
    /\ UNCHANGED <<draft, applied, kernel, world>>

-----------------------------------------------------------------------------
\* render(), one command at a time.

\* ensureChain, ensureInputChain, ensureChain6: create the chain if it is not
\* there ...
ChainExists(r) ==
    /\ pc[r] = "exists"
    /\ Goto(r, IF hook[r] \in exists THEN "check" ELSE "create", hook[r])
    /\ UNCHANGED <<files, kernel, world, job, ghost>>

ChainCreate(r) ==
    /\ pc[r] = "create"
    /\ exists' = exists \cup {hook[r]}
    /\ IF hook[r] \in exists
       THEN Throw(r)                                    \* -N: chain already exists
       ELSE Goto(r, "check", hook[r]) /\ UNCHANGED <<job, ghost>>
    /\ UNCHANGED <<files, parent, chain, world>>

\* ... then insert the jump if it is not there.
JumpCheck(r) ==
    /\ pc[r] = "check"
    /\ IF Jumped(hook[r]) THEN NextHook(r, "exists", "flush") ELSE Goto(r, "insert", hook[r])
    /\ UNCHANGED <<files, kernel, world, job, ghost>>

InsertJump(r) == parent' = [parent EXCEPT ![hook[r]] = <<"jump">> \o @]

JumpInsert(r) ==
    /\ pc[r] = "insert"
    /\ InsertJump(r)
    /\ NextHook(r, "exists", "flush")
    /\ UNCHANGED <<files, exists, chain, world, job, ghost>>

\* Mutation: the old commands stay.
Flush_Omitted(r) ==
    /\ pc[r] = "flush"
    /\ NextHook(r, "flush", IF job[r].target.enabled THEN "recheck" ELSE "remove")
    /\ UNCHANGED <<files, kernel, world, job, ghost>>

Flush(r) ==
    /\ pc[r] = "flush"
    /\ chain' = [chain EXCEPT ![hook[r]] = <<>>]
    /\ NextHook(r, "flush", IF job[r].target.enabled THEN "recheck" ELSE "remove")
    /\ UNCHANGED <<files, parent, exists, world, job, ghost>>

\* Mutation: the loop does not end when no jump is left.
JumpRemove_Endless(r) ==
    /\ pc[r] = "remove"
    /\ parent' = [parent EXCEPT ![hook[r]] = SelectSeq(@, LAMBDA t : t # "jump")]
    /\ UNCHANGED <<files, exists, chain, world, control, job, ghost>>

\* removeJump, removeInputJump, removeJump6: delete jumps until that fails.
JumpRemove(r) ==
    /\ pc[r] = "remove"
    /\ \/ /\ ~Jumped(hook[r])
          /\ NextHook(r, "remove", "appliedT")
          /\ UNCHANGED parent
       \/ \E i \in DOMAIN parent[hook[r]] :
            /\ parent[hook[r]][i] = "jump"
            /\ \A j \in 1..(i - 1) : parent[hook[r]][j] # "jump"
            /\ parent' = [parent EXCEPT ![hook[r]] = RemoveAt(@, i)]
            /\ UNCHANGED control
    /\ UNCHANGED <<files, exists, chain, world, job, ghost>>

JumpRecheck(r) ==
    /\ pc[r] = "recheck"
    /\ IF Jumped(hook[r]) THEN NextHook(r, "recheck", "build") ELSE Goto(r, "reinsert", hook[r])
    /\ UNCHANGED <<files, kernel, world, job, ghost>>

JumpReinsert(r) ==
    /\ pc[r] = "reinsert"
    /\ InsertJump(r)
    /\ NextHook(r, "recheck", "build")
    /\ UNCHANGED <<files, exists, chain, world, job, ghost>>

\* Mutation: the error of a missing network is swallowed.
Build_ErrorSwallowed(r) ==
    /\ pc[r] = "build"
    /\ IF Buildable(job[r].target, hook[r], nets)
       THEN Goto(r, "append", hook[r])
       ELSE NextHook(r, "build", "appliedT")
    /\ UNCHANGED <<files, kernel, world, job, ghost>>

\* The commands of one chain are computed before the first of them runs.
Build(r) ==
    /\ pc[r] = "build"
    /\ IF Buildable(job[r].target, hook[r], nets)
       THEN Goto(r, "append", hook[r]) /\ UNCHANGED <<job, ghost>>
       ELSE Throw(r)
    /\ UNCHANGED <<files, kernel, world>>

AppendRule(r) ==
    /\ pc[r] = "append"
    /\ LET commands == Commands(job[r].target, hook[r]) IN
         /\ chain' = [chain EXCEPT ![hook[r]] = Append(@, commands[pos[r]])]
         /\ IF pos[r] < Len(commands)
            THEN pos' = [pos EXCEPT ![r] = @ + 1] /\ UNCHANGED <<pc, hook>>
            ELSE NextHook(r, "build", "appliedT")
    /\ UNCHANGED <<files, parent, exists, world, job, ghost>>

-----------------------------------------------------------------------------
\* What follows render().

AppliedTruncate(r) ==
    /\ pc[r] = "appliedT"
    /\ applied' = Missing
    /\ Goto(r, "appliedW", 1)
    /\ UNCHANGED <<draft, backup, kernel, world, job, ghost>>

\* saveApplied; it ends the catch block of applyFirewall.
AppliedWrite(r) ==
    /\ pc[r] = "appliedW"
    /\ applied' \in Written(applied, job[r].target)
    /\ IF job[r].undo
       THEN Finish(r, "restored")
       ELSE Goto(r, "configT", 1) /\ UNCHANGED <<job, ghost>>
    /\ UNCHANGED <<draft, backup, kernel, world>>

ConfigTruncate(r) ==
    /\ pc[r] = "configT"
    /\ draft' = Missing
    /\ Goto(r, "configW", 1)
    /\ UNCHANGED <<applied, backup, kernel, world, job, ghost>>

\* saveConfig: the rendered configuration becomes the draft.
ConfigWrite(r) ==
    /\ pc[r] = "configW"
    /\ draft' \in Written(draft, job[r].target)
    /\ IF job[r].op = "disable"
       THEN Finish(r, "committed")
       ELSE Goto(r, "terminate", 1) /\ UNCHANGED <<job, ghost>>
    /\ UNCHANGED <<applied, backup, kernel, world>>

\* Mutation: the rules that accept are taken.
Terminators_Inverted(c) ==
    {rule \in Range(c.published) : RuleHooks[rule] # {} /\ rule \notin Refusing}

\* The enabled DROP and REJECT rules for published ports.
Terminators(c) == {rule \in Range(c.published) : RuleHooks[rule] # {} /\ rule \in Refusing}

\* terminatePublishedPortConnections: conntrack -D for each of these rules.
Terminate(r) ==
    /\ pc[r] = "terminate"
    /\ flows' = {f \in flows : FlowRules[f] \cap Terminators(job[r].target) = {}}
    /\ Finish(r, "committed")
    /\ UNCHANGED <<files, kernel, nets, budget>>

-----------------------------------------------------------------------------
\* What goes wrong.

Disturb(kind) ==
    /\ kind \in Disturbances
    /\ budget < MaxDisturbances
    /\ budget' = budget + 1

\* A command whose failure render() does not catch.
CommandFails(r) ==
    /\ pc[r] \in {"create", "insert", "flush", "reinsert", "append"}
    /\ Disturb("iptables")
    /\ Throw(r)
    /\ UNCHANGED <<files, kernel, nets, flows>>

\* A command whose failure is taken for an answer: the chain, or the jump, is
\* not there.
QueryFails(r) ==
    /\ \/ pc[r] = "exists" /\ Goto(r, "create", hook[r])
       \/ pc[r] = "check" /\ Goto(r, "insert", hook[r])
       \/ pc[r] = "recheck" /\ Goto(r, "reinsert", hook[r])
       \/ pc[r] = "remove" /\ NextHook(r, "remove", "appliedT")
    /\ Disturb("iptables")
    /\ UNCHANGED <<files, kernel, nets, flows, job, ghost>>

\* listNetworks throws.
DockerFails(r) ==
    /\ pc[r] = "build"
    /\ hook[r] \in ForwardHooks
    /\ Disturb("docker")
    /\ Throw(r)
    /\ UNCHANGED <<files, kernel, nets, flows>>

\* A file cannot be opened, and stays as it is, or cannot be written to its end.
SaveFails(r) ==
    /\ \/ pc[r] \in {"editT", "backupT", "appliedT", "configT"} /\ UNCHANGED files
       \/ pc[r] \in {"editW", "configW"} /\ draft' = Torn /\ UNCHANGED <<applied, backup>>
       \/ pc[r] = "backupW" /\ backup' = Torn /\ UNCHANGED <<draft, applied>>
       \/ pc[r] = "appliedW" /\ applied' = Torn /\ UNCHANGED <<draft, backup>>
    /\ Disturb("write")
    /\ IF Active(r) THEN Throw(r) ELSE Answer(r) /\ UNCHANGED ghost
    /\ UNCHANGED <<kernel, nets, flows>>

\* conntrack fails for one rule: a warning is logged.
ConntrackFails(r) ==
    /\ pc[r] = "terminate"
    /\ \E failed \in Terminators(job[r].target) :
         flows' = {f \in flows : FlowRules[f] \cap (Terminators(job[r].target) \ {failed}) = {}}
    /\ Disturb("conntrack")
    /\ Finish(r, "committed")
    /\ UNCHANGED <<files, kernel, nets>>

\* The process dies with its requests; Docker starts it again. Nothing is
\* rendered at the start.
Crash ==
    /\ Disturb("crash")
    /\ pc' = [r \in Requests |-> "idle"]
    /\ hook' = [r \in Requests |-> 1]
    /\ pos' = [r \in Requests |-> 1]
    /\ job' = [r \in Requests |-> NoJob]
    /\ alone' = [r \in Requests |-> FALSE]
    /\ UNCHANGED <<files, kernel, nets, flows, outcome>>

\* The host starts again: the files and the networks are all it keeps.
Reboot ==
    /\ Disturb("reboot")
    /\ parent' = [h \in Hooks |-> <<>>]
    /\ exists' = {}
    /\ chain' = [h \in Hooks |-> <<>>]
    /\ flows' = {}
    /\ pc' = [r \in Requests |-> "idle"]
    /\ hook' = [r \in Requests |-> 1]
    /\ pos' = [r \in Requests |-> 1]
    /\ job' = [r \in Requests |-> NoJob]
    /\ alone' = [r \in Requests |-> FALSE]
    /\ outcome' = "unknown"
    /\ UNCHANGED <<files, nets>>

\* Another program inserts a rule of its own at the head of a parent chain.
ForeignInsert ==
    /\ Disturb("foreign")
    /\ \E h \in Hooks : parent' = [parent EXCEPT ![h] = <<"foreign">> \o @]
    /\ UNCHANGED <<files, exists, chain, nets, flows, control, job, ghost>>

RemoveNetwork ==
    /\ Disturb("network")
    /\ \E n \in nets : nets' = nets \ {n}
    /\ UNCHANGED <<files, kernel, flows, control, job, ghost>>

\* A client connects to a published port, and disconnects.
OpenFlow ==
    /\ \E f \in Flows \ flows :
         /\ ~(Jumped(FlowHook[f]) /\ RefusedBy(chain[FlowHook[f]], f))
         /\ flows' = flows \cup {f}
    /\ UNCHANGED <<files, kernel, nets, budget, control, job, ghost>>

CloseFlow ==
    /\ \E f \in flows : flows' = flows \ {f}
    /\ UNCHANGED <<files, kernel, nets, budget, control, job, ghost>>

-----------------------------------------------------------------------------
Start(r) ==
    \/ StartAdd(r)
    \/ StartDelete(r)
    \/ \E op \in {"apply", "disable"} : StartChange(r, op)
    \/ StartRollback(r)

\* The step of r that its last await was for.
Continue(r) ==
    \/ ReadApplied(r)
    \/ EditTruncate(r)
    \/ EditWrite(r)
    \/ BackupTruncate(r)
    \/ BackupWrite(r)
    \/ ChainExists(r)
    \/ ChainCreate(r)
    \/ JumpCheck(r)
    \/ JumpInsert(r)
    \/ Flush(r)
    \/ JumpRemove(r)
    \/ JumpRecheck(r)
    \/ JumpReinsert(r)
    \/ Build(r)
    \/ AppendRule(r)
    \/ AppliedTruncate(r)
    \/ AppliedWrite(r)
    \/ ConfigTruncate(r)
    \/ ConfigWrite(r)
    \/ Terminate(r)

Fault(r) ==
    \/ CommandFails(r)
    \/ QueryFails(r)
    \/ DockerFails(r)
    \/ SaveFails(r)
    \/ ConntrackFails(r)

Environment ==
    \/ Crash
    \/ Reboot
    \/ ForeignInsert
    \/ RemoveNetwork
    \/ OpenFlow
    \/ CloseFlow

Next ==
    \/ \E r \in Requests : Start(r) \/ Continue(r) \/ Fault(r)
    \/ Environment

Spec == Init /\ [][Next]_vars

\* Node resumes every request whose await is over.
Fairness == \A r \in Requests : WF_vars(Continue(r))

FairSpec == Spec /\ Fairness

-----------------------------------------------------------------------------
TypeOK ==
    /\ draft \in File /\ applied \in File /\ backup \in File
    /\ parent \in [Hooks -> Seq({"jump", "foreign"})]
    /\ exists \subseteq Hooks
    /\ chain \in [Hooks -> Seq(Token)]
    /\ flows \subseteq Flows
    /\ nets \subseteq Networks
    /\ pc \in [Requests -> Steps]
    /\ hook \in [Requests -> Hooks]
    /\ pos \in [Requests -> Nat \ {0}]
    /\ job \in [Requests -> Job]
    /\ alone \in [Requests -> BOOLEAN]
    /\ outcome \in {"unknown", "committed", "restored"}
    /\ budget \in 0..MaxDisturbances

\* The chains hold exactly what configuration c renders to and, if c is
\* enabled, packets reach them.
KernelHolds(c) ==
    \A h \in Hooks :
        /\ chain[h] = Rendering(c, h)
        /\ c.enabled => h \in exists /\ Jumped(h)

\* Once a rendering has been reported as done, or an apply that failed has
\* restored what was there, firewall.applied.json parses and is what the
\* kernel enforces: whatever failed, crashed or overlapped before it, and as
\* long as no other rendering starts. (applyFirewall, disableFirewall,
\* rollbackFirewall; firewall.applied.json is what the UI shows as in force.)
\* Excepted is the place of the jumps, and their number: the code asks only
\* whether there is one (lines 131, 482-485), so that a rule that another program
\* puts ahead of a jump stays ahead, and a -C that fails doubles it, against the
\* comment of line 130. Nothing is said of jumps once the firewall is disabled:
\* where deleting one fails (line 139), some stay, to an empty chain.
InForce ==
    outcome # "unknown" => applied \notin NoConfig /\ KernelHolds(applied)

RecordStep ==
    applied' # applied /\ applied' \notin NoConfig =>
        KernelHolds(applied') \/ \E r \in Requests : Active(r) /\ ~alone[r]

\* firewall.applied.json is never ahead of the kernel: a step that records a
\* configuration records one that the chains hold at that time, unless two
\* renderings overlap. (The order render, saveApplied of lines 507-508,
\* 517-518, 540-541 and 558-559.)
NeverRecordedAhead == [][RecordStep]_vars

\* In DRM6-INPUT no rule ever precedes the essential ICMPv6 accepts, not even
\* while the chain is being filled, or after a failed fill. (Line 402:
\* "Essential ICMPv6 control traffic: ND, RA/RS and Packet Too Big must not be
\* accidentally broken.")
EssentialIcmpFirst ==
    \A h \in EssentialHooks : \A i \in DOMAIN chain[h] :
        chain[h][i] \in Rules => \E j \in 1..(i - 1) : chain[h][j] = "essential-icmpv6"

\* The published-port rule that decides over f, if any, refuses it.
RefusedByPublished(c, f) == RefusedBy(RuleCommands(c, FlowHook[f]), f)

\* After an apply or a rollback that enables the firewall has succeeded, no
\* connection is established that the rules for published ports refuse,
\* whether it was opened before, or while the chains were being refilled.
\* (Line 511: "Make DROP/REJECT apply to already-established published-port
\* sessions.")
RefusedFlowsEnded ==
    outcome = "committed" /\ applied.enabled =>
        \A f \in flows : ~RefusedByPublished(applied, f)

\* Every request is answered: in particular the loop that deletes jumps ends.
\* (Lines 94-96, 117-122, 138-146.)
RequestsAnswered == \A r \in Requests : pc[r] # "idle" ~> pc[r] = "idle"
=============================================================================
