---------------------------- MODULE FirewallProofs ----------------------------
(***************************************************************************)
(* Proofs about Firewall, for any hooks, rules, networks, flows, requests  *)
(* and disturbances.                                                       *)
(***************************************************************************)
EXTENDS Firewall, TLAPS, SequenceTheorems

LEMMA RuleListType ==
    ASSUME NEW c \in Config, NEW h
    PROVE  RuleList(c, h) \in Seq(Rules)
BY ConcatProperties DEF RuleList, Config

LEMMA RuleCommandsType ==
    ASSUME NEW c \in Config, NEW h
    PROVE  RuleCommands(c, h) \in Seq(Token)
<1>1. RuleList(c, h) \in Seq(Rules)
  BY RuleListType
<1>2. Len(RuleList(c, h)) \in Nat
  BY <1>1
<1>3. \A i \in 1..Len(RuleList(c, h)) : Slot(RuleList(c, h)[i], h) \in Token
  BY <1>1, ElementOfSeq DEF Slot, Token
<1> QED
  BY <1>2, <1>3 DEF RuleCommands

\* The commands of a chain are a sequence of tokens, and there is at least one.
LEMMA CommandsType ==
    ASSUME NEW c \in Config, NEW h
    PROVE  Commands(c, h) \in Seq(Token) /\ Len(Commands(c, h)) \in Nat \ {0}
<1>1. Preamble(h) \in Seq(Token) /\ <<"return">> \in Seq(Token) /\ Len(<<"return">>) = 1
  <2>1. \A t \in Token : <<t>> \in Seq(Token) /\ Len(<<t>>) = 1
    OBVIOUS
  <2>2. \A t, u \in Token : <<t, u>> \in Seq(Token)
    OBVIOUS
  <2> QED
    BY <2>1, <2>2 DEF Preamble, Token
<1>2. RuleCommands(c, h) \in Seq(Token)
  BY RuleCommandsType
<1>3. Preamble(h) \o RuleCommands(c, h) \in Seq(Token)
  BY <1>1, <1>2, ConcatProperties
<1> QED
  BY <1>1, <1>3, ConcatProperties, LenProperties DEF Commands

LEMMA EmptyConfigType == EmptyConfig \in Config
BY DEF EmptyConfig, Config

LEMMA NoJobType == NoJob \in Job
BY EmptyConfigType DEF NoJob, Job, Operations

LEMMA ReadConfigType ==
    ASSUME NEW f \in File
    PROVE  ReadConfig(f) \in Config
BY EmptyConfigType DEF ReadConfig, File

LEMMA AddRuleType ==
    ASSUME NEW c \in Config, NEW r \in Rules
    PROVE  AddRule(c, r) \in Config
<1>1. Kind[r] \in {"published", "network", "input"}
  BY RulesAssumption
<1>2. \A s \in Seq(Rules) : Append(s, r) \in Seq(Rules)
  OBVIOUS
<1> QED
  BY <1>1, <1>2 DEF AddRule, Config

\* RemoveAt of the community modules on a position of a sequence.
LEMMA RemoveAtType ==
    ASSUME NEW S, NEW s \in Seq(S), NEW i \in DOMAIN s
    PROVE  RemoveAt(s, i) \in Seq(S)
<1>1. Len(s) \in Nat /\ i \in 1..Len(s)
  BY LenProperties
<1>2. \A j \in 1..Len(s) : s[j] \in S
  BY ElementOfSeq
<1>3. SubSeq(s, 1, i - 1) \in Seq(S)
  BY <1>1, <1>2, SubSeqProperties, \A j \in 1..(i - 1) : s[j] \in S
<1>4. SubSeq(s, i + 1, Len(s)) \in Seq(S)
  BY <1>1, <1>2, SubSeqProperties, \A j \in (i + 1)..Len(s) : s[j] \in S
<1> QED
  BY <1>3, <1>4, ConcatProperties DEF RemoveAt

LEMMA DeleteAtType ==
    ASSUME NEW c \in Config, NEW kind \in {"published", "network", "input"},
           NEW i \in DOMAIN c[kind]
    PROVE  DeleteAt(c, kind, i) \in Config
<1>1. c[kind] \in Seq(Rules)
  BY DEF Config
<1>2. RemoveAt(c[kind], i) \in Seq(Rules)
  BY <1>1, RemoveAtType
<1> QED
  BY <1>2 DEF DeleteAt, Config
-----------------------------------------------------------------------------
\* The command that is appended next is one of the commands.
PosOK ==
    \A r \in Requests :
        pc[r] = "append" => pos[r] <= Len(Commands(job[r].target, hook[r]))

TypeInv == TypeOK /\ PosOK

LocalsOK ==
    /\ pc \in [Requests -> Steps]
    /\ hook \in [Requests -> Hooks]
    /\ pos \in [Requests -> Nat \ {0}]
    /\ job \in [Requests -> Job]
    /\ PosOK

GhostOK ==
    /\ alone \in [Requests -> BOOLEAN]
    /\ outcome \in {"unknown", "committed", "restored"}

LEMMA HooksNotEmpty == 1 \in Hooks /\ HookCount \in Nat /\ Hooks = 1..HookCount
BY HooksAssumption DEF Hooks

\* Going on with another step, with the old job or a new one.
LEMMA GotoType ==
    ASSUME LocalsOK, NEW r \in Requests, NEW step \in Steps, NEW h \in Hooks,
           Goto(r, step, h),
           job' = job \/ \E j \in Job : job' = [job EXCEPT ![r] = j]
    PROVE  LocalsOK'
<1>1. /\ pc' \in [Requests -> Steps]
      /\ hook' \in [Requests -> Hooks]
      /\ pos' \in [Requests -> Nat \ {0}]
      /\ job' \in [Requests -> Job]
  BY DEF LocalsOK, Goto
<1>2. ASSUME NEW s \in Requests, pc'[s] = "append"
      PROVE  pos'[s] <= Len(Commands(job'[s].target, hook'[s]))
  <2>1. CASE s = r
    <3>1. pos'[s] = 1
      BY <2>1 DEF LocalsOK, Goto
    <3>2. job'[s].target \in Config
      BY <1>1 DEF Job
    <3> QED
      BY <3>1, <3>2, CommandsType
  <2>2. CASE s # r
    <3>1. pc'[s] = pc[s] /\ pos'[s] = pos[s] /\ hook'[s] = hook[s] /\ job'[s] = job[s]
      BY <2>2 DEF LocalsOK, Goto
    <3> QED
      BY <1>2, <3>1 DEF LocalsOK, PosOK
  <2> QED
    BY <2>1, <2>2
<1> QED
  BY <1>1, <1>2 DEF LocalsOK, PosOK

LEMMA NextHookType ==
    ASSUME LocalsOK, NEW r \in Requests, NEW again \in Steps, NEW after \in Steps,
           NextHook(r, again, after), UNCHANGED job
    PROVE  LocalsOK'
<1>1. hook[r] \in Hooks
  BY DEF LocalsOK
<1>2. hook[r] < HookCount => hook[r] + 1 \in Hooks
  BY <1>1, HooksNotEmpty
<1> QED
  BY <1>2, HooksNotEmpty, GotoType DEF NextHook

LEMMA AnswerType ==
    ASSUME LocalsOK, NEW r \in Requests, Answer(r)
    PROVE  LocalsOK'
BY GotoType, NoJobType, HooksNotEmpty DEF Answer, Steps

LEMMA FinishType ==
    ASSUME LocalsOK, GhostOK, NEW r \in Requests,
           NEW result \in {"unknown", "committed", "restored"}, Finish(r, result)
    PROVE  LocalsOK' /\ GhostOK'
<1>1. LocalsOK'
  BY AnswerType DEF Finish
<1> QED
  BY <1>1 DEF Finish, GhostOK

LEMMA StartRenderType ==
    ASSUME LocalsOK, GhostOK, NEW r \in Requests, NEW j \in Job, StartRender(r, j)
    PROVE  LocalsOK' /\ GhostOK'
<1>1. LocalsOK'
  BY GotoType, HooksNotEmpty DEF StartRender, Steps
<1> QED
  BY <1>1 DEF StartRender, GhostOK

LEMMA ThrowType ==
    ASSUME LocalsOK, GhostOK, NEW r \in Requests, Throw(r)
    PROVE  LocalsOK' /\ GhostOK'
<1>1. CASE job[r].op = "apply" /\ ~job[r].undo
  <2>1. job[r] \in Job
    BY DEF LocalsOK
  <2>2. [job[r] EXCEPT !.target = job[r].previous, !.undo = TRUE] \in Job
    BY <2>1 DEF Job
  <2>3. LocalsOK'
    BY <1>1, <2>2, GotoType, HooksNotEmpty DEF Throw, Steps
  <2> QED
    BY <1>1, <2>3 DEF Throw, GhostOK, ghost
<1>2. CASE ~(job[r].op = "apply" /\ ~job[r].undo)
  BY <1>2, FinishType DEF Throw
<1> QED
  BY <1>1, <1>2

LEMMA WrittenType ==
    ASSUME NEW f \in File, NEW c \in Config, NEW g \in Written(f, c)
    PROVE  g \in File
BY DEF Written, File, NoConfig

\* The rest of TypeOK.
FilesOK == draft \in File /\ applied \in File /\ backup \in File

KernelOK ==
    /\ parent \in [Hooks -> Seq({"jump", "foreign"})]
    /\ exists \subseteq Hooks
    /\ chain \in [Hooks -> Seq(Token)]

WorldOK == flows \subseteq Flows /\ nets \subseteq Networks /\ budget \in 0..MaxDisturbances

LEMMA TypeInvParts ==
    /\ TypeInv <=> FilesOK /\ KernelOK /\ WorldOK /\ LocalsOK /\ GhostOK
    /\ TypeInv' <=> FilesOK' /\ KernelOK' /\ WorldOK' /\ LocalsOK' /\ GhostOK'
BY DEF TypeInv, TypeOK, FilesOK, KernelOK, WorldOK, LocalsOK, GhostOK

LEMMA DisturbType ==
    ASSUME WorldOK, NEW kind, Disturb(kind), UNCHANGED <<nets, flows>>
    PROVE  WorldOK'
BY FirewallAssumption DEF WorldOK, Disturb

LEMMA JobConfigs ==
    ASSUME LocalsOK, NEW r \in Requests
    PROVE  /\ job[r] \in Job
           /\ job[r].target \in Config
           /\ job[r].previous \in Config
           /\ hook[r] \in Hooks
BY DEF LocalsOK, Job

LEMMA TypeInvInit == Init => TypeInv
<1> SUFFICES ASSUME Init PROVE TypeInv
  OBVIOUS
<1>1. FilesOK /\ WorldOK /\ GhostOK
  BY FirewallAssumption DEF Init, FilesOK, WorldOK, GhostOK, File, NoConfig
<1>2. KernelOK
  BY DEF Init, KernelOK
<1>3. LocalsOK
  BY NoJobType, HooksNotEmpty DEF Init, LocalsOK, PosOK, Steps
<1> QED
  BY <1>1, <1>2, <1>3, TypeInvParts

\* A step that stays away from the kernel and from the world: what it has to
\* keep is the files and the request's own state.
LEMMA StartType ==
    ASSUME TypeInv, NEW r \in Requests, Start(r)
    PROVE  TypeInv'
<1>1. FilesOK /\ KernelOK /\ WorldOK /\ LocalsOK /\ GhostOK
  BY TypeInvParts
<1>2. ReadConfig(draft) \in Config
  BY <1>1, ReadConfigType DEF FilesOK
<1> USE DEF files, kernel, world, ghost
<1>3. CASE StartAdd(r)
  <2>1. PICK rule \in Rules : job' = [job EXCEPT ![r] = [NoJob EXCEPT !.op = "edit",
                                        !.target = AddRule(ReadConfig(draft), rule)]]
    BY <1>3 DEF StartAdd
  <2>2. [NoJob EXCEPT !.op = "edit", !.target = AddRule(ReadConfig(draft), rule)] \in Job
    BY <1>2, AddRuleType, NoJobType DEF Job, Operations
  <2>3. LocalsOK'
    BY <1>1, <1>3, <2>1, <2>2, GotoType, HooksNotEmpty DEF StartAdd, Steps
  <2> QED
    BY <1>1, <1>3, <2>3, TypeInvParts DEF StartAdd, FilesOK, KernelOK, WorldOK, GhostOK
<1>4. CASE StartDelete(r)
  <2>1. PICK kind \in {"published", "network", "input"} :
          \E i \in DOMAIN ReadConfig(draft)[kind] :
            job' = [job EXCEPT ![r] = [NoJob EXCEPT !.op = "edit",
                      !.target = DeleteAt(ReadConfig(draft), kind, i)]]
    BY <1>4 DEF StartDelete
  <2>2. PICK i \in DOMAIN ReadConfig(draft)[kind] :
          job' = [job EXCEPT ![r] = [NoJob EXCEPT !.op = "edit",
                    !.target = DeleteAt(ReadConfig(draft), kind, i)]]
    BY <2>1
  <2>3. DeleteAt(ReadConfig(draft), kind, i) \in Config
    BY <1>2, DeleteAtType
  <2>4. [NoJob EXCEPT !.op = "edit", !.target = DeleteAt(ReadConfig(draft), kind, i)] \in Job
    BY <2>3, NoJobType DEF Job, Operations
  <2>5. LocalsOK'
    BY <1>1, <1>4, <2>2, <2>4, GotoType, HooksNotEmpty DEF StartDelete, Steps
  <2> QED
    BY <1>1, <1>4, <2>5, TypeInvParts DEF StartDelete, FilesOK, KernelOK, WorldOK, GhostOK
<1>5. ASSUME NEW op \in {"apply", "disable"}, StartChange(r, op)
      PROVE  TypeInv'
  <2> DEFINE j == [NoJob EXCEPT !.op = op,
                     !.target = [ReadConfig(draft) EXCEPT !.enabled = (op = "apply")]]
  <2>1. [ReadConfig(draft) EXCEPT !.enabled = (op = "apply")] \in Config
    BY <1>2 DEF Config
  <2>2. j \in Job
    BY <2>1, NoJobType DEF Job, Operations
  <2>3. job' = [job EXCEPT ![r] = j] /\ Goto(r, "readApplied", 1)
    BY <1>5 DEF StartChange
  <2> HIDE DEF j
  <2>4. LocalsOK'
    BY <1>1, <2>2, <2>3, GotoType, HooksNotEmpty DEF Steps
  <2> QED
    BY <1>1, <1>5, <2>4, TypeInvParts DEF StartChange, FilesOK, KernelOK, WorldOK, GhostOK
<1>6. CASE StartRollback(r)
  <2>1. [NoJob EXCEPT !.op = "rollback", !.target = backup] \in Job
    BY <1>1, <1>6, NoJobType DEF StartRollback, FilesOK, File, Job, Operations
  <2>2. LocalsOK' /\ GhostOK'
    BY <1>1, <1>6, <2>1, StartRenderType DEF StartRollback
  <2> QED
    BY <1>1, <1>6, <2>2, TypeInvParts DEF StartRollback, FilesOK, KernelOK, WorldOK
<1> QED
  BY <1>3, <1>4, <1>5, <1>6 DEF Start

LEMMA InsertJumpType ==
    ASSUME KernelOK, NEW r, hook[r] \in Hooks, InsertJump(r), UNCHANGED <<exists, chain>>
    PROVE  KernelOK'
<1>1. parent[hook[r]] \in Seq({"jump", "foreign"})
  BY DEF KernelOK
<1>2. <<"jump">> \in Seq({"jump", "foreign"})
  OBVIOUS
<1>3. <<"jump">> \o parent[hook[r]] \in Seq({"jump", "foreign"})
  BY <1>1, <1>2, ConcatProperties
<1> QED
  BY <1>3 DEF InsertJump, KernelOK

\* The reads and writes around render().
LEMMA FileStepType ==
    ASSUME TypeInv, NEW r \in Requests,
           \/ ReadApplied(r) \/ EditTruncate(r) \/ EditWrite(r) \/ BackupTruncate(r)
           \/ BackupWrite(r) \/ AppliedTruncate(r) \/ AppliedWrite(r)
           \/ ConfigTruncate(r) \/ ConfigWrite(r) \/ Terminate(r)
    PROVE  TypeInv'
<1>1. FilesOK /\ KernelOK /\ WorldOK /\ LocalsOK /\ GhostOK
  BY TypeInvParts
<1>2. job[r] \in Job /\ job[r].target \in Config /\ job[r].previous \in Config
  BY <1>1, JobConfigs
<1> USE HooksNotEmpty DEF files, kernel, world, ghost, FilesOK, KernelOK, WorldOK
<1>3. CASE ReadApplied(r)
  <2> DEFINE j == [job[r] EXCEPT !.previous = ReadConfig(applied)]
  <2>1. j \in Job
    BY <1>1, <1>2, ReadConfigType DEF Job
  <2>2. job' = [job EXCEPT ![r] = j] /\ Goto(r, "backupT", 1)
    BY <1>3 DEF ReadApplied
  <2> HIDE DEF j
  <2>3. LocalsOK'
    BY <1>1, <2>1, <2>2, GotoType DEF Steps
  <2> QED
    BY <1>1, <1>3, <2>3, TypeInvParts DEF ReadApplied, GhostOK
<1>4. CASE EditTruncate(r) \/ BackupTruncate(r) \/ AppliedTruncate(r) \/ ConfigTruncate(r)
  <2>1. LocalsOK'
    BY <1>1, <1>4, GotoType
    DEF EditTruncate, BackupTruncate, AppliedTruncate, ConfigTruncate, Steps
  <2> QED
    BY <1>1, <1>4, <2>1, TypeInvParts
    DEF EditTruncate, BackupTruncate, AppliedTruncate, ConfigTruncate, GhostOK, File, NoConfig
<1>5. CASE EditWrite(r)
  <2>1. draft' \in File
    BY <1>1, <1>2, <1>5, WrittenType DEF EditWrite
  <2>2. LocalsOK'
    BY <1>1, <1>5, AnswerType DEF EditWrite
  <2> QED
    BY <1>1, <1>5, <2>1, <2>2, TypeInvParts DEF EditWrite, GhostOK
<1>6. CASE BackupWrite(r)
  <2>1. backup' \in File
    BY <1>1, <1>2, <1>6, WrittenType DEF BackupWrite
  <2>2. LocalsOK' /\ GhostOK'
    BY <1>1, <1>2, <1>6, StartRenderType DEF BackupWrite
  <2> QED
    BY <1>1, <1>6, <2>1, <2>2, TypeInvParts DEF BackupWrite
<1>7. CASE AppliedWrite(r)
  <2>1. applied' \in File
    BY <1>1, <1>2, <1>7, WrittenType DEF AppliedWrite
  <2>2. LocalsOK' /\ GhostOK'
    BY <1>1, <1>7, FinishType, GotoType DEF AppliedWrite, GhostOK, Steps
  <2> QED
    BY <1>1, <1>7, <2>1, <2>2, TypeInvParts DEF AppliedWrite
<1>8. CASE ConfigWrite(r)
  <2>1. draft' \in File
    BY <1>1, <1>2, <1>8, WrittenType DEF ConfigWrite
  <2>2. LocalsOK' /\ GhostOK'
    BY <1>1, <1>8, FinishType, GotoType DEF ConfigWrite, GhostOK, Steps
  <2> QED
    BY <1>1, <1>8, <2>1, <2>2, TypeInvParts DEF ConfigWrite
<1>9. CASE Terminate(r)
  <2>1. LocalsOK' /\ GhostOK'
    BY <1>1, <1>9, FinishType DEF Terminate
  <2> QED
    BY <1>1, <1>9, <2>1, TypeInvParts DEF Terminate
<1> QED
  BY <1>3, <1>4, <1>5, <1>6, <1>7, <1>8, <1>9

\* The commands of render().
LEMMA RenderStepType ==
    ASSUME TypeInv, NEW r \in Requests,
           \/ ChainExists(r) \/ ChainCreate(r) \/ JumpCheck(r) \/ JumpInsert(r)
           \/ Flush(r) \/ JumpRemove(r) \/ JumpRecheck(r) \/ JumpReinsert(r)
           \/ Build(r) \/ AppendRule(r)
    PROVE  TypeInv'
<1>1. FilesOK /\ KernelOK /\ WorldOK /\ LocalsOK /\ GhostOK
  BY TypeInvParts
<1>2. job[r].target \in Config /\ hook[r] \in Hooks
  BY <1>1, JobConfigs
<1> USE DEF files, kernel, world, ghost, FilesOK, WorldOK
<1>3. CASE ChainExists(r) \/ JumpCheck(r) \/ JumpRecheck(r)
  <2>1. LocalsOK'
    BY <1>1, <1>2, <1>3, GotoType, NextHookType
    DEF ChainExists, JumpCheck, JumpRecheck, Steps
  <2> QED
    BY <1>1, <1>3, <2>1, TypeInvParts
    DEF ChainExists, JumpCheck, JumpRecheck, KernelOK, GhostOK
<1>4. CASE ChainCreate(r)
  <2>1. LocalsOK' /\ GhostOK'
    BY <1>1, <1>2, <1>4, ThrowType, GotoType DEF ChainCreate, GhostOK, Steps
  <2>2. KernelOK'
    BY <1>1, <1>2, <1>4 DEF ChainCreate, KernelOK
  <2> QED
    BY <1>1, <1>4, <2>1, <2>2, TypeInvParts DEF ChainCreate
<1>5. CASE JumpInsert(r) \/ JumpReinsert(r)
  <2>1. LocalsOK'
    BY <1>1, <1>5, NextHookType DEF JumpInsert, JumpReinsert, Steps
  <2>2. KernelOK'
    BY <1>1, <1>2, <1>5, InsertJumpType DEF JumpInsert, JumpReinsert
  <2> QED
    BY <1>1, <1>5, <2>1, <2>2, TypeInvParts DEF JumpInsert, JumpReinsert, GhostOK
<1>6. CASE Flush(r)
  <2>1. LocalsOK'
    BY <1>1, <1>6, NextHookType DEF Flush, Steps
  <2>2. KernelOK'
    BY <1>1, <1>6, EmptySeq DEF Flush, KernelOK
  <2> QED
    BY <1>1, <1>6, <2>1, <2>2, TypeInvParts DEF Flush, GhostOK
<1>7. CASE JumpRemove(r)
  <2>1. CASE UNCHANGED parent /\ NextHook(r, "remove", "appliedT")
    <3>1. LocalsOK'
      BY <1>1, <1>7, <2>1, NextHookType DEF JumpRemove, Steps
    <3> QED
      BY <1>1, <1>7, <2>1, <3>1, TypeInvParts DEF JumpRemove, KernelOK, GhostOK
  <2>2. ASSUME NEW i \in DOMAIN parent[hook[r]], UNCHANGED control,
               parent' = [parent EXCEPT ![hook[r]] = RemoveAt(@, i)]
        PROVE  TypeInv'
    <3>1. parent[hook[r]] \in Seq({"jump", "foreign"})
      BY <1>1, <1>2 DEF KernelOK
    <3>2. RemoveAt(parent[hook[r]], i) \in Seq({"jump", "foreign"})
      BY <3>1, RemoveAtType
    <3>3. KernelOK'
      BY <1>1, <1>7, <2>2, <3>2 DEF JumpRemove, KernelOK
    <3>4. LocalsOK'
      BY <1>1, <1>7, <2>2 DEF JumpRemove, LocalsOK, PosOK, control
    <3> QED
      BY <1>1, <1>7, <3>3, <3>4, TypeInvParts DEF JumpRemove, GhostOK
  <2> QED
    BY <1>7, <2>1, <2>2 DEF JumpRemove
<1>8. CASE Build(r)
  <2>1. LocalsOK' /\ GhostOK'
    BY <1>1, <1>2, <1>8, ThrowType, GotoType DEF Build, GhostOK, Steps
  <2> QED
    BY <1>1, <1>8, <2>1, TypeInvParts DEF Build, KernelOK
<1>9. CASE AppendRule(r)
  <2> DEFINE commands == Commands(job[r].target, hook[r])
  <2>1. commands \in Seq(Token) /\ Len(commands) \in Nat
    BY <1>2, CommandsType
  <2>2. pc[r] = "append" /\ pos[r] \in 1..Len(commands)
    BY <1>1, <1>9, <2>1 DEF AppendRule, LocalsOK, PosOK
  <2>3. KernelOK'
    <3>1. commands[pos[r]] \in Token
      BY <2>1, <2>2, ElementOfSeq
    <3>2. Append(chain[hook[r]], commands[pos[r]]) \in Seq(Token)
      BY <1>1, <1>2, <3>1 DEF KernelOK
    <3> QED
      BY <1>1, <1>9, <3>2 DEF AppendRule, KernelOK
  <2>4. LocalsOK'
    <3>1. CASE pos[r] < Len(commands)
      <4>1. /\ pos' = [pos EXCEPT ![r] = pos[r] + 1]
            /\ UNCHANGED <<pc, hook, job>>
        BY <1>9, <3>1 DEF AppendRule
      <4>2. pos[r] + 1 \in Nat \ {0} /\ pos[r] + 1 <= Len(commands)
        BY <2>1, <2>2, <3>1
      <4> QED
        BY <1>1, <4>1, <4>2 DEF LocalsOK, PosOK
    <3>2. CASE ~(pos[r] < Len(commands))
      BY <1>1, <1>9, <3>2, NextHookType DEF AppendRule, Steps
    <3> QED
      BY <3>1, <3>2
  <2> QED
    BY <1>1, <1>9, <2>3, <2>4, TypeInvParts DEF AppendRule, GhostOK
<1> QED
  BY <1>3, <1>4, <1>5, <1>6, <1>7, <1>8, <1>9

LEMMA FaultType ==
    ASSUME TypeInv, NEW r \in Requests, Fault(r)
    PROVE  TypeInv'
<1>1. FilesOK /\ KernelOK /\ WorldOK /\ LocalsOK /\ GhostOK
  BY TypeInvParts
<1>2. hook[r] \in Hooks
  BY <1>1, JobConfigs
<1> USE DEF files, kernel, world, ghost
<1>3. CASE CommandFails(r) \/ DockerFails(r)
  <2>1. LocalsOK' /\ GhostOK' /\ WorldOK'
    BY <1>1, <1>3, ThrowType, DisturbType DEF CommandFails, DockerFails
  <2> QED
    BY <1>1, <1>3, <2>1, TypeInvParts DEF CommandFails, DockerFails, FilesOK, KernelOK
<1>4. CASE QueryFails(r)
  <2>1. LocalsOK' /\ WorldOK'
    BY <1>1, <1>2, <1>4, GotoType, NextHookType, DisturbType DEF QueryFails, Steps
  <2> QED
    BY <1>1, <1>4, <2>1, TypeInvParts DEF QueryFails, FilesOK, KernelOK, GhostOK
<1>5. CASE SaveFails(r)
  <2>1. FilesOK'
    BY <1>1, <1>5 DEF SaveFails, FilesOK, File, NoConfig
  <2>2. LocalsOK' /\ GhostOK' /\ WorldOK'
    BY <1>1, <1>5, ThrowType, AnswerType, DisturbType DEF SaveFails, GhostOK
  <2> QED
    BY <1>1, <1>5, <2>1, <2>2, TypeInvParts DEF SaveFails, KernelOK
<1>6. CASE ConntrackFails(r)
  <2>1. LocalsOK' /\ GhostOK'
    BY <1>1, <1>6, FinishType DEF ConntrackFails
  <2>2. WorldOK'
    BY <1>1, <1>6, FirewallAssumption DEF ConntrackFails, Disturb, WorldOK
  <2> QED
    BY <1>1, <1>6, <2>1, <2>2, TypeInvParts DEF ConntrackFails, FilesOK, KernelOK
<1> QED
  BY <1>3, <1>4, <1>5, <1>6 DEF Fault

LEMMA EnvironmentType ==
    ASSUME TypeInv, Environment
    PROVE  TypeInv'
<1>1. FilesOK /\ KernelOK /\ WorldOK /\ LocalsOK /\ GhostOK
  BY TypeInvParts
<1> USE DEF files, kernel, world, ghost, control
<1>2. ASSUME pc' = [r \in Requests |-> "idle"], hook' = [r \in Requests |-> 1],
             pos' = [r \in Requests |-> 1], job' = [r \in Requests |-> NoJob]
      PROVE  LocalsOK'
  BY <1>2, NoJobType, HooksNotEmpty DEF LocalsOK, PosOK, Steps
<1>3. CASE Crash
  <2>1. LocalsOK' /\ WorldOK'
    BY <1>1, <1>2, <1>3, DisturbType DEF Crash
  <2> QED
    BY <1>1, <1>3, <2>1, TypeInvParts DEF Crash, FilesOK, KernelOK, GhostOK
<1>4. CASE Reboot
  <2>1. LocalsOK'
    BY <1>2, <1>4 DEF Reboot
  <2>2. WorldOK'
    BY <1>1, <1>4, FirewallAssumption DEF Reboot, Disturb, WorldOK
  <2>3. KernelOK' /\ GhostOK'
    BY <1>4, EmptySeq DEF Reboot, KernelOK, GhostOK
  <2> QED
    BY <1>1, <1>4, <2>1, <2>2, <2>3, TypeInvParts DEF Reboot, FilesOK
<1>5. CASE ForeignInsert
  <2>1. PICK h \in Hooks : parent' = [parent EXCEPT ![h] = <<"foreign">> \o @]
    BY <1>5 DEF ForeignInsert
  <2>2. <<"foreign">> \o parent[h] \in Seq({"jump", "foreign"})
    <3>1. parent[h] \in Seq({"jump", "foreign"}) /\ <<"foreign">> \in Seq({"jump", "foreign"})
      BY <1>1 DEF KernelOK
    <3> QED
      BY <3>1, ConcatProperties
  <2>3. KernelOK'
    BY <1>1, <1>5, <2>1, <2>2 DEF ForeignInsert, KernelOK
  <2>4. LocalsOK' /\ WorldOK'
    BY <1>1, <1>5, DisturbType DEF ForeignInsert, LocalsOK, PosOK
  <2> QED
    BY <1>1, <1>5, <2>3, <2>4, TypeInvParts DEF ForeignInsert, FilesOK, GhostOK
<1>6. CASE RemoveNetwork \/ OpenFlow \/ CloseFlow
  <2>1. LocalsOK'
    BY <1>1, <1>6 DEF RemoveNetwork, OpenFlow, CloseFlow, LocalsOK, PosOK
  <2>2. WorldOK'
    BY <1>1, <1>6, FirewallAssumption
    DEF RemoveNetwork, OpenFlow, CloseFlow, Disturb, WorldOK
  <2> QED
    BY <1>1, <1>6, <2>1, <2>2, TypeInvParts
    DEF RemoveNetwork, OpenFlow, CloseFlow, FilesOK, KernelOK, GhostOK
<1> QED
  BY <1>3, <1>4, <1>5, <1>6 DEF Environment

LEMMA TypeInvStep == TypeInv /\ [Next]_vars => TypeInv'
<1> SUFFICES ASSUME TypeInv, [Next]_vars PROVE TypeInv'
  OBVIOUS
<1>1. ASSUME NEW r \in Requests, Start(r) \/ Continue(r) \/ Fault(r) PROVE TypeInv'
  BY <1>1, StartType, FileStepType, RenderStepType, FaultType DEF Continue
<1>2. CASE UNCHANGED vars
  BY <1>2 DEF vars, files, kernel, world, control, ghost, TypeInv, TypeOK, PosOK
<1> QED
  BY <1>1, <1>2, EnvironmentType DEF Next

\* The type invariant, for any number of hooks and requests: in particular no
\* loop over the hooks or the commands runs past its end, and no file, job or
\* chain ever holds anything but configurations and commands. (render(),
\* lines 477-490.)
THEOREM TypeCorrect == Spec => []TypeOK
<1>1. Spec => []TypeInv
  BY TypeInvInit, TypeInvStep, PTL DEF Spec
<1>2. TypeInv => TypeOK
  BY DEF TypeInv
<1> QED
  BY <1>1, <1>2, PTL

-----------------------------------------------------------------------------
(***************************************************************************)
(* InForce. It is not inductive: that the chains hold a configuration when *)
(* it is recorded follows from what each step of render() has done so far  *)
(* (Stage), for a request that has rendered alone (Lonely), and from the   *)
(* chains being there (ChainsFound).                                       *)
(***************************************************************************)
EnsureSteps == {"exists", "create", "check", "insert"}
SaveSteps == {"appliedT", "appliedW", "configT", "configW", "terminate"}

\* ensureChain has been done for the hooks before this one, or for all.
Found(r) ==
    /\ pc[r] \in EnsureSteps => \A h \in Hooks : h < hook[r] => h \in exists
    /\ pc[r] \in {"check", "insert"} => hook[r] \in exists
    /\ pc[r] \in RenderSteps \ EnsureSteps => Hooks \subseteq exists

ChainsFound == \A r \in Requests : Found(r)

\* The chain of h holds the first n commands.
Partial(c, h, n) ==
    /\ Len(chain[h]) = n
    /\ \A i \in 1..n : chain[h][i] = Commands(c, h)[i]

Filling(r) ==
    /\ job[r].target.enabled
    /\ \A h \in Hooks :
         /\ Jumped(h)
         /\ h < hook[r] => chain[h] = Commands(job[r].target, h)
         /\ h > hook[r] => chain[h] = <<>>

\* What render(), and what follows it, has achieved before the step pc[r].
Stage(r) ==
    /\ pc[r] = "flush" => \A h \in Hooks : h < hook[r] => chain[h] = <<>>
    /\ pc[r] = "remove" => ~job[r].target.enabled /\ \A h \in Hooks : chain[h] = <<>>
    /\ pc[r] \in {"recheck", "reinsert"} =>
         /\ job[r].target.enabled
         /\ \A h \in Hooks : chain[h] = <<>> /\ (h < hook[r] => Jumped(h))
    /\ pc[r] = "build" => Filling(r) /\ chain[hook[r]] = <<>>
    /\ pc[r] = "append" => Filling(r) /\ Partial(job[r].target, hook[r], pos[r] - 1)
    /\ pc[r] \in SaveSteps => KernelHolds(job[r].target)
    /\ pc[r] = "appliedW" => applied = Missing
    /\ pc[r] \in {"configT", "configW", "terminate"} => applied = job[r].target

\* A request that renders alone is the only one that renders.
Lonely ==
    \A r \in Requests : alone[r] =>
        /\ Active(r)
        /\ Stage(r)
        /\ \A s \in Requests : Active(s) => s = r

\* An outcome is known only between renderings.
Settled ==
    outcome # "unknown" =>
        /\ \A r \in Requests : ~Active(r)
        /\ applied \notin NoConfig
        /\ KernelHolds(applied)

InForceInv == ChainsFound /\ Lonely /\ Settled

SameLocals(r) ==
    /\ pc'[r] = pc[r]
    /\ hook'[r] = hook[r]
    /\ pos'[r] = pos[r]
    /\ job'[r] = job[r]

LEMMA InForceInit == Init => InForceInv
BY DEF Init, InForceInv, ChainsFound, Found, Lonely, Settled, EnsureSteps, RenderSteps

\* A step that leaves the chains, the record and the renderings alone.
LEMMA QuietStep ==
    ASSUME InForceInv, UNCHANGED <<applied, chain, alone, outcome>>,
           exists \subseteq exists',
           \A h \in Hooks : Jumped(h) => Jumped(h)',
           \A s \in Requests : SameLocals(s) \/ (~Active(s) /\ ~Active(s)')
    PROVE  InForceInv'
<1>1. \A h \in Hooks : h \in exists => h \in exists'
  OBVIOUS
<1>2. ASSUME NEW c, KernelHolds(c) PROVE \A h \in Hooks :
         chain'[h] = Rendering(c, h) /\ (c.enabled => h \in exists' /\ Jumped(h)')
  BY <1>1, <1>2 DEF KernelHolds
<1>3. \A s \in Requests : Active(s) <=> Active(s)'
  BY DEF SameLocals, Active
<1>4. ChainsFound'
  <2> SUFFICES ASSUME NEW s \in Requests PROVE Found(s)'
    BY DEF ChainsFound
  <2>1. CASE SameLocals(s)
    BY <1>1, <2>1 DEF InForceInv, ChainsFound, Found, SameLocals
  <2>2. CASE ~Active(s)'
    BY <2>2 DEF Found, Active, RenderSteps, EnsureSteps, Steps
  <2> QED
    BY <2>1, <2>2
<1>5. Lonely'
  <2> SUFFICES ASSUME NEW s \in Requests, alone'[s]
               PROVE  (Active(s) /\ Stage(s) /\ \A t \in Requests : Active(t) => t = s)'
    BY DEF Lonely
  <2>1. Active(s) /\ Stage(s) /\ \A t \in Requests : Active(t) => t = s
    BY DEF InForceInv, Lonely
  <2>2. SameLocals(s)
    BY <2>1
  <2>3. Stage(s)'
    <3>1. pc'[s] \in SaveSteps => KernelHolds(job[s].target)'
      BY <1>2, <2>1, <2>2 DEF Stage, SameLocals, KernelHolds
    <3>2. Filling(s) => Filling(s)'
      BY <2>2 DEF Filling, SameLocals
    <3>3. Partial(job[s].target, hook[s], pos[s] - 1) => Partial(job[s].target, hook[s], pos[s] - 1)'
      BY <2>2 DEF Partial, SameLocals
    <3> QED
      BY <2>1, <2>2, <3>1, <3>2, <3>3 DEF Stage, SameLocals
  <2> QED
    BY <1>3, <2>1, <2>3
<1>6. Settled'
  BY <1>2, <1>3 DEF InForceInv, Settled, KernelHolds
<1> QED
  BY <1>4, <1>5, <1>6 DEF InForceInv

\* A step of a request that renders: it goes on, having achieved what its next
\* step needs, or is over.
LEMMA ActiveStep ==
    ASSUME InForceInv, NEW r \in Requests, Active(r), Found(r)',
           \A s \in Requests \ {r} : SameLocals(s) /\ alone'[s] = alone[s],
           exists \subseteq exists',
           \/ /\ Active(r)' /\ UNCHANGED outcome /\ alone'[r] = alone[r]
              /\ alone[r] => Stage(r)'
           \/ /\ ~Active(r)' /\ ~alone'[r]
              /\ \/ outcome' = "unknown"
                 \/ alone[r] /\ applied' \notin NoConfig /\ KernelHolds(applied)'
    PROVE  InForceInv'
<1>1. outcome = "unknown" /\ \A s \in Requests \ {r} : ~alone[s] /\ ~alone'[s]
  BY DEF InForceInv, Lonely, Settled
<1>2. \A s \in Requests \ {r} : Active(s)' <=> Active(s)
  BY DEF SameLocals, Active
<1>3. alone[r] => \A s \in Requests : Active(s) => s = r
  BY DEF InForceInv, Lonely
<1>4. ChainsFound'
  <2> SUFFICES ASSUME NEW s \in Requests \ {r} PROVE Found(s)'
    BY DEF ChainsFound
  <2>1. \A h \in Hooks : h \in exists => h \in exists'
    OBVIOUS
  <2> QED
    BY <2>1 DEF InForceInv, ChainsFound, Found, SameLocals
<1>5. Lonely'
  BY <1>1, <1>2, <1>3 DEF Lonely
<1>6. Settled'
  BY <1>1, <1>2, <1>3 DEF Settled
<1> QED
  BY <1>4, <1>5, <1>6 DEF InForceInv

\* Goto concerns one request.
LEMMA GotoLocals ==
    ASSUME LocalsOK, NEW r \in Requests, NEW step, NEW h, Goto(r, step, h)
    PROVE  /\ pc'[r] = step /\ hook'[r] = h /\ pos'[r] = 1
           /\ \A s \in Requests \ {r} :
                pc'[s] = pc[s] /\ hook'[s] = hook[s] /\ pos'[s] = pos[s]
BY DEF LocalsOK, Goto

LEMMA FinishInForce ==
    ASSUME TypeInv, InForceInv, NEW r \in Requests, Active(r),
           NEW result, Finish(r, result), exists \subseteq exists',
           \/ result = "unknown"
           \/ alone[r] => applied' \notin NoConfig /\ KernelHolds(applied)'
    PROVE  InForceInv'
<1>1. LocalsOK /\ GhostOK
  BY TypeInvParts
<1>2. Goto(r, "idle", 1) /\ job' = [job EXCEPT ![r] = NoJob]
  BY DEF Finish, Answer
<1>3. \A s \in Requests \ {r} : SameLocals(s) /\ alone'[s] = alone[s]
  BY <1>1, <1>2, GotoLocals DEF SameLocals, Finish, LocalsOK, GhostOK
<1>4. pc'[r] = "idle" /\ ~alone'[r]
  BY <1>1, <1>2, GotoLocals DEF Finish, GhostOK
<1>5. ~Active(r)' /\ Found(r)'
  BY <1>4 DEF Active, Found, RenderSteps, EnsureSteps
<1>6. outcome' = IF alone[r] THEN result ELSE "unknown"
  BY DEF Finish
<1> QED
  BY <1>3, <1>4, <1>5, <1>6, ActiveStep

\* An error always leaves a state that says no more than is known: the second
\* rendering of an apply starts from nothing.
LEMMA ThrowInForce ==
    ASSUME TypeInv, InForceInv, NEW r \in Requests, Active(r), Throw(r),
           exists \subseteq exists'
    PROVE  InForceInv'
<1>1. LocalsOK /\ GhostOK
  BY TypeInvParts
<1>2. CASE job[r].op = "apply" /\ ~job[r].undo
  <2>1. Goto(r, "exists", 1) /\ UNCHANGED <<alone, outcome>>
    BY <1>2 DEF Throw, ghost
  <2>2. \A s \in Requests \ {r} : SameLocals(s)
    BY <1>1, <1>2, <2>1, GotoLocals DEF Throw, SameLocals, LocalsOK
  <2>3. pc'[r] = "exists" /\ hook'[r] = 1
    BY <1>1, <2>1, GotoLocals
  <2>4. Active(r)' /\ Stage(r)'
    BY <2>3 DEF Active, Stage, RenderSteps, SaveSteps, Steps
  <2>5. Found(r)'
    BY <2>3, HooksNotEmpty DEF Found, EnsureSteps
  <2> QED
    BY <2>1, <2>2, <2>4, <2>5, ActiveStep
<1>3. CASE ~(job[r].op = "apply" /\ ~job[r].undo)
  BY <1>3, FinishInForce DEF Throw
<1> QED
  BY <1>2, <1>3

LEMMA StartRenderInForce ==
    ASSUME TypeInv, InForceInv, NEW r \in Requests, ~Active(r),
           NEW j, StartRender(r, j), UNCHANGED kernel
    PROVE  InForceInv'
<1>1. LocalsOK /\ GhostOK
  BY TypeInvParts
<1>2. Goto(r, "exists", 1) /\ outcome' = "unknown"
  BY DEF StartRender
<1>3. pc'[r] = "exists" /\ hook'[r] = 1
  BY <1>1, <1>2, GotoLocals
<1>4. \A s \in Requests \ {r} : SameLocals(s)
  BY <1>1, <1>2, GotoLocals DEF StartRender, SameLocals, LocalsOK
<1>5. Active(r)' /\ Stage(r)' /\ Found(r)'
  BY <1>3, HooksNotEmpty
  DEF Active, Stage, Found, RenderSteps, SaveSteps, EnsureSteps, Steps
<1>6. ChainsFound'
  BY <1>4, <1>5 DEF InForceInv, ChainsFound, Found, SameLocals, kernel
<1>7. Lonely'
  <2>1. CASE \E s \in Requests \ {r} : Active(s)
    BY <2>1 DEF StartRender, Lonely
  <2>2. CASE ~ \E s \in Requests \ {r} : Active(s)
    <3>1. \A s \in Requests \ {r} : ~alone[s] /\ ~Active(s)'
      BY <1>4, <2>2 DEF InForceInv, Lonely, SameLocals, Active
    <3>2. \A s \in Requests \ {r} : ~alone'[s]
      BY <1>1, <2>2, <3>1 DEF StartRender, GhostOK
    <3> QED
      BY <1>5, <3>1, <3>2 DEF Lonely
  <2> QED
    BY <2>1, <2>2
<1> QED
  BY <1>2, <1>6, <1>7 DEF InForceInv, Settled

\* A request that has not begun to render.
LEMMA BeforeRender ==
    ASSUME TypeInv, InForceInv, NEW r \in Requests, ~Active(r),
           NEW step \in Steps \ RenderSteps, NEW h, Goto(r, step, h),
           job' = job \/ \E j : job' = [job EXCEPT ![r] = j],
           UNCHANGED <<applied, kernel, ghost>>
    PROVE  InForceInv'
<1>1. LocalsOK
  BY TypeInvParts
<1>2. \A s \in Requests \ {r} : SameLocals(s)
  BY <1>1, GotoLocals DEF SameLocals, LocalsOK
<1>3. ~Active(r)'
  BY <1>1, GotoLocals DEF Active
<1>4. \A h1 \in Hooks : Jumped(h1) => Jumped(h1)'
  BY DEF Jumped, kernel
<1> QED
  BY <1>2, <1>3, <1>4, QuietStep DEF kernel, ghost

\* A request that goes on rendering.
LEMMA GoesOn ==
    ASSUME TypeInv, InForceInv, NEW r \in Requests, Active(r),
           NEW step \in RenderSteps, NEW h, Goto(r, step, h),
           UNCHANGED <<job, ghost>>, exists \subseteq exists',
           Found(r)', alone[r] => Stage(r)'
    PROVE  InForceInv'
<1>1. LocalsOK
  BY TypeInvParts
<1>2. \A s \in Requests \ {r} : SameLocals(s) /\ alone'[s] = alone[s]
  BY <1>1, GotoLocals DEF SameLocals, ghost
<1>3. Active(r)'
  BY <1>1, GotoLocals DEF Active
<1> QED
  BY <1>2, <1>3, ActiveStep DEF ghost

\* NextHook goes on with the next hook, or ends the loop after the last one.
LEMMA NextHookCases ==
    ASSUME LocalsOK, NEW r \in Requests, NEW again, NEW after,
           NextHook(r, again, after)
    PROVE  \/ /\ hook[r] + 1 \in Hooks
              /\ Goto(r, again, hook[r] + 1)
              /\ \A h \in Hooks : h < hook[r] + 1 <=> h < hook[r] \/ h = hook[r]
           \/ /\ Goto(r, after, 1)
              /\ \A h \in Hooks : h < hook[r] \/ h = hook[r]
<1>1. hook[r] \in 1..HookCount /\ Hooks = 1..HookCount /\ HookCount \in Nat
  BY HooksNotEmpty DEF LocalsOK
<1> QED
  BY <1>1 DEF NextHook

\* A jump that has been inserted is there, and so are the others.
LEMMA PrependJumped ==
    ASSUME KernelOK, NEW h \in Hooks, NEW entry \in {"jump", "foreign"},
           parent' = [parent EXCEPT ![h] = <<entry>> \o @]
    PROVE  /\ entry = "jump" => Jumped(h)'
           /\ \A g \in Hooks : Jumped(g) => Jumped(g)'
<1>1. parent[h] \in Seq({"jump", "foreign"}) /\ <<entry>> \in Seq({"jump", "foreign"})
  BY DEF KernelOK
<1> DEFINE longer == <<entry>> \o parent[h]
<1>2. /\ longer \in Seq({"jump", "foreign"})
      /\ Len(longer) = 1 + Len(parent[h])
      /\ longer[1] = entry
      /\ \A i \in 1..Len(parent[h]) : longer[i + 1] = parent[h][i]
  <2>1. Len(<<entry>>) = 1 /\ <<entry>>[1] = entry /\ Len(parent[h]) \in Nat
    BY <1>1, LenProperties
  <2>2. /\ longer \in Seq({"jump", "foreign"})
        /\ Len(longer) = 1 + Len(parent[h])
        /\ \A i \in 1..(1 + Len(parent[h])) :
             longer[i] = IF i <= 1 THEN <<entry>>[i] ELSE parent[h][i - 1]
    BY <1>1, <2>1, ConcatProperties
  <2> HIDE DEF longer
  <2> QED
    BY <2>1, <2>2
<1>3. parent' = [parent EXCEPT ![h] = longer]
  OBVIOUS
<1> HIDE DEF longer
<1>4. DOMAIN longer = 1..Len(longer) /\ DOMAIN parent[h] = 1..Len(parent[h]) /\ Len(parent[h]) \in Nat
  BY <1>1, <1>2, LenProperties
<1>5. parent'[h] = longer /\ \A g \in Hooks \ {h} : parent'[g] = parent[g]
  BY <1>3 DEF KernelOK
<1>6. entry = "jump" => Jumped(h)'
  BY <1>2, <1>4, <1>5 DEF Jumped, Range
<1>7. Jumped(h) => Jumped(h)'
  <2> SUFFICES ASSUME Jumped(h) PROVE Jumped(h)'
    OBVIOUS
  <2>1. PICK i \in 1..Len(parent[h]) : parent[h][i] = "jump"
    BY <1>4 DEF Jumped, Range
  <2>2. i + 1 \in DOMAIN longer /\ longer[i + 1] = "jump"
    BY <1>2, <1>4, <2>1
  <2>3. "jump" \in Range(longer)
    BY <2>2 DEF Range
  <2> QED
    BY <1>5, <2>3 DEF Jumped
<1>8. \A g \in Hooks \ {h} : Jumped(g) => Jumped(g)'
  BY <1>5 DEF Jumped
<1> QED
  BY <1>6, <1>7, <1>8

\* render() up to the flush.
LEMMA EnsureInForce ==
    ASSUME TypeInv, InForceInv, NEW r \in Requests,
           ChainExists(r) \/ ChainCreate(r) \/ JumpCheck(r) \/ JumpInsert(r)
    PROVE  InForceInv'
<1>1. LocalsOK /\ KernelOK /\ hook[r] \in Hooks /\ Found(r)
  BY TypeInvParts, JobConfigs DEF InForceInv, ChainsFound
<1> USE DEF files, kernel, world, EnsureSteps, RenderSteps, Steps
<1>2. Active(r)
  BY DEF ChainExists, ChainCreate, JumpCheck, JumpInsert, Active
<1>3. ASSUME NEW step \in EnsureSteps \cup {"flush"}, NEW h \in Hooks, Goto(r, step, h),
             UNCHANGED <<job, ghost>>, exists \subseteq exists',
             \/ h = 1 /\ step = "flush" /\ Hooks \subseteq exists'
             \/ /\ step \in EnsureSteps
                /\ \A g \in Hooks : g < h => g \in exists'
                /\ step \in {"check", "insert"} => h \in exists'
      PROVE  InForceInv'
  <2>1. pc'[r] = step /\ hook'[r] = h
    BY <1>1, <1>3, GotoLocals
  <2>2. Found(r)'
    BY <1>3, <2>1 DEF Found
  <2>3. Stage(r)'
    BY <1>3, <2>1, HooksNotEmpty DEF Stage, SaveSteps
  <2> QED
    BY <1>2, <1>3, <2>2, <2>3, GoesOn
<1>4. CASE ChainExists(r)
  BY <1>1, <1>3, <1>4 DEF ChainExists, Found
<1>5. CASE ChainCreate(r)
  <2>1. CASE hook[r] \in exists
    BY <1>2, <1>5, <2>1, ThrowInForce DEF ChainCreate
  <2>2. CASE hook[r] \notin exists
    BY <1>1, <1>3, <1>5, <2>2 DEF ChainCreate, Found
  <2> QED
    BY <2>1, <2>2
<1>6. ASSUME pc[r] \in {"check", "insert"}, NextHook(r, "exists", "flush"),
             UNCHANGED <<exists, job, ghost>>
      PROVE  InForceInv'
  BY <1>1, <1>3, <1>6, NextHookCases, HooksNotEmpty DEF Found
<1>7. CASE JumpCheck(r)
  <2>1. CASE Jumped(hook[r])
    BY <1>6, <1>7, <2>1 DEF JumpCheck
  <2>2. CASE ~Jumped(hook[r])
    BY <1>1, <1>3, <1>7, <2>2 DEF JumpCheck, Found
  <2> QED
    BY <2>1, <2>2
<1>8. CASE JumpInsert(r)
  BY <1>6, <1>8 DEF JumpInsert
<1> QED
  BY <1>4, <1>5, <1>7, <1>8

\* render() from the flush to the filling of the chains.
LEMMA PrepareInForce ==
    ASSUME TypeInv, InForceInv, NEW r \in Requests,
           Flush(r) \/ JumpRemove(r) \/ JumpRecheck(r) \/ JumpReinsert(r) \/ Build(r)
    PROVE  InForceInv'
<1>1. /\ LocalsOK /\ KernelOK /\ hook[r] \in Hooks /\ job[r].target \in Config
      /\ Found(r) /\ (alone[r] => Stage(r))
  BY TypeInvParts, JobConfigs DEF InForceInv, ChainsFound, Lonely
<1> DEFINE target == job[r].target
<1> USE DEF files, kernel, world, EnsureSteps, SaveSteps, RenderSteps, Steps
<1>2. Active(r) /\ Hooks \subseteq exists
  BY <1>1 DEF Flush, JumpRemove, JumpRecheck, JumpReinsert, Build, Active, Found
<1>3. ASSUME NEW step \in RenderSteps \ EnsureSteps, NEW h \in Hooks, Goto(r, step, h),
             UNCHANGED <<exists, job, ghost>>, alone[r] => Stage(r)'
      PROVE  InForceInv'
  <2>1. pc'[r] = step /\ hook'[r] = h
    BY <1>1, <1>3, GotoLocals
  <2>2. Found(r)'
    BY <1>2, <1>3, <2>1 DEF Found
  <2> QED
    BY <1>2, <1>3, <2>2, GoesOn
<1>4. CASE Flush(r)
  <2>1. /\ chain' = [chain EXCEPT ![hook[r]] = <<>>]
        /\ UNCHANGED <<parent, exists, job, ghost>>
        /\ NextHook(r, "flush", IF target.enabled THEN "recheck" ELSE "remove")
        /\ alone[r] => \A h \in Hooks : h < hook[r] => chain[h] = <<>>
    BY <1>1, <1>4 DEF Flush, Stage
  <2>2. CASE /\ Goto(r, "flush", hook[r] + 1) /\ hook[r] + 1 \in Hooks
             /\ \A h \in Hooks : h < hook[r] + 1 <=> h < hook[r] \/ h = hook[r]
    <3>1. pc'[r] = "flush" /\ hook'[r] = hook[r] + 1
      BY <1>1, <2>2, GotoLocals
    <3>2. alone[r] => Stage(r)'
      BY <1>1, <2>1, <2>2, <3>1 DEF Stage, KernelOK
    <3> QED
      BY <1>3, <2>1, <2>2, <3>2
  <2>3. CASE /\ Goto(r, IF target.enabled THEN "recheck" ELSE "remove", 1)
             /\ \A h \in Hooks : h < hook[r] \/ h = hook[r]
    <3>1. pc'[r] = (IF target.enabled THEN "recheck" ELSE "remove") /\ hook'[r] = 1
      BY <1>1, <2>3, GotoLocals
    <3>2. alone[r] => \A h \in Hooks : chain'[h] = <<>>
      BY <1>1, <2>1, <2>3 DEF KernelOK
    <3>3. \A h \in Hooks : ~(h < 1)
      BY HooksNotEmpty
    <3>4. alone[r] => Stage(r)'
      BY <2>1, <3>1, <3>2, <3>3 DEF Stage
    <3> QED
      BY <1>3, <2>1, <2>3, <3>4, HooksNotEmpty
  <2> QED
    BY <1>1, <2>1, <2>2, <2>3, NextHookCases
<1>5. CASE JumpRemove(r)
  <2>1. /\ pc[r] = "remove" /\ UNCHANGED <<exists, chain, job, ghost, applied>>
        /\ alone[r] => ~target.enabled /\ \A h \in Hooks : chain[h] = <<>>
    BY <1>1, <1>5 DEF JumpRemove, Stage
  <2>2. CASE UNCHANGED control
    <3>1. pc'[r] = "remove" /\ Found(r)' /\ (alone[r] => Stage(r)')
      BY <1>2, <2>1, <2>2 DEF Found, Stage, control
    <3>2. Active(r)' /\ \A s \in Requests : SameLocals(s) /\ alone'[s] = alone[s]
      BY <2>1, <2>2, <3>1 DEF Active, SameLocals, control, ghost
    <3> QED
      BY <1>2, <2>1, <3>1, <3>2, ActiveStep DEF ghost
  <2>3. CASE NextHook(r, "remove", "appliedT")
    <3>1. ASSUME NEW step \in {"remove", "appliedT"}, NEW h \in Hooks, Goto(r, step, h)
          PROVE  InForceInv'
      <4>1. pc'[r] = step
        BY <1>1, <3>1, GotoLocals
      <4>2. alone[r] => Stage(r)'
        BY <2>1, <3>1, <4>1 DEF Stage, KernelHolds, Rendering
      <4> QED
        BY <1>3, <2>1, <3>1, <4>2
    <3> QED
      BY <1>1, <2>3, <3>1, NextHookCases, HooksNotEmpty
  <2> QED
    BY <1>5, <2>2, <2>3 DEF JumpRemove
<1>6. ASSUME UNCHANGED <<chain, exists, job, ghost>>,
             pc[r] \in {"recheck", "reinsert"},
             \A h \in Hooks : Jumped(h) \/ h = hook[r] => Jumped(h)',
             NextHook(r, "recheck", "build")
      PROVE  InForceInv'
  <2>1. alone[r] => /\ target.enabled
                    /\ \A h \in Hooks : chain[h] = <<>> /\ (h < hook[r] => Jumped(h)')
    BY <1>1, <1>6 DEF Stage
  <2>2. CASE /\ Goto(r, "recheck", hook[r] + 1) /\ hook[r] + 1 \in Hooks
             /\ \A h \in Hooks : h < hook[r] + 1 <=> h < hook[r] \/ h = hook[r]
    <3>1. pc'[r] = "recheck" /\ hook'[r] = hook[r] + 1
      BY <1>1, <2>2, GotoLocals
    <3>2. alone[r] => Stage(r)'
      BY <1>6, <2>1, <2>2, <3>1 DEF Stage, Jumped
    <3> QED
      BY <1>3, <1>6, <2>2, <3>2
  <2>3. CASE /\ Goto(r, "build", 1) /\ \A h \in Hooks : h < hook[r] \/ h = hook[r]
    <3>1. pc'[r] = "build" /\ hook'[r] = 1
      BY <1>1, <2>3, GotoLocals
    <3>2. \A h \in Hooks : ~(h < 1)
      BY HooksNotEmpty
    <3>3. alone[r] => Filling(r)' /\ chain'[hook'[r]] = <<>>
      BY <1>6, <2>1, <2>3, <3>1, <3>2, HooksNotEmpty DEF Filling, Jumped
    <3>4. alone[r] => Stage(r)'
      BY <3>1, <3>3 DEF Stage
    <3> QED
      BY <1>3, <1>6, <2>3, <3>4, HooksNotEmpty
  <2> QED
    BY <1>1, <1>6, <2>2, <2>3, NextHookCases
<1>7. CASE JumpRecheck(r)
  <2>1. CASE Jumped(hook[r])
    BY <1>6, <1>7, <2>1 DEF JumpRecheck, Jumped
  <2>2. CASE ~Jumped(hook[r])
    <3>1. Goto(r, "reinsert", hook[r]) /\ pc[r] = "recheck" /\ UNCHANGED <<kernel, job, ghost>>
      BY <1>7, <2>2 DEF JumpRecheck
    <3>2. pc'[r] = "reinsert" /\ hook'[r] = hook[r]
      BY <1>1, <3>1, GotoLocals
    <3>3. alone[r] => Stage(r)'
      BY <1>1, <3>1, <3>2 DEF Stage, Jumped
    <3> QED
      BY <1>1, <1>3, <3>1, <3>3
  <2> QED
    BY <2>1, <2>2
<1>8. CASE JumpReinsert(r)
  <2>1. \A h \in Hooks : Jumped(h) \/ h = hook[r] => Jumped(h)'
    BY <1>1, <1>8, PrependJumped DEF JumpReinsert, InsertJump, Jumped
  <2> QED
    BY <1>6, <1>8, <2>1 DEF JumpReinsert
<1>9. CASE Build(r)
  <2>1. CASE Buildable(target, hook[r], nets)
    <3>1. Goto(r, "append", hook[r]) /\ pc[r] = "build" /\ UNCHANGED <<kernel, job, ghost>>
      BY <1>9, <2>1 DEF Build
    <3>2. pc'[r] = "append" /\ hook'[r] = hook[r] /\ pos'[r] = 1
      BY <1>1, <3>1, GotoLocals
    <3>3. alone[r] => Filling(r)' /\ Partial(target, hook[r], 0)'
      BY <1>1, <3>1, <3>2, EmptySeq DEF Stage, Filling, Partial, Jumped
    <3>4. alone[r] => Stage(r)'
      BY <3>1, <3>2, <3>3 DEF Stage, Partial
    <3> QED
      BY <1>1, <1>3, <3>1, <3>4
  <2>2. CASE ~Buildable(target, hook[r], nets)
    BY <1>2, <1>9, <2>2, ThrowInForce DEF Build
  <2> QED
    BY <2>1, <2>2
<1> QED
  BY <1>4, <1>5, <1>7, <1>8, <1>9

\* A chain of n - 1 commands with one appended.
LEMMA AppendNth ==
    ASSUME NEW S, NEW n \in Nat, NEW seq \in Seq(S), Len(seq) = n - 1, NEW elt \in S
    PROVE  /\ Append(seq, elt) \in Seq(S)
           /\ Len(Append(seq, elt)) = n
           /\ \A i \in 1..(n - 1) : Append(seq, elt)[i] = seq[i]
           /\ Append(seq, elt)[n] = elt
<1> DEFINE longer == Append(seq, elt)
<1>1. /\ longer \in Seq(S) /\ Len(longer) = Len(seq) + 1
      /\ \A i \in 1..Len(seq) : longer[i] = seq[i]
      /\ longer[Len(seq) + 1] = elt
  BY AppendProperties
<1> HIDE DEF longer
<1>2. Len(seq) + 1 = n
  OBVIOUS
<1>3. /\ longer \in Seq(S) /\ Len(longer) = n
      /\ \A i \in 1..(n - 1) : longer[i] = seq[i]
      /\ longer[n] = elt
  BY <1>1, <1>2, Zenon
<1> QED
  BY <1>3 DEF longer

\* The filling of the chains, and the saves.
LEMMA AppendInForce ==
    ASSUME TypeInv, InForceInv, NEW r \in Requests, AppendRule(r)
    PROVE  InForceInv'
<1> DEFINE target == job[r].target
           here == hook[r]
           commands == Commands(target, here)
<1>1. /\ LocalsOK /\ KernelOK /\ here \in Hooks /\ target \in Config
      /\ Found(r) /\ (alone[r] => Stage(r))
      /\ pos[r] \in Nat \ {0} /\ pos[r] <= Len(commands)
  BY TypeInvParts, JobConfigs DEF InForceInv, ChainsFound, Lonely, AppendRule, LocalsOK, PosOK
<1>2. commands \in Seq(Token) /\ Len(commands) \in Nat
  BY <1>1, CommandsType
<1> USE DEF files, kernel, world, EnsureSteps, SaveSteps, RenderSteps, Steps
<1>3. /\ pc[r] = "append" /\ Active(r) /\ Hooks \subseteq exists
      /\ chain' = [chain EXCEPT ![here] = Append(chain[here], commands[pos[r]])]
      /\ UNCHANGED <<applied, parent, exists, job, ghost>>
  BY <1>1 DEF AppendRule, Active, Found
<1>4. alone[r] => Filling(r) /\ Partial(target, here, pos[r] - 1)
  BY <1>1, <1>3 DEF Stage
\* The chain now holds one command more.
<1>5. alone[r] => /\ Len(chain'[here]) = pos[r]
                  /\ chain'[here] \in Seq(Token)
                  /\ \A i \in 1..pos[r] : chain'[here][i] = commands[i]
  <2> SUFFICES ASSUME alone[r]
               PROVE  /\ Len(chain'[here]) = pos[r]
                      /\ chain'[here] \in Seq(Token)
                      /\ \A i \in 1..pos[r] : chain'[here][i] = commands[i]
    OBVIOUS
  <2>1. chain[here] \in Seq(Token) /\ commands[pos[r]] \in Token
    BY <1>1, <1>2, ElementOfSeq DEF KernelOK
  <2>2. Len(chain[here]) = pos[r] - 1 /\ \A i \in 1..(pos[r] - 1) : chain[here][i] = commands[i]
    BY <1>4 DEF Partial
  <2>3. chain'[here] = Append(chain[here], commands[pos[r]])
    BY <1>1, <1>3 DEF KernelOK
  <2> HIDE DEF commands
  <2>4. /\ Append(chain[here], commands[pos[r]]) \in Seq(Token)
        /\ Len(Append(chain[here], commands[pos[r]])) = pos[r]
        /\ \A i \in 1..(pos[r] - 1) :
             Append(chain[here], commands[pos[r]])[i] = chain[here][i]
        /\ Append(chain[here], commands[pos[r]])[pos[r]] = commands[pos[r]]
    <3>1. pos[r] \in Nat
      BY <1>1
    <3> QED
      BY <2>1, <2>2, <3>1, AppendNth
  <2> QED
    BY <1>1, <2>2, <2>3, <2>4
<1>6. \A h \in Hooks : h # here => chain'[h] = chain[h]
  BY <1>1, <1>3 DEF KernelOK
<1>7. CASE pos[r] < Len(commands)
  <2>1. pos' = [pos EXCEPT ![r] = pos[r] + 1] /\ UNCHANGED <<pc, hook>>
    BY <1>7 DEF AppendRule
  <2>2. pc'[r] = "append" /\ hook'[r] = here /\ pos'[r] = pos[r] + 1 /\ job'[r] = job[r]
    BY <1>1, <1>3, <2>1 DEF LocalsOK
  <2>3. Active(r)' /\ Found(r)'
    BY <1>3, <2>2 DEF Active, Found
  <2>4. alone[r] => Filling(r)'
    BY <1>1, <1>3, <1>4, <1>6, <2>2, HooksNotEmpty DEF Filling, Jumped
  <2>5. alone[r] => Partial(target, here, pos[r] - 1)'
    BY <1>1, <1>3, <1>5, <2>2 DEF Partial
  <2>6. alone[r] => Stage(r)'
    BY <2>2, <2>4, <2>5 DEF Stage
  <2>7. \A s \in Requests \ {r} : SameLocals(s) /\ alone'[s] = alone[s]
    BY <1>1, <1>3, <2>1 DEF SameLocals, ghost, LocalsOK
  <2> QED
    BY <1>3, <2>3, <2>6, <2>7, ActiveStep DEF ghost
<1>8. CASE ~(pos[r] < Len(commands))
  <2>1. NextHook(r, "build", "appliedT")
    BY <1>8 DEF AppendRule
  <2>2. alone[r] => chain'[here] = commands
    <3>1. pos[r] = Len(commands)
      BY <1>1, <1>2, <1>8
    <3> HIDE DEF commands
    <3> QED
      BY <1>2, <1>5, <3>1, SeqEqual
  <2>3. alone[r] => /\ target.enabled
                    /\ \A h \in Hooks : /\ Jumped(h)'
                                        /\ h < here \/ h = here => chain'[h] = Commands(target, h)
                                        /\ h > here => chain'[h] = <<>>
    BY <1>1, <1>3, <1>4, <1>6, <2>2, HooksNotEmpty DEF Filling, Jumped
  <2>4. CASE /\ Goto(r, "build", here + 1) /\ here + 1 \in Hooks
             /\ \A h \in Hooks : h < here + 1 <=> h < here \/ h = here
    <3>1. pc'[r] = "build" /\ hook'[r] = here + 1 /\ job'[r] = job[r]
      BY <1>1, <1>3, <2>4, GotoLocals
    <3>2. Found(r)'
      BY <1>3, <3>1 DEF Found
    <3>3. \A h \in Hooks : h > here + 1 => h > here
      BY <1>1, HooksNotEmpty
    <3>4. here + 1 > here
      BY <1>1, HooksNotEmpty
    <3>5. alone[r] => Filling(r)' /\ chain'[hook'[r]] = <<>>
      BY <1>3, <2>3, <2>4, <3>1, <3>3, <3>4 DEF Filling, Jumped
    <3>6. alone[r] => Stage(r)'
      BY <3>1, <3>5 DEF Stage
    <3> QED
      BY <1>3, <2>4, <3>2, <3>6, GoesOn
  <2>5. CASE Goto(r, "appliedT", 1) /\ \A h \in Hooks : h < here \/ h = here
    <3>1. pc'[r] = "appliedT" /\ job'[r] = job[r]
      BY <1>1, <1>3, <2>5, GotoLocals
    <3>2. Found(r)'
      BY <1>3, <3>1 DEF Found
    <3>3. alone[r] => KernelHolds(job[r].target)'
      BY <1>3, <2>3, <2>5, <3>1 DEF KernelHolds, Rendering, Jumped
    <3>4. alone[r] => Stage(r)'
      BY <3>1, <3>3 DEF Stage
    <3> QED
      BY <1>3, <2>5, <3>2, <3>4, GoesOn
  <2> QED
    BY <1>1, <2>1, <2>4, <2>5, NextHookCases
<1> QED
  BY <1>7, <1>8

LEMMA SaveInForce ==
    ASSUME TypeInv, InForceInv, NEW r \in Requests,
           \/ AppliedTruncate(r) \/ AppliedWrite(r) \/ ConfigTruncate(r)
           \/ ConfigWrite(r) \/ Terminate(r)
    PROVE  InForceInv'
<1>1. LocalsOK /\ job[r].target \in Config /\ Found(r) /\ (alone[r] => Stage(r))
  BY TypeInvParts, JobConfigs DEF InForceInv, ChainsFound, Lonely
<1> USE DEF files, kernel, world, EnsureSteps, SaveSteps, RenderSteps, Steps
<1>2. /\ Active(r) /\ Hooks \subseteq exists
      /\ alone[r] => KernelHolds(job[r].target)
  BY <1>1
  DEF AppliedTruncate, AppliedWrite, ConfigTruncate, ConfigWrite, Terminate, Active, Found, Stage
<1>3. job[r].target \notin NoConfig
  BY <1>1, FilesAssumption DEF NoConfig
<1>4. UNCHANGED kernel
  BY DEF AppliedTruncate, AppliedWrite, ConfigTruncate, ConfigWrite, Terminate
<1>5. alone[r] /\ applied' = job[r].target => applied' \notin NoConfig /\ KernelHolds(applied)'
  BY <1>2, <1>3, <1>4 DEF KernelHolds, Jumped
<1>6. ASSUME NEW step \in {"appliedW", "configT", "configW", "terminate"}, Goto(r, step, 1),
             UNCHANGED <<job, ghost>>,
             alone[r] => IF step = "appliedW" THEN applied' = Missing
                                             ELSE applied' = job[r].target
      PROVE  InForceInv'
  <2>1. pc'[r] = step /\ job'[r] = job[r]
    BY <1>1, <1>6, GotoLocals
  <2>2. Found(r)'
    BY <1>2, <1>4, <1>6, <2>1 DEF Found
  <2>3. alone[r] => KernelHolds(job[r].target)'
    BY <1>2, <1>4, <2>1 DEF KernelHolds, Jumped
  <2>4. alone[r] => Stage(r)'
    BY <1>6, <2>1, <2>3 DEF Stage
  <2> QED
    BY <1>2, <1>4, <1>6, <2>2, <2>4, GoesOn
<1>7. CASE AppliedTruncate(r)
  BY <1>6, <1>7 DEF AppliedTruncate
<1>8. CASE AppliedWrite(r)
  <2>1. alone[r] => applied' = job[r].target
    BY <1>1, <1>8 DEF AppliedWrite, Stage, Written
  <2>2. CASE job[r].undo
    BY <1>2, <1>4, <1>5, <1>8, <2>1, <2>2, FinishInForce DEF AppliedWrite
  <2>3. CASE ~job[r].undo
    BY <1>6, <1>8, <2>1, <2>3 DEF AppliedWrite
  <2> QED
    BY <2>2, <2>3
<1>9. CASE ConfigTruncate(r) \/ ConfigWrite(r) \/ Terminate(r)
  <2>1. alone[r] => applied' = job[r].target
    BY <1>1, <1>9 DEF ConfigTruncate, ConfigWrite, Terminate, Stage
  <2>2. ASSUME Finish(r, "committed") PROVE InForceInv'
    BY <1>2, <1>4, <1>5, <2>1, <2>2, FinishInForce
  <2> QED
    BY <1>6, <1>9, <2>1, <2>2 DEF ConfigTruncate, ConfigWrite, Terminate
<1> QED
  BY <1>7, <1>8, <1>9

LEMMA RequestInForce ==
    ASSUME TypeInv, InForceInv, NEW r \in Requests, Start(r) \/ Continue(r)
    PROVE  InForceInv'
<1> USE DEF files, kernel, world, ghost, RenderSteps, Steps
<1>1. ASSUME pc[r] \notin RenderSteps, NEW step \in {"editT", "editW", "idle", "readApplied",
                                                     "backupT", "backupW"},
             Goto(r, step, 1), job' = job \/ \E j : job' = [job EXCEPT ![r] = j],
             UNCHANGED <<applied, kernel, ghost>>
      PROVE  InForceInv'
  BY <1>1, BeforeRender DEF Active
<1>2. CASE StartAdd(r)
  BY <1>1, <1>2 DEF StartAdd
<1>3. CASE StartDelete(r)
  BY <1>1, <1>3 DEF StartDelete
<1>4. ASSUME NEW op \in {"apply", "disable"}, StartChange(r, op)
      PROVE  InForceInv'
  <2> DEFINE j == [NoJob EXCEPT !.op = op,
                     !.target = [ReadConfig(draft) EXCEPT !.enabled = (op = "apply")]]
  <2>1. /\ pc[r] = "idle" /\ job' = [job EXCEPT ![r] = j] /\ Goto(r, "readApplied", 1)
        /\ UNCHANGED <<applied, kernel, ghost>>
    BY <1>4 DEF StartChange
  <2> HIDE DEF j
  <2> QED
    BY <1>1, <2>1
<1>5. CASE StartRollback(r) \/ BackupWrite(r)
  BY <1>5, StartRenderInForce DEF StartRollback, BackupWrite, Active
<1>6. CASE EditTruncate(r) \/ EditWrite(r) \/ ReadApplied(r) \/ BackupTruncate(r)
  BY <1>1, <1>6 DEF EditTruncate, EditWrite, ReadApplied, BackupTruncate, Answer
<1>7. CASE Continue(r) /\ ~(EditTruncate(r) \/ EditWrite(r) \/ ReadApplied(r)
                            \/ BackupTruncate(r) \/ BackupWrite(r))
  BY <1>7, EnsureInForce, PrepareInForce, AppendInForce, SaveInForce DEF Continue
<1> QED
  BY <1>2, <1>3, <1>4, <1>5, <1>6, <1>7 DEF Start

LEMMA FaultInForce ==
    ASSUME TypeInv, InForceInv, NEW r \in Requests, Fault(r)
    PROVE  InForceInv'
<1>1. /\ LocalsOK /\ hook[r] \in Hooks /\ job[r].target \in Config
      /\ Found(r) /\ (alone[r] => Stage(r))
  BY TypeInvParts, JobConfigs DEF InForceInv, ChainsFound, Lonely
<1> USE DEF files, kernel, world, ghost, EnsureSteps, SaveSteps, RenderSteps, Steps
<1>2. CASE CommandFails(r) \/ DockerFails(r)
  BY <1>2, ThrowInForce DEF CommandFails, DockerFails, Active
<1>3. CASE QueryFails(r)
  <2>1. Active(r) /\ UNCHANGED <<applied, kernel, job, ghost>>
    BY <1>3 DEF QueryFails, Active
  <2>2. CASE pc[r] \in {"exists", "check", "recheck"}
    <3>1. PICK step \in {"create", "insert", "reinsert"} :
            /\ Goto(r, step, hook[r])
            /\ step = "insert" => pc[r] = "check"
            /\ step = "create" => pc[r] = "exists"
            /\ step = "reinsert" => pc[r] = "recheck"
      BY <1>3, <2>2 DEF QueryFails
    <3>2. pc'[r] = step /\ hook'[r] = hook[r] /\ job'[r] = job[r]
      BY <1>1, <2>1, <3>1, GotoLocals
    <3>3. Found(r)'
      BY <1>1, <2>1, <3>1, <3>2 DEF Found
    <3>4. alone[r] => Stage(r)'
      BY <1>1, <2>1, <3>1, <3>2 DEF Stage, Jumped
    <3> QED
      BY <2>1, <3>1, <3>3, <3>4, GoesOn
  <2>3. CASE pc[r] = "remove" /\ NextHook(r, "remove", "appliedT")
    <3>1. ASSUME NEW step \in {"remove", "appliedT"}, NEW h \in Hooks, Goto(r, step, h)
          PROVE  InForceInv'
      <4>1. pc'[r] = step /\ job'[r] = job[r]
        BY <1>1, <2>1, <3>1, GotoLocals
      <4>2. Found(r)'
        BY <1>1, <2>1, <2>3, <3>1, <4>1 DEF Found
      <4>3. alone[r] => Stage(r)'
        BY <1>1, <2>1, <2>3, <3>1, <4>1 DEF Stage, KernelHolds, Rendering
      <4> QED
        BY <2>1, <3>1, <4>2, <4>3, GoesOn
    <3> QED
      BY <1>1, <2>3, <3>1, NextHookCases, HooksNotEmpty
  <2> QED
    BY <1>3, <2>2, <2>3 DEF QueryFails
<1>4. CASE SaveFails(r)
  <2>1. CASE Active(r)
    BY <1>4, <2>1, ThrowInForce DEF SaveFails
  <2>2. CASE ~Active(r)
    <3>1. Answer(r) /\ UNCHANGED <<applied, kernel, ghost>>
      BY <1>4, <2>2 DEF SaveFails, Active
    <3> QED
      BY <2>2, <3>1, BeforeRender DEF Answer
  <2> QED
    BY <2>1, <2>2
<1>5. CASE ConntrackFails(r)
  <2>1. Active(r) /\ Finish(r, "committed") /\ UNCHANGED <<applied, kernel>>
    BY <1>5 DEF ConntrackFails, Active
  <2>2. alone[r] => KernelHolds(job[r].target) /\ applied = job[r].target
    BY <1>1, <1>5 DEF ConntrackFails, Stage
  <2>3. alone[r] => applied' \notin NoConfig /\ KernelHolds(applied)'
    BY <1>1, <2>1, <2>2, FilesAssumption DEF KernelHolds, Jumped, NoConfig
  <2> QED
    BY <2>1, <2>3, FinishInForce
<1> QED
  BY <1>2, <1>3, <1>4, <1>5 DEF Fault

LEMMA EnvironmentInForce ==
    ASSUME TypeInv, InForceInv, Environment
    PROVE  InForceInv'
<1>1. KernelOK
  BY TypeInvParts
<1> USE DEF files, kernel, world, ghost, control
<1>2. CASE Crash
  <2>1. \A r \in Requests : pc'[r] = "idle" /\ ~alone'[r] /\ ~Active(r)'
    BY <1>2 DEF Crash, Active, RenderSteps
  <2>2. ChainsFound' /\ Lonely'
    BY <2>1 DEF ChainsFound, Found, Lonely, EnsureSteps, RenderSteps
  <2>3. Settled'
    BY <1>2, <2>1 DEF Crash, InForceInv, Settled, KernelHolds, Jumped
  <2> QED
    BY <2>2, <2>3 DEF InForceInv
<1>3. CASE Reboot
  <2>1. \A r \in Requests : pc'[r] = "idle" /\ ~alone'[r]
    BY <1>3 DEF Reboot
  <2>2. ChainsFound' /\ Lonely'
    BY <2>1 DEF ChainsFound, Found, Lonely, EnsureSteps, RenderSteps
  <2> QED
    BY <1>3, <2>2 DEF Reboot, InForceInv, Settled
<1>4. CASE ForeignInsert \/ RemoveNetwork \/ OpenFlow \/ CloseFlow
  <2>1. /\ UNCHANGED <<applied, chain, exists, alone, outcome>>
        /\ \A r \in Requests : SameLocals(r)
    BY <1>4 DEF ForeignInsert, RemoveNetwork, OpenFlow, CloseFlow, SameLocals
  <2>2. \A h \in Hooks : Jumped(h) => Jumped(h)'
    BY <1>1, <1>4, PrependJumped
    DEF ForeignInsert, RemoveNetwork, OpenFlow, CloseFlow, Jumped
  <2> QED
    BY <2>1, <2>2, QuietStep
<1> QED
  BY <1>2, <1>3, <1>4 DEF Environment

LEMMA InForceStep == TypeInv /\ InForceInv /\ [Next]_vars => InForceInv'
<1> SUFFICES ASSUME TypeInv, InForceInv, [Next]_vars PROVE InForceInv'
  OBVIOUS
<1>1. CASE UNCHANGED vars
  BY <1>1, QuietStep
  DEF vars, files, kernel, world, control, ghost, SameLocals, Jumped
<1> QED
  BY <1>1, RequestInForce, FaultInForce, EnvironmentInForce DEF Next

\* After a rendering that no other one overlapped has been reported as done,
\* or restored, the record parses and the chains enforce it: for any number of
\* requests and any sequence of failures, crashes and reboots before.
\* (applyFirewall, disableFirewall, rollbackFirewall, lines 492-563.)
THEOREM InForceCorrect == Spec => []InForce
<1>1. Spec => [](TypeInv /\ InForceInv)
  BY TypeInvInit, TypeInvStep, InForceInit, InForceStep, PTL DEF Spec
<1>2. InForceInv => InForce
  BY DEF InForceInv, Settled, InForce
<1> QED
  BY <1>1, <1>2, PTL

LEMMA RecordStepHolds == TypeInv /\ InForceInv /\ [Next]_vars => [RecordStep]_vars
<1> SUFFICES ASSUME TypeInv, InForceInv, Next, applied' # applied, applied' \notin NoConfig
             PROVE  KernelHolds(applied') \/ \E r \in Requests : Active(r) /\ ~alone[r]
  BY DEF RecordStep
<1> USE DEF files, kernel, world
<1>1. PICK r \in Requests : AppliedWrite(r)
  <2>1. ~Environment
    BY DEF Environment, Crash, Reboot, ForeignInsert, RemoveNetwork, OpenFlow, CloseFlow
  <2>2. ASSUME NEW r \in Requests, Start(r)
        PROVE  applied' = applied
    BY <2>2 DEF Start, StartAdd, StartDelete, StartChange, StartRollback
  <2>3. ASSUME NEW r \in Requests, Fault(r)
        PROVE  applied' = applied \/ applied' \in NoConfig
    BY <2>3 DEF Fault, CommandFails, QueryFails, DockerFails, SaveFails, ConntrackFails, NoConfig
  <2>4. ASSUME NEW r \in Requests, Continue(r), ~AppliedWrite(r)
        PROVE  applied' = applied \/ applied' = Missing
    BY <2>4
    DEF Continue, ReadApplied, EditTruncate, EditWrite, BackupTruncate, BackupWrite,
        ChainExists, ChainCreate, JumpCheck, JumpInsert, Flush, JumpRemove, JumpRecheck,
        JumpReinsert, Build, AppendRule, AppliedTruncate, ConfigTruncate, ConfigWrite,
        Terminate
  <2>5. applied' # Missing /\ applied' \notin NoConfig
    BY DEF NoConfig
  <2>6. PICK r \in Requests : Start(r) \/ Continue(r) \/ Fault(r)
    BY <2>1 DEF Next
  <2> QED
    BY <2>2, <2>3, <2>4, <2>5, <2>6
<1>2. Active(r)
  BY <1>1 DEF AppliedWrite, Active, RenderSteps, Steps
<1>3. CASE alone[r]
  <2>1. KernelHolds(job[r].target) /\ applied = Missing
    BY <1>1, <1>3 DEF AppliedWrite, InForceInv, Lonely, Stage, SaveSteps
  <2>2. applied' = job[r].target
    BY <1>1, <2>1 DEF AppliedWrite, Written
  <2> QED
    BY <2>1, <2>2
<1> QED
  BY <1>2, <1>3

\* The record is only written once the chains hold what it says, unless two
\* renderings overlap. (Lines 507-508, 517-518, 540-541 and 558-559.)
THEOREM RecordCorrect == Spec => NeverRecordedAhead
<1>1. Spec => [](TypeInv /\ InForceInv)
  BY TypeInvInit, TypeInvStep, InForceInit, InForceStep, PTL DEF Spec
<1> QED
  BY <1>1, RecordStepHolds, PTL DEF Spec, NeverRecordedAhead

-----------------------------------------------------------------------------
(***************************************************************************)
(* EssentialIcmpFirst, when requests come one at a time: then every        *)
(* rendering is alone, and Stage says that a chain that is being filled    *)
(* is a prefix of its commands.                                            *)
(***************************************************************************)
Serial == \A r, s \in Requests : r = s

AlwaysAlone == \A r \in Requests : Active(r) => alone[r]

LEMMA AlwaysAloneStep ==
    ASSUME Serial, TypeInv, AlwaysAlone, [Next]_vars
    PROVE  AlwaysAlone'
<1>1. LocalsOK /\ GhostOK
  BY TypeInvParts
<1> SUFFICES ASSUME NEW r \in Requests, Active(r)' PROVE alone'[r]
  BY DEF AlwaysAlone
<1> USE DEF files, kernel, world, control, ghost
<1>2. ASSUME NEW step \in Steps \ RenderSteps, NEW h, Goto(r, step, h) PROVE FALSE
  BY <1>1, <1>2, GotoLocals DEF Active
<1>3. ~Answer(r) /\ \A result : ~Finish(r, result)
  BY <1>2 DEF Answer, Finish, Steps, RenderSteps
<1>4. ASSUME NEW j, StartRender(r, j) PROVE alone'[r]
  BY <1>1, <1>4 DEF Serial, StartRender, GhostOK
<1>5. ASSUME Active(r), UNCHANGED alone PROVE alone'[r]
  BY <1>5 DEF AlwaysAlone
<1>6. ASSUME Active(r), Throw(r) PROVE alone'[r]
  BY <1>3, <1>5, <1>6 DEF Throw
<1>7. CASE Start(r)
  BY <1>2, <1>4, <1>7
  DEF Start, StartAdd, StartDelete, StartChange, StartRollback, Steps, RenderSteps
<1>8. CASE ReadApplied(r) \/ EditTruncate(r) \/ EditWrite(r) \/ BackupTruncate(r) \/ BackupWrite(r)
  BY <1>2, <1>3, <1>4, <1>8
  DEF ReadApplied, EditTruncate, EditWrite, BackupTruncate, BackupWrite, Steps, RenderSteps
<1>9. CASE \/ ChainExists(r) \/ ChainCreate(r) \/ JumpCheck(r) \/ JumpInsert(r) \/ Flush(r)
           \/ JumpRemove(r) \/ JumpRecheck(r) \/ JumpReinsert(r) \/ Build(r) \/ AppendRule(r)
           \/ AppliedTruncate(r) \/ AppliedWrite(r) \/ ConfigTruncate(r) \/ ConfigWrite(r)
           \/ Terminate(r)
  <2>1. Active(r)
    BY <1>9 DEF ChainExists, ChainCreate, JumpCheck, JumpInsert, Flush, JumpRemove,
                JumpRecheck, JumpReinsert, Build, AppendRule, AppliedTruncate, AppliedWrite,
                ConfigTruncate, ConfigWrite, Terminate, Active, Steps, RenderSteps
  <2> QED
    BY <1>3, <1>5, <1>6, <1>9, <2>1
    DEF ChainExists, ChainCreate, JumpCheck, JumpInsert, Flush, JumpRemove,
        JumpRecheck, JumpReinsert, Build, AppendRule, AppliedTruncate, AppliedWrite,
        ConfigTruncate, ConfigWrite, Terminate
<1>10. CASE Fault(r)
  BY <1>3, <1>5, <1>6, <1>10
  DEF Fault, CommandFails, QueryFails, DockerFails, SaveFails, ConntrackFails,
      Active, Steps, RenderSteps
<1>11. CASE Environment
  <2>1. CASE Crash \/ Reboot
    BY <2>1 DEF Crash, Reboot, Active, RenderSteps
  <2>2. CASE ForeignInsert \/ RemoveNetwork \/ OpenFlow \/ CloseFlow
    BY <1>5, <2>2 DEF ForeignInsert, RemoveNetwork, OpenFlow, CloseFlow, Active
  <2> QED
    BY <1>11, <2>1, <2>2 DEF Environment
<1>12. CASE UNCHANGED vars
  BY <1>5, <1>12 DEF vars, Active
<1> QED
  BY <1>7, <1>8, <1>9, <1>10, <1>11, <1>12 DEF Next, Continue, Serial

\* In the commands for DRM6-INPUT every rule comes after the essential accepts.
LEMMA EssentialCommands ==
    ASSUME NEW c \in Config, NEW h \in EssentialHooks,
           NEW i \in 1..Len(Commands(c, h)), Commands(c, h)[i] \in Rules
    PROVE  i > 2 /\ Commands(c, h)[2] = "essential-icmpv6"
<1> DEFINE preamble == <<"state", "essential-icmpv6">>
           rest == RuleCommands(c, h) \o <<"return">>
<1>1. preamble \in Seq(Token) /\ <<"return">> \in Seq(Token) /\ Len(preamble) = 2
      /\ preamble[1] = "state" /\ preamble[2] = "essential-icmpv6"
  <2>1. \A t, u \in Token : <<t, u>> \in Seq(Token) /\ Len(<<t, u>>) = 2
                            /\ <<t, u>>[1] = t /\ <<t, u>>[2] = u
    OBVIOUS
  <2>2. \A t \in Token : <<t>> \in Seq(Token)
    OBVIOUS
  <2> QED
    BY <2>1, <2>2 DEF Token
<1>2. RuleCommands(c, h) \in Seq(Token)
  BY RuleCommandsType
<1>3. rest \in Seq(Token)
  BY <1>1, <1>2, ConcatProperties
<1>4. Commands(c, h) = preamble \o rest
  <2>1. Preamble(h) = preamble
    BY DEF Preamble
  <2> HIDE DEF preamble
  <2> QED
    BY <1>1, <1>2, <2>1, ConcatAssociative DEF Commands
<1> HIDE DEF preamble, rest
<1>5. /\ Commands(c, h)[1] = "state"
      /\ Commands(c, h)[2] = "essential-icmpv6"
  <2>1. \A k \in 1..(Len(preamble) + Len(rest)) :
          (preamble \o rest)[k] = IF k <= Len(preamble) THEN preamble[k] ELSE rest[k - Len(preamble)]
    BY <1>1, <1>3, ConcatProperties
  <2>2. Len(rest) \in Nat /\ Len(preamble) = 2
    BY <1>1, <1>3, LenProperties
  <2>3. \A n \in Nat : 1 \in 1..(2 + n) /\ 2 \in 1..(2 + n) /\ 1 <= 2 /\ 2 <= 2
    OBVIOUS
  <2>4. (preamble \o rest)[1] = preamble[1] /\ (preamble \o rest)[2] = preamble[2]
    BY <2>1, <2>2, <2>3
  <2> QED
    BY <1>1, <1>4, <2>4
<1>6. "state" \notin Rules /\ "essential-icmpv6" \notin Rules
  BY RulesAssumption
<1>7. i \in Nat /\ i >= 1
  BY CommandsType
<1> QED
  BY <1>5, <1>6, <1>7

LEMMA EssentialStep ==
    ASSUME TypeInv, InForceInv, AlwaysAlone, EssentialIcmpFirst, [Next]_vars
    PROVE  EssentialIcmpFirst'
<1>1. LocalsOK /\ KernelOK
  BY TypeInvParts
<1> USE DEF files, kernel, world, control, ghost
<1>2. SUFFICES ASSUME NEW h \in EssentialHooks, NEW i \in DOMAIN chain'[h], chain'[h][i] \in Rules
               PROVE  \E j \in 1..(i - 1) : chain'[h][j] = "essential-icmpv6"
  BY DEF EssentialIcmpFirst
<1>3. h \in Hooks
  BY HooksAssumption
<1>4. CASE chain'[h] = chain[h]
  BY <1>2, <1>4 DEF EssentialIcmpFirst
<1>5. CASE chain'[h] = <<>>
  BY <1>2, <1>5
<1>6. ASSUME NEW r \in Requests, AppendRule(r), hook[r] = h
      PROVE  \E j \in 1..(i - 1) : chain'[h][j] = "essential-icmpv6"
  <2> DEFINE commands == Commands(job[r].target, h)
  <2>1. pc[r] = "append" /\ pos[r] \in 1..Len(commands) /\ job[r].target \in Config
    BY <1>1, <1>6, JobConfigs, CommandsType DEF AppendRule, TypeInv, PosOK, LocalsOK
  <2>2. Partial(job[r].target, h, pos[r] - 1)
    <3>1. Active(r)
      BY <2>1 DEF Active, RenderSteps, Steps
    <3>2. Stage(r)
      BY <3>1 DEF AlwaysAlone, InForceInv, Lonely
    <3> QED
      BY <1>6, <2>1, <3>2 DEF Stage
  <2>3. commands \in Seq(Token)
    BY <2>1, CommandsType
  <2>4. /\ chain[h] \in Seq(Token) /\ commands[pos[r]] \in Token
        /\ Len(chain[h]) = pos[r] - 1
        /\ \A j \in 1..(pos[r] - 1) : chain[h][j] = commands[j]
    BY <1>1, <1>3, <2>1, <2>2, <2>3, ElementOfSeq DEF Partial, KernelOK
  <2>5. chain'[h] = Append(chain[h], commands[pos[r]])
    BY <1>1, <1>3, <1>6 DEF AppendRule, KernelOK
  <2> HIDE DEF commands
  <2>6. /\ Append(chain[h], commands[pos[r]]) \in Seq(Token)
        /\ Len(Append(chain[h], commands[pos[r]])) = pos[r]
        /\ \A j \in 1..(pos[r] - 1) : Append(chain[h], commands[pos[r]])[j] = chain[h][j]
        /\ Append(chain[h], commands[pos[r]])[pos[r]] = commands[pos[r]]
    <3>1. pos[r] \in Nat
      BY <2>1, <2>3, LenProperties
    <3> QED
      BY <2>4, <3>1, AppendNth
  <2>7. i \in 1..pos[r] /\ \A j \in 1..pos[r] : chain'[h][j] = commands[j]
    BY <1>2, <2>1, <2>4, <2>5, <2>6, LenProperties
  <2>8. i > 2 /\ commands[2] = "essential-icmpv6"
    BY <1>2, <2>1, <2>7, EssentialCommands DEF commands
  <2> QED
    BY <2>1, <2>7, <2>8
<1>7. ASSUME NEW r \in Requests, Start(r) \/ Continue(r) \/ Fault(r)
      PROVE  chain'[h] = chain[h] \/ chain'[h] = <<>> \/ (AppendRule(r) /\ hook[r] = h)
  <2>1. CASE AppendRule(r)
    BY <1>1, <1>3, <2>1 DEF AppendRule, KernelOK
  <2>2. CASE Flush(r)
    BY <1>1, <1>3, <2>2 DEF Flush, KernelOK
  <2>3. CASE Start(r)
    BY <2>3 DEF Start, StartAdd, StartDelete, StartChange, StartRollback
  <2>4. CASE Fault(r)
    BY <2>4 DEF Fault, CommandFails, QueryFails, DockerFails, SaveFails, ConntrackFails
  <2>5. CASE Continue(r) /\ ~AppendRule(r) /\ ~Flush(r)
    BY <2>5
    DEF Continue, ReadApplied, EditTruncate, EditWrite, BackupTruncate, BackupWrite,
        ChainExists, ChainCreate, JumpCheck, JumpInsert, JumpRemove, JumpRecheck,
        JumpReinsert, Build, AppliedTruncate, AppliedWrite, ConfigTruncate, ConfigWrite,
        Terminate
  <2> QED
    BY <1>7, <2>1, <2>2, <2>3, <2>4, <2>5
<1>8. CASE Environment \/ UNCHANGED vars
  <2>1. chain'[h] = chain[h] \/ chain'[h] = <<>>
    BY <1>3, <1>8 DEF Environment, Crash, Reboot, ForeignInsert, RemoveNetwork, OpenFlow,
                     CloseFlow, vars
  <2> QED
    BY <1>4, <1>5, <2>1
<1> QED
  BY <1>4, <1>5, <1>6, <1>7, <1>8 DEF Next

\* When requests come one at a time, no failure, crash or reboot ever leaves a
\* rule ahead of the essential ICMPv6 accepts in DRM6-INPUT, at any moment of
\* its filling. (Lines 400-414, and render(), line 489.)
THEOREM EssentialIcmpCorrect ==
    ASSUME Serial
    PROVE  Spec => []EssentialIcmpFirst
<1>1. Init => AlwaysAlone /\ EssentialIcmpFirst
  BY HooksAssumption DEF Init, AlwaysAlone, Active, RenderSteps, EssentialIcmpFirst
<1>2. TypeInv /\ InForceInv /\ AlwaysAlone /\ EssentialIcmpFirst /\ [Next]_vars
        => AlwaysAlone' /\ EssentialIcmpFirst'
  BY AlwaysAloneStep, EssentialStep
<1>3. Spec => [](TypeInv /\ InForceInv /\ AlwaysAlone /\ EssentialIcmpFirst)
  BY <1>1, <1>2, TypeInvInit, TypeInvStep, InForceInit, InForceStep, PTL DEF Spec
<1> QED
  BY <1>3, PTL

=============================================================================
