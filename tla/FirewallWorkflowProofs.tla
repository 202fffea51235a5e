------------------------ MODULE FirewallWorkflowProofs ------------------------
(***************************************************************************)
(* Proofs about Firewall while requests come one at a time: it implements   *)
(* the abstract workflow when files can be written, and it ends the         *)
(* connections that its rules refuse when conntrack does.                   *)
(***************************************************************************)
EXTENDS FirewallProofs, FirewallRefinement

\* No write of a file fails or is cut off.
NoTornFiles == Disturbances \cap {"write", "crash", "reboot"} = {}

PrepareSteps == {"readApplied", "backupT", "backupW"}
CommandSteps == {"exists", "create", "check", "insert", "flush", "remove", "recheck",
                 "reinsert", "build", "append", "appliedT"}
WriteSteps == {"editW", "backupW", "appliedW", "configW"}

\* The configuration c results from an edit of the configuration d.
EditOf(c, d) ==
    \/ \E rule \in Rules : c = AddRule(d, rule)
    \/ \E kind \in {"published", "network", "input"} :
         \E i \in DOMAIN d[kind] : c = DeleteAt(d, kind, i)

\* An apply or a disable whose target is the draft with the flag set.
FromDraft(j, d) ==
    /\ j.op \in {"apply", "disable"} /\ ~j.undo
    /\ \E enabled \in BOOLEAN : j.target = [ReadConfig(d) EXCEPT !.enabled = enabled]

\* The backup is the configuration in force, which the target is to replace.
Commits(j, d, a, b) ==
    /\ FromDraft(j, d)
    /\ j.previous = ReadConfig(a)
    /\ b = j.previous

\* The target is the backup: of a rollback, or of an apply that has failed.
Restores(j, b) ==
    /\ j.op = "rollback" \/ j.undo
    /\ b = j.target

\* What a request with the job j that is at a step knows of the three files.
WorkflowFor(step, j, d, a, b) ==
    /\ step = "editT" => EditOf(j.target, ReadConfig(d))
    /\ step \in {"editW", "configW"} => d = Missing
    /\ step \in PrepareSteps => FromDraft(j, d)
    /\ step \in {"backupT", "backupW"} => j.previous = ReadConfig(a)
    /\ step = "backupW" => b = Missing
    /\ step \in CommandSteps => Commits(j, d, a, b) \/ Restores(j, b)
    /\ step = "appliedW" => a = Missing
    /\ step = "configT" => a = j.target

WorkflowInv == \A r \in Requests : WorkflowFor(pc[r], job[r], draft, applied, backup)

-----------------------------------------------------------------------------
\* What the three files stand for, when r is the only request.
LEMMA ViewOfOne ==
    ASSUME Serial, NEW r \in Requests
    PROVE  /\ TheDraft = IF pc[r] \in {"editW", "configW"} THEN job[r].target ELSE ReadConfig(draft)
           /\ TheApplied = IF pc[r] = "appliedW" THEN job[r].target ELSE ReadConfig(applied)
           /\ TheSnapshot = IF pc[r] = "backupW" THEN job[r].previous ELSE backup
<1>1. \A steps : WritingAt(steps) = IF pc[r] \in steps THEN {r} ELSE {}
  BY DEF Serial, WritingAt
<1>2. r = CHOOSE x \in {r} : TRUE
  OBVIOUS
<1> QED
  BY <1>1, <1>2 DEF TheDraft, TheApplied, TheSnapshot, Target

LEMMA ViewOfOneAfter ==
    ASSUME Serial, NEW r \in Requests
    PROVE  /\ TheDraft' = IF pc'[r] \in {"editW", "configW"} THEN job'[r].target ELSE ReadConfig(draft')
           /\ TheApplied' = IF pc'[r] = "appliedW" THEN job'[r].target ELSE ReadConfig(applied')
           /\ TheSnapshot' = IF pc'[r] = "backupW" THEN job'[r].previous ELSE backup'
<1>1. \A steps : WritingAt(steps)' = IF pc'[r] \in steps THEN {r} ELSE {}
  BY DEF Serial, WritingAt
<1>2. r = CHOOSE x \in {r} : TRUE
  OBVIOUS
<1> QED
  BY <1>1, <1>2 DEF TheDraft, TheApplied, TheSnapshot, Target, ReadConfig

\* A state says what it says in terms of its locals and its files.
LEMMA WorkflowAfter ==
    ASSUME \A s \in Requests : WorkflowFor(pc'[s], job'[s], draft', applied', backup')
    PROVE  WorkflowInv'
BY DEF WorkflowInv, WorkflowFor, EditOf, FromDraft, Commits, Restores, ReadConfig

\* The workflow, step by step, over the files it stands for.
LEMMA EditStep ==
    ASSUME EditOf(TheDraft', TheDraft), UNCHANGED <<TheApplied, TheSnapshot>>
    PROVE  Workflow!Next
<1>1. /\ \A d, rule : Workflow!AddRule(d, rule) = AddRule(d, rule)
      /\ \A d, kind, i : Workflow!DeleteAt(d, kind, i) = DeleteAt(d, kind, i)
  BY DEF Workflow!AddRule, AddRule, Workflow!DeleteAt, DeleteAt, Workflow!RemoveAt, RemoveAt
<1> QED
  BY <1>1 DEF EditOf, Workflow!Next, Workflow!Edit

LEMMA SnapshotStep ==
    ASSUME TheSnapshot' = TheApplied, UNCHANGED <<TheDraft, TheApplied>>
    PROVE  Workflow!Next
BY DEF Workflow!Next, Workflow!Snapshot

LEMMA CommitStep ==
    ASSUME TheSnapshot = TheApplied, NEW enabled \in BOOLEAN,
           TheApplied' = [TheDraft EXCEPT !.enabled = enabled],
           UNCHANGED <<TheDraft, TheSnapshot>>
    PROVE  Workflow!Next
BY DEF Workflow!Next, Workflow!Commit

LEMMA RestoreStep ==
    ASSUME TheSnapshot # Missing, TheApplied' = TheSnapshot, UNCHANGED <<TheDraft, TheSnapshot>>
    PROVE  Workflow!Next
BY DEF Workflow!Next, Workflow!Restore

LEMMA SettleStep ==
    ASSUME TheDraft' = TheApplied, UNCHANGED <<TheApplied, TheSnapshot>>
    PROVE  Workflow!Next
BY DEF Workflow!Next, Workflow!Settle

-----------------------------------------------------------------------------
\* A step keeps the invariant, and is a step of the workflow or none.
Follows ==
    /\ WorkflowInv'
    /\ [Workflow!Next]_<<TheDraft, TheApplied, TheSnapshot>>

LEMMA ReadWritten ==
    /\ \A c \in Config : ReadConfig(c) = c
    /\ \A c : Written(Missing, c) = {c}
BY FilesAssumption DEF ReadConfig, NoConfig, Written


\* A step that leaves the files alone, before and after which nothing is being
\* written.
LEMMA Unwritten ==
    ASSUME Serial, NEW r \in Requests, UNCHANGED files,
           pc[r] \notin WriteSteps, pc'[r] \notin WriteSteps,
           WorkflowFor(pc'[r], job'[r], draft, applied, backup)
    PROVE  Follows
<1>1. WorkflowInv'
  BY WorkflowAfter DEF Serial, files
<1>2. UNCHANGED <<TheDraft, TheApplied, TheSnapshot>>
  BY ViewOfOne, ViewOfOneAfter DEF files, WriteSteps
<1> QED
  BY <1>1, <1>2 DEF Follows

\* The request is over.
LEMMA OverFollows ==
    ASSUME Serial, LocalsOK, NEW r \in Requests, UNCHANGED files,
           pc[r] \notin WriteSteps, Answer(r)
    PROVE  Follows
<1>1. pc'[r] = "idle"
  BY GotoLocals DEF Answer
<1>2. WorkflowFor(pc'[r], job'[r], draft, applied, backup)
  BY <1>1 DEF WorkflowFor, PrepareSteps, CommandSteps
<1> QED
  BY <1>1, <1>2, Unwritten DEF WriteSteps

\* An apply that fails goes on to restore its backup.
LEMMA ThrowFollows ==
    ASSUME Serial, LocalsOK, WorkflowInv, NEW r \in Requests, UNCHANGED files,
           pc[r] \in CommandSteps, Throw(r)
    PROVE  Follows
<1>1. pc[r] \notin WriteSteps
  BY DEF CommandSteps, WriteSteps
<1>2. CASE ~(job[r].op = "apply" /\ ~job[r].undo)
  BY <1>1, <1>2, OverFollows DEF Throw, Finish
<1>3. CASE job[r].op = "apply" /\ ~job[r].undo
  <2>1. pc'[r] = "exists"
    BY <1>3, GotoLocals DEF Throw
  <2>2. job[r] \in Job /\ job'[r] = [job[r] EXCEPT !.target = job[r].previous, !.undo = TRUE]
    BY <1>3 DEF Throw, LocalsOK
  <2>3. job'[r].undo /\ job'[r].target = job[r].previous
    BY <2>2 DEF Job
  <2>4. backup = job[r].previous
    BY <1>3 DEF WorkflowInv, WorkflowFor, Commits, Restores
  <2>5. WorkflowFor(pc'[r], job'[r], draft, applied, backup)
    BY <2>1, <2>3, <2>4 DEF WorkflowFor, Restores, PrepareSteps, CommandSteps
  <2> QED
    BY <1>1, <2>1, <2>5, Unwritten DEF WriteSteps
<1> QED
  BY <1>2, <1>3

\* A request goes on with render(), or is done with it.
LEMMA CommandFollows ==
    ASSUME Serial, WorkflowInv, NEW r \in Requests, UNCHANGED <<files, job>>,
           pc[r] \in CommandSteps, pc'[r] \in CommandSteps
    PROVE  Follows
<1>1. WorkflowFor(pc'[r], job'[r], draft, applied, backup)
  BY DEF WorkflowInv, WorkflowFor, CommandSteps, PrepareSteps
<1> QED
  BY <1>1, Unwritten DEF WriteSteps, CommandSteps

LEMMA NextHookFollows ==
    ASSUME Serial, LocalsOK, WorkflowInv, NEW r \in Requests, UNCHANGED <<files, job>>,
           NEW again \in CommandSteps, NEW after \in CommandSteps,
           pc[r] \in CommandSteps, NextHook(r, again, after)
    PROVE  Follows
<1>1. pc'[r] \in CommandSteps
  BY GotoLocals DEF NextHook
<1> QED
  BY <1>1, CommandFollows

-----------------------------------------------------------------------------
LEMMA StartFollows ==
    ASSUME Serial, TypeInv, WorkflowInv, NEW r \in Requests, Start(r)
    PROVE  Follows
<1>1. LocalsOK /\ FilesOK
  BY TypeInvParts
<1>2. pc[r] = "idle" /\ UNCHANGED files
  BY DEF Start, StartAdd, StartDelete, StartChange, StartRollback
<1>3. SUFFICES pc'[r] \notin WriteSteps /\ WorkflowFor(pc'[r], job'[r], draft, applied, backup)
  BY <1>2, Unwritten DEF WriteSteps
<1>4. CASE StartAdd(r) \/ StartDelete(r)
  <2>1. pc'[r] = "editT"
    BY <1>1, <1>4, GotoLocals DEF StartAdd, StartDelete
  <2>2. EditOf(job'[r].target, ReadConfig(draft))
    <3>1. CASE StartAdd(r)
      <4>1. PICK rule \in Rules :
              job' = [job EXCEPT ![r] = [NoJob EXCEPT !.op = "edit",
                                         !.target = AddRule(ReadConfig(draft), rule)]]
        BY <3>1 DEF StartAdd
      <4>2. job'[r].target = AddRule(ReadConfig(draft), rule)
        BY <1>1, <4>1 DEF LocalsOK, NoJob
      <4> QED
        BY <4>2 DEF EditOf
    <3>2. CASE StartDelete(r)
      <4>1. PICK kind \in {"published", "network", "input"} :
              \E i \in DOMAIN ReadConfig(draft)[kind] :
                job' = [job EXCEPT ![r] = [NoJob EXCEPT !.op = "edit",
                                           !.target = DeleteAt(ReadConfig(draft), kind, i)]]
        BY <3>2 DEF StartDelete
      <4>2. PICK i \in DOMAIN ReadConfig(draft)[kind] :
              job' = [job EXCEPT ![r] = [NoJob EXCEPT !.op = "edit",
                                         !.target = DeleteAt(ReadConfig(draft), kind, i)]]
        BY <4>1
      <4>3. job'[r].target = DeleteAt(ReadConfig(draft), kind, i)
        BY <1>1, <4>2 DEF LocalsOK, NoJob
      <4> QED
        BY <4>3 DEF EditOf
    <3> QED
      BY <1>4, <3>1, <3>2
  <2> QED
    BY <2>1, <2>2 DEF WorkflowFor, WriteSteps, PrepareSteps, CommandSteps
<1>5. ASSUME NEW op \in {"apply", "disable"}, StartChange(r, op)
      PROVE  pc'[r] \notin WriteSteps /\ WorkflowFor(pc'[r], job'[r], draft, applied, backup)
  <2>1. pc'[r] = "readApplied"
    BY <1>1, <1>5, GotoLocals DEF StartChange
  <2>2. PICK flag \in BOOLEAN : flag = (op = "apply")
    OBVIOUS
  <2> DEFINE target == [ReadConfig(draft) EXCEPT !.enabled = flag]
  <2>3. job' = [job EXCEPT ![r] = [NoJob EXCEPT !.op = op, !.target = target]]
    BY <1>5, <2>2 DEF StartChange
  <2> HIDE DEF target
  <2>4. job'[r].op = op /\ ~job'[r].undo /\ job'[r].target = target
    BY <1>1, <2>3 DEF LocalsOK, NoJob
  <2>5. FromDraft(job'[r], draft)
    BY <2>4 DEF FromDraft, target
  <2> QED
    BY <2>1, <2>5 DEF WorkflowFor, WriteSteps, PrepareSteps, CommandSteps
<1>6. CASE StartRollback(r)
  <2> DEFINE j == [NoJob EXCEPT !.op = "rollback", !.target = backup]
  <2>1. pc'[r] = "exists" /\ job'[r] = j
    BY <1>1, <1>6, GotoLocals DEF StartRollback, StartRender, LocalsOK
  <2>2. j.op = "rollback" /\ j.target = backup
    BY DEF NoJob
  <2> HIDE DEF j
  <2>3. Restores(job'[r], backup)
    BY <2>1, <2>2 DEF Restores
  <2> QED
    BY <2>1, <2>3 DEF WorkflowFor, WriteSteps, PrepareSteps, CommandSteps
<1> QED
  BY <1>4, <1>5, <1>6 DEF Start

LEMMA EditFollows ==
    ASSUME Serial, TypeInv, WorkflowInv, NEW r \in Requests,
           EditTruncate(r) \/ EditWrite(r)
    PROVE  Follows
<1>1. LocalsOK
  BY TypeInvParts
<1>2. job[r].target \in Config
  BY <1>1, JobConfigs
<1>3. WorkflowFor(pc[r], job[r], draft, applied, backup)
  BY DEF WorkflowInv
<1>4. CASE EditTruncate(r)
  <2>1. pc[r] = "editT" /\ pc'[r] = "editW" /\ draft' = Missing
        /\ UNCHANGED <<applied, backup, job>>
    BY <1>1, <1>4, GotoLocals DEF EditTruncate
  <2>2. WorkflowFor(pc'[r], job'[r], draft', applied', backup')
    BY <2>1 DEF WorkflowFor, PrepareSteps, CommandSteps
  <2>3. TheDraft = ReadConfig(draft) /\ TheDraft' = job[r].target
        /\ UNCHANGED <<TheApplied, TheSnapshot>>
    BY <2>1, ViewOfOne, ViewOfOneAfter
  <2>4. EditOf(TheDraft', TheDraft)
    BY <1>3, <2>1, <2>3 DEF WorkflowFor
  <2>5. Workflow!Next
    BY <2>3, <2>4, EditStep
  <2> QED
    BY <2>2, <2>5, WorkflowAfter DEF Serial, Follows
<1>5. CASE EditWrite(r)
  <2>1. pc[r] = "editW" /\ pc'[r] = "idle" /\ UNCHANGED <<applied, backup>>
    BY <1>1, <1>5, GotoLocals DEF EditWrite, Answer
  <2>2. draft = Missing
    BY <1>3, <2>1 DEF WorkflowFor
  <2>3. draft' = job[r].target
    BY <1>5, <2>2, ReadWritten DEF EditWrite
  <2>4. WorkflowFor(pc'[r], job'[r], draft', applied', backup')
    BY <2>1 DEF WorkflowFor, PrepareSteps, CommandSteps
  <2>5. UNCHANGED <<TheDraft, TheApplied, TheSnapshot>>
    BY <1>2, <2>1, <2>3, ViewOfOne, ViewOfOneAfter, ReadWritten
  <2> QED
    BY <2>4, <2>5, WorkflowAfter DEF Serial, Follows
<1> QED
  BY <1>4, <1>5

LEMMA BackupFollows ==
    ASSUME Serial, TypeInv, WorkflowInv, NEW r \in Requests,
           ReadApplied(r) \/ BackupTruncate(r) \/ BackupWrite(r)
    PROVE  Follows
<1>1. LocalsOK
  BY TypeInvParts
<1>2. job[r] \in Job /\ job[r].previous \in Config
  BY <1>1, JobConfigs
<1>3. WorkflowFor(pc[r], job[r], draft, applied, backup)
  BY DEF WorkflowInv
<1>4. CASE ReadApplied(r)
  <2>1. pc[r] = "readApplied" /\ pc'[r] = "backupT" /\ UNCHANGED files
    BY <1>1, <1>4, GotoLocals DEF ReadApplied
  <2>2. job'[r] = [job[r] EXCEPT !.previous = ReadConfig(applied)]
    BY <1>1, <1>4 DEF ReadApplied, LocalsOK
  <2>3. /\ job'[r].op = job[r].op /\ job'[r].undo = job[r].undo
        /\ job'[r].target = job[r].target /\ job'[r].previous = ReadConfig(applied)
    BY <1>2, <2>2 DEF Job
  <2>4. FromDraft(job[r], draft)
    BY <1>3, <2>1 DEF WorkflowFor, PrepareSteps
  <2>5. FromDraft(job'[r], draft)
    BY <2>3, <2>4 DEF FromDraft
  <2>6. WorkflowFor(pc'[r], job'[r], draft, applied, backup)
    BY <2>1, <2>3, <2>5 DEF WorkflowFor, CommandSteps
  <2> QED
    BY <2>1, <2>6, Unwritten DEF WriteSteps
<1>5. CASE BackupTruncate(r)
  <2>1. pc[r] = "backupT" /\ pc'[r] = "backupW" /\ backup' = Missing
        /\ UNCHANGED <<draft, applied, job>>
    BY <1>1, <1>5, GotoLocals DEF BackupTruncate
  <2>2. WorkflowFor(pc'[r], job'[r], draft', applied', backup')
    BY <1>3, <2>1 DEF WorkflowFor, PrepareSteps, CommandSteps
  <2>3. TheSnapshot' = job[r].previous /\ UNCHANGED <<TheDraft, TheApplied>>
        /\ TheApplied = ReadConfig(applied)
    BY <2>1, ViewOfOne, ViewOfOneAfter
  <2>4. Workflow!Next
    BY <1>3, <2>1, <2>3, SnapshotStep DEF WorkflowFor
  <2> QED
    BY <2>2, <2>4, WorkflowAfter DEF Serial, Follows
<1>6. CASE BackupWrite(r)
  <2>1. pc[r] = "backupW" /\ pc'[r] = "exists" /\ job'[r] = job[r]
        /\ UNCHANGED <<draft, applied>>
    BY <1>1, <1>6, GotoLocals DEF BackupWrite, StartRender, LocalsOK
  <2>2. backup = Missing
    BY <1>3, <2>1 DEF WorkflowFor
  <2>3. backup' = job[r].previous
    BY <1>6, <2>2, ReadWritten DEF BackupWrite
  <2>4. Commits(job'[r], draft', applied', backup')
    BY <1>3, <2>1, <2>3 DEF WorkflowFor, PrepareSteps, Commits
  <2>5. WorkflowFor(pc'[r], job'[r], draft', applied', backup')
    BY <2>1, <2>4 DEF WorkflowFor, PrepareSteps, CommandSteps
  <2>6. UNCHANGED <<TheDraft, TheApplied, TheSnapshot>>
    BY <2>1, <2>3, ViewOfOne, ViewOfOneAfter
  <2> QED
    BY <2>5, <2>6, WorkflowAfter DEF Serial, Follows
<1> QED
  BY <1>4, <1>5, <1>6

LEMMA SaveFollows ==
    ASSUME Serial, TypeInv, WorkflowInv, NEW r \in Requests,
           AppliedTruncate(r) \/ AppliedWrite(r) \/ ConfigTruncate(r) \/ ConfigWrite(r)
    PROVE  Follows
<1>1. LocalsOK /\ FilesOK
  BY TypeInvParts
<1>2. job[r].target \in Config /\ job[r].previous \in Config
  BY <1>1, JobConfigs
<1>3. WorkflowFor(pc[r], job[r], draft, applied, backup)
  BY DEF WorkflowInv
<1>4. CASE AppliedTruncate(r)
  <2>1. pc[r] = "appliedT" /\ pc'[r] = "appliedW" /\ applied' = Missing
        /\ UNCHANGED <<draft, backup, job>>
    BY <1>1, <1>4, GotoLocals DEF AppliedTruncate
  <2>2. WorkflowFor(pc'[r], job'[r], draft', applied', backup')
    BY <2>1 DEF WorkflowFor, PrepareSteps, CommandSteps
  <2>3. /\ TheApplied = ReadConfig(applied) /\ TheApplied' = job[r].target
        /\ TheDraft = ReadConfig(draft) /\ TheSnapshot = backup
        /\ UNCHANGED <<TheDraft, TheSnapshot>>
    BY <2>1, ViewOfOne, ViewOfOneAfter
  <2>4. ASSUME Commits(job[r], draft, applied, backup) PROVE Workflow!Next
    <3>1. PICK enabled \in BOOLEAN : job[r].target = [ReadConfig(draft) EXCEPT !.enabled = enabled]
      BY <2>4 DEF Commits, FromDraft
    <3>2. TheSnapshot = TheApplied
      BY <2>3, <2>4 DEF Commits
    <3> QED
      BY <2>3, <3>1, <3>2, CommitStep
  <2>5. ASSUME Restores(job[r], backup) PROVE Workflow!Next
    <3>1. TheSnapshot # Missing
      BY <1>2, <2>3, <2>5, FilesAssumption DEF Restores
    <3> QED
      BY <2>3, <2>5, <3>1, RestoreStep DEF Restores
  <2>6. Workflow!Next
    BY <1>3, <2>1, <2>4, <2>5 DEF WorkflowFor, CommandSteps
  <2> QED
    BY <2>2, <2>6, WorkflowAfter DEF Serial, Follows
<1>5. CASE AppliedWrite(r)
  <2>1. pc[r] = "appliedW" /\ UNCHANGED <<draft, backup>>
    BY <1>5 DEF AppliedWrite
  <2>2. applied' = job[r].target
    BY <1>3, <1>5, <2>1, ReadWritten DEF AppliedWrite, WorkflowFor
  <2>3. pc'[r] = "idle" \/ (pc'[r] = "configT" /\ job' = job)
    BY <1>1, <1>5, GotoLocals DEF AppliedWrite, Finish, Answer
  <2>4. WorkflowFor(pc'[r], job'[r], draft', applied', backup')
    BY <2>2, <2>3 DEF WorkflowFor, PrepareSteps, CommandSteps
  <2>5. UNCHANGED <<TheDraft, TheApplied, TheSnapshot>>
    BY <1>2, <2>1, <2>2, <2>3, ViewOfOne, ViewOfOneAfter, ReadWritten
  <2> QED
    BY <2>4, <2>5, WorkflowAfter DEF Serial, Follows
<1>6. CASE ConfigTruncate(r)
  <2>1. pc[r] = "configT" /\ pc'[r] = "configW" /\ draft' = Missing
        /\ UNCHANGED <<applied, backup, job>>
    BY <1>1, <1>6, GotoLocals DEF ConfigTruncate
  <2>2. WorkflowFor(pc'[r], job'[r], draft', applied', backup')
    BY <2>1 DEF WorkflowFor, PrepareSteps, CommandSteps
  <2>3. TheDraft' = job[r].target /\ TheApplied = ReadConfig(applied)
        /\ UNCHANGED <<TheApplied, TheSnapshot>>
    BY <2>1, ViewOfOne, ViewOfOneAfter
  <2>4. ReadConfig(applied) = job[r].target
    BY <1>2, <1>3, <2>1, ReadWritten DEF WorkflowFor
  <2>5. Workflow!Next
    BY <2>3, <2>4, SettleStep
  <2> QED
    BY <2>2, <2>5, WorkflowAfter DEF Serial, Follows
<1>7. CASE ConfigWrite(r)
  <2>1. pc[r] = "configW" /\ UNCHANGED <<applied, backup>>
    BY <1>7 DEF ConfigWrite
  <2>2. draft' = job[r].target
    BY <1>3, <1>7, <2>1, ReadWritten DEF ConfigWrite, WorkflowFor
  <2>3. pc'[r] = "idle" \/ pc'[r] = "terminate"
    BY <1>1, <1>7, GotoLocals DEF ConfigWrite, Finish, Answer
  <2>4. WorkflowFor(pc'[r], job'[r], draft', applied', backup')
    BY <2>3 DEF WorkflowFor, PrepareSteps, CommandSteps
  <2>5. UNCHANGED <<TheDraft, TheApplied, TheSnapshot>>
    BY <1>2, <2>1, <2>2, <2>3, ViewOfOne, ViewOfOneAfter, ReadWritten
  <2> QED
    BY <2>4, <2>5, WorkflowAfter DEF Serial, Follows
<1> QED
  BY <1>4, <1>5, <1>6, <1>7

LEMMA RenderFollows ==
    ASSUME Serial, TypeInv, WorkflowInv, NEW r \in Requests,
           \/ ChainExists(r) \/ ChainCreate(r) \/ JumpCheck(r) \/ JumpInsert(r) \/ Flush(r)
           \/ JumpRemove(r) \/ JumpRecheck(r) \/ JumpReinsert(r) \/ Build(r) \/ AppendRule(r)
           \/ Terminate(r)
    PROVE  Follows
<1>1. LocalsOK
  BY TypeInvParts
<1>2. UNCHANGED files
  BY DEF ChainExists, ChainCreate, JumpCheck, JumpInsert, Flush, JumpRemove, JumpRecheck,
         JumpReinsert, Build, AppendRule, Terminate
<1>3. ASSUME NEW step \in CommandSteps, NEW h, Goto(r, step, h)
      PROVE  pc'[r] \in CommandSteps
  BY <1>1, <1>3, GotoLocals
<1>4. CASE Terminate(r)
  BY <1>1, <1>2, <1>4, OverFollows DEF Terminate, Finish, WriteSteps
<1>5. CASE ChainExists(r) \/ ChainCreate(r) \/ Build(r)
  <2>1. pc[r] \in CommandSteps
    BY <1>5 DEF ChainExists, ChainCreate, Build, CommandSteps
  <2>2. Throw(r) \/ (pc'[r] \in CommandSteps /\ UNCHANGED job)
    BY <1>3, <1>5 DEF ChainExists, ChainCreate, Build, CommandSteps
  <2> QED
    BY <1>1, <1>2, <2>1, <2>2, ThrowFollows, CommandFollows
<1>6. CASE JumpCheck(r) \/ JumpRecheck(r)
  <2>1. pc[r] \in CommandSteps /\ UNCHANGED job
    BY <1>6 DEF JumpCheck, JumpRecheck, CommandSteps
  <2>2. \/ pc'[r] \in CommandSteps
        \/ \E again, after \in CommandSteps : NextHook(r, again, after)
    BY <1>3, <1>6 DEF JumpCheck, JumpRecheck, CommandSteps
  <2> QED
    BY <1>1, <1>2, <2>1, <2>2, NextHookFollows, CommandFollows
<1>7. CASE JumpInsert(r) \/ JumpReinsert(r) \/ Flush(r)
  <2>1. pc[r] \in CommandSteps /\ UNCHANGED job
    BY <1>7 DEF JumpInsert, JumpReinsert, Flush, CommandSteps
  <2>2. \E again, after \in CommandSteps : NextHook(r, again, after)
    BY <1>7 DEF JumpInsert, JumpReinsert, Flush, CommandSteps
  <2> QED
    BY <1>1, <1>2, <2>1, <2>2, NextHookFollows
<1>8. CASE JumpRemove(r) \/ AppendRule(r)
  <2>1. pc[r] \in CommandSteps /\ UNCHANGED job
    BY <1>8 DEF JumpRemove, AppendRule, CommandSteps
  <2>2. \/ UNCHANGED pc
        \/ \E again, after \in CommandSteps : NextHook(r, again, after)
    BY <1>8 DEF JumpRemove, AppendRule, CommandSteps, control
  <2> QED
    BY <1>1, <1>2, <2>1, <2>2, NextHookFollows, CommandFollows
<1> QED
  BY <1>4, <1>5, <1>6, <1>7, <1>8

LEMMA FaultFollows ==
    ASSUME Serial, NoTornFiles, TypeInv, WorkflowInv, NEW r \in Requests, Fault(r)
    PROVE  Follows
<1>1. LocalsOK
  BY TypeInvParts
<1>2. CASE CommandFails(r) \/ DockerFails(r)
  <2>1. pc[r] \in CommandSteps /\ Throw(r) /\ UNCHANGED files
    BY <1>2 DEF CommandFails, DockerFails, CommandSteps
  <2> QED
    BY <1>1, <2>1, ThrowFollows
<1>3. CASE QueryFails(r)
  <2>1. pc[r] \in CommandSteps /\ UNCHANGED <<files, job>>
    BY <1>3 DEF QueryFails, CommandSteps
  <2>2. \/ \E step \in CommandSteps : \E h : Goto(r, step, h)
        \/ \E again, after \in CommandSteps : NextHook(r, again, after)
    BY <1>3 DEF QueryFails, CommandSteps
  <2>3. ASSUME NEW step \in CommandSteps, NEW h, Goto(r, step, h)
        PROVE  pc'[r] \in CommandSteps
    BY <1>1, <2>3, GotoLocals
  <2> QED
    BY <1>1, <2>1, <2>2, <2>3, NextHookFollows, CommandFollows
<1>4. ~SaveFails(r)
  BY DEF SaveFails, Disturb, NoTornFiles
<1>5. CASE ConntrackFails(r)
  BY <1>1, <1>5, OverFollows DEF ConntrackFails, Finish, WriteSteps
<1> QED
  BY <1>2, <1>3, <1>4, <1>5 DEF Fault

LEMMA WorkflowStep ==
    ASSUME Serial, NoTornFiles, TypeInv, WorkflowInv, [Next]_vars
    PROVE  Follows
<1>1. ASSUME NEW r \in Requests, Start(r) \/ Continue(r) \/ Fault(r)
      PROVE  Follows
  BY <1>1, StartFollows, EditFollows, BackupFollows, SaveFollows, RenderFollows, FaultFollows
  DEF Continue
<1>2. CASE Environment \/ UNCHANGED vars
  <2>1. UNCHANGED <<files, pc, job>>
    BY <1>2 DEF Environment, Crash, Reboot, ForeignInsert, RemoveNetwork, OpenFlow, CloseFlow,
                Disturb, NoTornFiles, vars, control
  <2>2. WorkflowInv'
    BY <2>1, WorkflowAfter DEF WorkflowInv, files
  <2>3. UNCHANGED <<TheDraft, TheApplied, TheSnapshot>>
    BY <2>1 DEF TheDraft, TheApplied, TheSnapshot, WritingAt, Target, ReadConfig, files
  <2> QED
    BY <2>2, <2>3 DEF Follows
<1> QED
  BY <1>1, <1>2 DEF Next

\* When requests come one at a time and no write is cut off, the service
\* follows the apply / rollback workflow over whole configurations: whatever
\* commands, rules and Docker calls fail, and although each file is truncated
\* before it is written and an apply may have to restore what it replaced.
\* (Lines 492-563 and the edits of lines 266-381.)
THEOREM WorkflowCorrect ==
    ASSUME Serial, NoTornFiles
    PROVE  Spec => ImplementsWorkflow
<1>1. Init => WorkflowInv /\ Workflow!Init
  <2> SUFFICES ASSUME Init PROVE WorkflowInv /\ Workflow!Init
    OBVIOUS
  <2>1. \A r \in Requests : pc[r] = "idle"
    BY DEF Init
  <2>2. WorkflowInv
    BY <2>1 DEF WorkflowInv, WorkflowFor, PrepareSteps, CommandSteps
  <2>3. TheDraft = EmptyConfig /\ TheApplied = EmptyConfig /\ TheSnapshot = Missing
    <3>1. \A steps : "idle" \notin steps => WritingAt(steps) = {}
      BY <2>1 DEF WritingAt
    <3> QED
      BY <3>1 DEF Init, TheDraft, TheApplied, TheSnapshot, ReadConfig, NoConfig
  <2>4. Workflow!EmptyConfig = EmptyConfig
    BY DEF Workflow!EmptyConfig, EmptyConfig
  <2> QED
    BY <2>2, <2>3, <2>4 DEF Workflow!Init
<1>2. TypeInv /\ WorkflowInv /\ [Next]_vars
        => WorkflowInv' /\ [Workflow!Next]_(Workflow!vars)
  BY WorkflowStep DEF Follows, Workflow!vars
<1> QED
  BY <1>1, <1>2, TypeInvInit, TypeInvStep, PTL DEF Spec, ImplementsWorkflow, Workflow!Spec

-----------------------------------------------------------------------------
(***************************************************************************)
(* RefusedFlowsEnded. The rules that a flow meets in its chain are those of *)
(* two lists, of which conntrack is told one: so the lists have to be kept  *)
(* apart. And a disable must not have been asked to enable anything.       *)
(***************************************************************************)
ConntrackWorks == "conntrack" \notin Disturbances

\* No published-port rule is in the list of network rules.
Unpublished == {rule \in Rules : Kind[rule] # "published"}
ListsApart(c) == c.network \in Seq(Unpublished)

JobApart(j) ==
    /\ ListsApart(j.target) /\ ListsApart(j.previous)
    /\ j.op = "disable" => ~j.target.enabled

Apart ==
    /\ ListsApart(ReadConfig(draft))
    /\ ListsApart(ReadConfig(applied))
    /\ ListsApart(ReadConfig(backup))
    /\ \A r \in Requests : JobApart(job[r])

LEMMA EmptyApart ==
    /\ ListsApart(EmptyConfig)
    /\ JobApart(NoJob)
    /\ \A f \in NoConfig : ListsApart(ReadConfig(f))
<1>1. <<>> \in Seq(Unpublished)
  OBVIOUS
<1> QED
  BY <1>1 DEF ListsApart, EmptyConfig, ReadConfig, JobApart, NoJob

\* An edit of one list, or of another.
LEMMA EditApart ==
    ASSUME NEW d \in Config, ListsApart(d), NEW c, EditOf(c, d)
    PROVE  ListsApart(c)
<1>1. ASSUME NEW rule \in Rules, c = AddRule(d, rule)
      PROVE  ListsApart(c)
  <2>1. Kind[rule] \in {"published", "network", "input"}
    BY RulesAssumption
  <2>2. Kind[rule] = "network" => Append(d.network, rule) \in Seq(Unpublished)
    <3>1. Kind[rule] = "network" => rule \in Unpublished
      BY DEF Unpublished
    <3> QED
      BY <3>1, AppendProperties DEF ListsApart
  <2>3. c.network = IF Kind[rule] = "network" THEN Append(d.network, rule) ELSE d.network
    BY <1>1, <2>1 DEF AddRule, Config
  <2> QED
    BY <2>2, <2>3 DEF ListsApart
<1>2. ASSUME NEW kind \in {"published", "network", "input"}, NEW i \in DOMAIN d[kind],
             c = DeleteAt(d, kind, i)
      PROVE  ListsApart(c)
  <2>1. kind = "network" => RemoveAt(d.network, i) \in Seq(Unpublished)
    BY RemoveAtType DEF ListsApart
  <2>2. c.network = IF kind = "network" THEN RemoveAt(d.network, i) ELSE d.network
    BY <1>2 DEF DeleteAt, Config
  <2> QED
    BY <2>1, <2>2 DEF ListsApart
<1> QED
  BY <1>1, <1>2 DEF EditOf

LEMMA FlagApart ==
    ASSUME NEW d \in Config, ListsApart(d), NEW enabled \in BOOLEAN
    PROVE  /\ ListsApart([d EXCEPT !.enabled = enabled])
           /\ [d EXCEPT !.enabled = enabled].enabled = enabled
BY DEF ListsApart, Config

LEMMA WrittenApart ==
    ASSUME NEW c, c \in Config \/ c \in NoConfig, ListsApart(ReadConfig(c)), NEW f, NEW g \in Written(f, c)
    PROVE  ListsApart(ReadConfig(g))
BY EmptyApart DEF Written, ReadConfig, NoConfig

\* Where what is saved comes from.
LEMMA SavedFrom ==
    ASSUME TypeInv, NEW r \in Requests, Start(r) \/ Continue(r) \/ Fault(r)
    PROVE  /\ draft' \in {draft, job[r].target} \cup NoConfig
           /\ applied' \in {applied, job[r].target} \cup NoConfig
           /\ backup' \in {backup, job[r].previous} \cup NoConfig
<1> USE DEF files, NoConfig
<1>1. CASE Start(r)
  BY <1>1 DEF Start, StartAdd, StartDelete, StartChange, StartRollback
<1>2. CASE Continue(r)
  BY <1>2
  DEF Continue, ReadApplied, EditTruncate, EditWrite, BackupTruncate, BackupWrite,
      ChainExists, ChainCreate, JumpCheck, JumpInsert, Flush, JumpRemove, JumpRecheck,
      JumpReinsert, Build, AppendRule, AppliedTruncate, AppliedWrite, ConfigTruncate,
      ConfigWrite, Terminate, Written
<1>3. CASE Fault(r)
  BY <1>3 DEF Fault, CommandFails, QueryFails, DockerFails, SaveFails, ConntrackFails
<1> QED
  BY <1>1, <1>2, <1>3

\* What a request goes on with.
LEMMA JobFrom ==
    ASSUME LocalsOK, NEW r \in Requests, Continue(r) \/ Fault(r)
    PROVE  /\ \A s \in Requests \ {r} : job'[s] = job[s]
           /\ \/ job'[r] = job[r]
              \/ job'[r] = NoJob
              \/ /\ job'[r].op = job[r].op
                 /\ job'[r].target = job[r].target
                 /\ job'[r].previous = ReadConfig(applied)
              \/ /\ job[r].op = "apply" /\ job'[r].op = "apply"
                 /\ job'[r].target = job[r].previous
                 /\ job'[r].previous = job[r].previous
<1>1. job[r] \in Job
  BY DEF LocalsOK
<1>2. ASSUME Answer(r) \/ \E result : Finish(r, result)
      PROVE  job'[r] = NoJob /\ \A s \in Requests \ {r} : job'[s] = job[s]
  BY <1>2 DEF Answer, Finish, LocalsOK
<1>3. ASSUME Throw(r)
      PROVE  /\ \A s \in Requests \ {r} : job'[s] = job[s]
             /\ \/ job'[r] = NoJob
                \/ /\ job[r].op = "apply" /\ job'[r].op = "apply"
                   /\ job'[r].target = job[r].previous
                   /\ job'[r].previous = job[r].previous
  <2>1. CASE job[r].op = "apply" /\ ~job[r].undo
    <3> DEFINE j == [job[r] EXCEPT !.target = job[r].previous, !.undo = TRUE]
    <3>1. job' = [job EXCEPT ![r] = j]
      BY <1>3, <2>1 DEF Throw
    <3>2. j.op = "apply" /\ j.target = job[r].previous /\ j.previous = job[r].previous
      BY <1>1, <2>1 DEF Job
    <3> HIDE DEF j
    <3> QED
      BY <2>1, <3>1, <3>2 DEF LocalsOK
  <2>2. CASE ~(job[r].op = "apply" /\ ~job[r].undo)
    BY <1>2, <1>3, <2>2 DEF Throw
  <2> QED
    BY <2>1, <2>2
<1>4. CASE ReadApplied(r)
  <2> DEFINE j == [job[r] EXCEPT !.previous = ReadConfig(applied)]
  <2>1. job' = [job EXCEPT ![r] = j]
    BY <1>4 DEF ReadApplied
  <2>2. j.op = job[r].op /\ j.target = job[r].target /\ j.previous = ReadConfig(applied)
    BY <1>1 DEF Job
  <2> HIDE DEF j
  <2> QED
    BY <2>1, <2>2 DEF LocalsOK
<1>5. CASE BackupWrite(r)
  <2>1. job' = [job EXCEPT ![r] = job[r]]
    BY <1>5 DEF BackupWrite, StartRender
  <2> QED
    BY <2>1 DEF LocalsOK
<1>6. CASE Continue(r) /\ ~ReadApplied(r) /\ ~BackupWrite(r)
  <2>1. UNCHANGED job \/ Throw(r) \/ Answer(r) \/ \E result : Finish(r, result)
    BY <1>6
    DEF Continue, EditTruncate, EditWrite, BackupTruncate,
        ChainExists, ChainCreate, JumpCheck, JumpInsert, Flush, JumpRemove, JumpRecheck,
        JumpReinsert, Build, AppendRule, AppliedTruncate, AppliedWrite, ConfigTruncate,
        ConfigWrite, Terminate
  <2> QED
    BY <1>2, <1>3, <2>1
<1>7. CASE Fault(r)
  <2>1. UNCHANGED job \/ Throw(r) \/ Answer(r) \/ \E result : Finish(r, result)
    BY <1>7 DEF Fault, CommandFails, QueryFails, DockerFails, SaveFails, ConntrackFails
  <2> QED
    BY <1>2, <1>3, <2>1
<1> QED
  BY <1>4, <1>5, <1>6, <1>7

LEMMA ApartInit == Init => Apart
BY EmptyApart DEF Init, Apart, NoConfig

LEMMA StartApart ==
    ASSUME TypeInv, Apart, NEW r \in Requests, Start(r)
    PROVE  \A s \in Requests : JobApart(job'[s])
<1>1. LocalsOK /\ FilesOK
  BY TypeInvParts
<1>2. ReadConfig(draft) \in Config /\ ListsApart(ReadConfig(draft))
  BY <1>1, ReadConfigType DEF FilesOK, Apart
<1>3. \A s \in Requests : JobApart(job[s])
  BY DEF Apart
<1>4. ASSUME NEW j, job' = [job EXCEPT ![r] = j], JobApart(j)
      PROVE  \A s \in Requests : JobApart(job'[s])
  BY <1>1, <1>3, <1>4 DEF LocalsOK
<1>5. \A c : ListsApart(c) => JobApart([NoJob EXCEPT !.op = "edit", !.target = c])
  BY EmptyApart DEF JobApart, NoJob
<1>6. CASE StartAdd(r)
  <2>1. PICK rule \in Rules :
          job' = [job EXCEPT ![r] = [NoJob EXCEPT !.op = "edit",
                                     !.target = AddRule(ReadConfig(draft), rule)]]
    BY <1>6 DEF StartAdd
  <2>2. ListsApart(AddRule(ReadConfig(draft), rule))
    BY <1>2, EditApart DEF EditOf
  <2> QED
    BY <1>4, <1>5, <2>1, <2>2
<1>7. CASE StartDelete(r)
  <2>1. PICK kind \in {"published", "network", "input"} :
          \E i \in DOMAIN ReadConfig(draft)[kind] :
            job' = [job EXCEPT ![r] = [NoJob EXCEPT !.op = "edit",
                                       !.target = DeleteAt(ReadConfig(draft), kind, i)]]
    BY <1>7 DEF StartDelete
  <2>2. PICK i \in DOMAIN ReadConfig(draft)[kind] :
          job' = [job EXCEPT ![r] = [NoJob EXCEPT !.op = "edit",
                                     !.target = DeleteAt(ReadConfig(draft), kind, i)]]
    BY <2>1
  <2>3. ListsApart(DeleteAt(ReadConfig(draft), kind, i))
    BY <1>2, EditApart DEF EditOf
  <2> QED
    BY <1>4, <1>5, <2>2, <2>3
<1>8. ASSUME NEW op \in {"apply", "disable"}, StartChange(r, op)
      PROVE  \A s \in Requests : JobApart(job'[s])
  <2>1. PICK flag \in BOOLEAN : flag = (op = "apply")
    OBVIOUS
  <2> DEFINE target == [ReadConfig(draft) EXCEPT !.enabled = flag]
             j == [NoJob EXCEPT !.op = op, !.target = target]
  <2>2. job' = [job EXCEPT ![r] = j]
    BY <1>8, <2>1 DEF StartChange
  <2>3. ListsApart(target) /\ target.enabled = flag
    BY <1>2, FlagApart
  <2> HIDE DEF target
  <2>4. j.op = op /\ j.target = target /\ j.previous = EmptyConfig
    BY DEF NoJob
  <2> HIDE DEF j
  <2>5. JobApart(j)
    BY <2>1, <2>3, <2>4, EmptyApart DEF JobApart
  <2> QED
    BY <1>4, <2>2, <2>5
<1>9. CASE StartRollback(r)
  <2> DEFINE j == [NoJob EXCEPT !.op = "rollback", !.target = backup]
  <2>1. job' = [job EXCEPT ![r] = j] /\ ReadConfig(backup) = backup
    BY <1>9 DEF StartRollback, StartRender, ReadConfig
  <2>2. j.op = "rollback" /\ j.target = backup /\ j.previous = EmptyConfig
    BY DEF NoJob
  <2> HIDE DEF j
  <2>3. JobApart(j)
    BY <2>1, <2>2, EmptyApart DEF JobApart, Apart
  <2> QED
    BY <1>4, <2>1, <2>3
<1> QED
  BY <1>6, <1>7, <1>8, <1>9 DEF Start

LEMMA ApartStep ==
    ASSUME TypeInv, Apart, [Next]_vars
    PROVE  Apart'
<1>1. LocalsOK /\ FilesOK
  BY TypeInvParts
<1>2. ASSUME NEW r \in Requests, Start(r) \/ Continue(r) \/ Fault(r)
      PROVE  Apart'
  <2>1. JobApart(job[r]) /\ job[r].target \in Config /\ job[r].previous \in Config
    BY <1>1, JobConfigs DEF Apart
  <2>2. \A c \in Config : ReadConfig(c) = c
    BY FilesAssumption DEF ReadConfig, NoConfig
  <2>3. /\ ListsApart(ReadConfig(draft'))
        /\ ListsApart(ReadConfig(applied'))
        /\ ListsApart(ReadConfig(backup'))
    BY <1>2, <2>1, <2>2, SavedFrom, EmptyApart DEF Apart, JobApart
  <2>4. \A s \in Requests : JobApart(job'[s])
    <3>1. CASE Start(r)
      BY <3>1, StartApart
    <3>2. CASE Continue(r) \/ Fault(r)
      <4>1. JobApart(job'[r])
        BY <1>1, <2>1, <3>2, JobFrom, EmptyApart DEF Apart, JobApart
      <4>2. \A s \in Requests \ {r} : job'[s] = job[s]
        BY <1>1, <3>2, JobFrom
      <4> QED
        BY <4>1, <4>2 DEF Apart
    <3> QED
      BY <1>2, <3>1, <3>2
  <2> QED
    BY <2>3, <2>4 DEF Apart, ReadConfig, JobApart, ListsApart
<1>3. CASE Environment \/ UNCHANGED vars
  <2>1. UNCHANGED files /\ \A s \in Requests : job'[s] \in {job[s], NoJob}
    BY <1>3 DEF Environment, Crash, Reboot, ForeignInsert, RemoveNetwork, OpenFlow, CloseFlow, vars
  <2> QED
    BY <2>1, EmptyApart DEF Apart, ReadConfig, JobApart, ListsApart, files
<1> QED
  BY <1>2, <1>3 DEF Next

-----------------------------------------------------------------------------
\* A flow that meets a rule which refuses it meets a rule that conntrack is
\* told to end the flows of.
LEMMA RefusedIsTerminated ==
    ASSUME NEW c \in Config, ListsApart(c), NEW f \in Flows, RefusedByPublished(c, f)
    PROVE  FlowRules[f] \cap Terminators(c) # {}
<1> DEFINE h == FlowHook[f]
           list == RuleList(c, h)
<1>1. h \in ForwardHooks /\ FlowRules[f] \subseteq {r \in Rules : Kind[r] = "published"}
  BY FirewallAssumption
<1>2. list = c.published \o c.network /\ list \in Seq(Rules) /\ Len(list) \in Nat
  <2>1. list = c.published \o c.network
    BY <1>1 DEF RuleList
  <2>2. list \in Seq(Rules)
    BY RuleListType
  <2> QED
    BY <2>1, <2>2, LenProperties
<1> HIDE DEF list, h
<1>3. PICK i \in 1..Len(list) : RuleCommands(c, h)[i] \in FlowRules[f] \cap Refusing
  BY <1>2 DEF RefusedByPublished, RefusedBy, RuleCommands, list, h
<1>4. RuleCommands(c, h)[i] = Slot(list[i], h)
  BY DEF RuleCommands, list
<1>5. Slot(list[i], h) # "skip"
  BY <1>1, <1>3, <1>4, RulesAssumption
<1>6. list[i] \in FlowRules[f] \cap Refusing /\ h \in RuleHooks[list[i]]
  BY <1>3, <1>4, <1>5 DEF Slot, Emits
<1>7. list[i] \in Range(c.published)
  <2>1. c.published \in Seq(Rules) /\ c.network \in Seq(Unpublished)
    BY DEF Config, ListsApart
  <2>2. list[i] \notin Unpublished
    BY <1>1, <1>6 DEF Unpublished
  <2>3. c.network \in Seq(Rules) /\ Len(c.published) \in Nat /\ Len(c.network) \in Nat
    BY <2>1, LenProperties DEF Config
  <2>4. /\ Len(list) = Len(c.published) + Len(c.network)
        /\ list[i] = IF i <= Len(c.published) THEN c.published[i]
                     ELSE c.network[i - Len(c.published)]
    BY <1>2, <2>1, <2>3, ConcatProperties
  <2>5. i <= Len(c.published)
    <3> SUFFICES ASSUME ~(i <= Len(c.published)) PROVE FALSE
      OBVIOUS
    <3>1. i - Len(c.published) \in 1..Len(c.network)
      <4>1. \A m, k \in Nat : \A x \in 1..(m + k) : ~(x <= m) => x - m \in 1..k
        OBVIOUS
      <4>2. i \in 1..(Len(c.published) + Len(c.network))
        BY <1>3, <2>4
      <4> QED
        BY <2>3, <4>1, <4>2
    <3>2. c.network[i - Len(c.published)] \in Unpublished
      BY <2>1, <3>1, ElementOfSeq
    <3> QED
      BY <2>2, <2>4, <3>2
  <2>6. list[i] = c.published[i] /\ i \in DOMAIN c.published
    BY <2>1, <2>3, <2>4, <2>5, LenProperties
  <2> QED
    BY <2>6 DEF Range
<1> QED
  BY <1>6, <1>7 DEF Terminators

\* A flow that the rules refuse is refused by the chain, whose other commands
\* decide over no flow before the rules do.
LEMMA RefusedByChain ==
    ASSUME NEW c \in Config, NEW f \in Flows, RefusedByPublished(c, f)
    PROVE  RefusedBy(Commands(c, FlowHook[f]), f)
<1> DEFINE h == FlowHook[f]
           rules == RuleCommands(c, h)
           preamble == Preamble(h)
           n == Len(preamble)
<1>1. FlowRules[f] \subseteq Rules
  BY FirewallAssumption
<1>2. /\ preamble \in Seq(Token) /\ n \in Nat
      /\ \A i \in 1..n : preamble[i] \in {"state", "essential-icmpv6"}
  <2>1. \A t \in Token : <<t>> \in Seq(Token) /\ Len(<<t>>) = 1 /\ <<t>>[1] = t
    OBVIOUS
  <2>2. \A t, u \in Token : <<t, u>> \in Seq(Token) /\ Len(<<t, u>>) = 2
                            /\ <<t, u>>[1] = t /\ <<t, u>>[2] = u
    OBVIOUS
  <2>3. "state" \in Token /\ "essential-icmpv6" \in Token
    BY DEF Token
  <2> QED
    BY <2>1, <2>2, <2>3 DEF Preamble
<1>3. rules \in Seq(Token) /\ Len(rules) \in Nat /\ DOMAIN rules = 1..Len(rules)
  BY RuleCommandsType, LenProperties
<1>4. PICK i \in 1..Len(rules) :
        /\ rules[i] \in FlowRules[f] \cap Refusing
        /\ \A j \in 1..(i - 1) : rules[j] \notin FlowRules[f] \cup {"return"}
  BY <1>3 DEF RefusedByPublished, RefusedBy
<1>5. <<"return">> \in Seq(Token) /\ Len(<<"return">>) = 1
  <2>1. \A t \in Token : <<t>> \in Seq(Token) /\ Len(<<t>>) = 1
    OBVIOUS
  <2> QED
    BY <2>1 DEF Token
<1> DEFINE commands == Commands(c, h)
<1>6. /\ DOMAIN commands = 1..(n + Len(rules) + 1)
      /\ \A k \in 1..n : commands[k] = preamble[k]
      /\ \A k \in 1..Len(rules) : commands[n + k] = rules[k]
  <2> DEFINE front == preamble \o rules
  <2> HIDE DEF preamble, rules
  <2>1. /\ front \in Seq(Token) /\ Len(front) = n + Len(rules)
        /\ \A k \in 1..(n + Len(rules)) :
             front[k] = IF k <= n THEN preamble[k] ELSE rules[k - n]
    BY <1>2, <1>3, ConcatProperties
  <2>2. commands = front \o <<"return">>
    BY DEF Commands, preamble, rules
  <2> HIDE DEF front, commands, n
  <2>3. /\ commands \in Seq(Token) /\ Len(commands) = Len(front) + 1
        /\ \A k \in 1..(Len(front) + 1) :
             commands[k] = IF k <= Len(front) THEN front[k] ELSE <<"return">>[k - Len(front)]
    BY <1>5, <2>1, <2>2, ConcatProperties
  <2>4. \A k \in 1..Len(front) : commands[k] = front[k]
    BY <1>2, <1>3, <2>1, <2>3
  <2>5. \A k \in 1..n : k \in 1..Len(front) /\ k <= n /\ k \in 1..(n + Len(rules))
    BY <1>2, <1>3, <2>1
  <2>6. \A k \in 1..Len(rules) : n + k \in 1..Len(front) /\ ~(n + k <= n) /\ (n + k) - n = k
    BY <1>2, <1>3, <2>1
  <2>7. DOMAIN commands = 1..(n + Len(rules) + 1)
    BY <2>1, <2>3, LenProperties
  <2>8. \A k \in 1..Len(rules) : front[n + k] = rules[k]
    BY <2>1, <2>6
  <2> QED
    BY <2>1, <2>4, <2>5, <2>6, <2>7, <2>8
<1> HIDE DEF commands, preamble, rules, n
<1>7. n + i \in DOMAIN commands /\ commands[n + i] \in FlowRules[f] \cap Refusing
  BY <1>2, <1>3, <1>4, <1>6
<1>8. ASSUME NEW j \in 1..((n + i) - 1)
      PROVE  commands[j] \notin FlowRules[f] \cup {"return"}
  <2>1. CASE j <= n
    <3>1. commands[j] \in {"state", "essential-icmpv6"}
      BY <1>2, <1>6, <2>1
    <3> QED
      BY <1>1, <3>1, RulesAssumption
  <2>2. CASE ~(j <= n)
    <3>1. j - n \in 1..(i - 1) /\ j - n \in 1..Len(rules) /\ n + (j - n) = j
      BY <1>2, <1>3, <1>4, <2>2
    <3> QED
      BY <1>4, <1>6, <3>1
  <2> QED
    BY <2>1, <2>2
<1> QED
  BY <1>7, <1>8 DEF RefusedBy, commands, h

-----------------------------------------------------------------------------
\* What a request does to the flows and to the outcome, unless it ends them.
LEMMA FlowsFrom ==
    ASSUME ConntrackWorks, NEW r \in Requests, Start(r) \/ Continue(r) \/ Fault(r)
    PROVE  \/ UNCHANGED flows /\ outcome' \in {outcome, "unknown", "restored"}
           \/ ConfigWrite(r) /\ UNCHANGED flows /\ job[r].op = "disable" /\ Finish(r, "committed")
           \/ Terminate(r)
<1> USE DEF world, ghost
<1>1. \A result : Finish(r, result) => outcome' \in {result, "unknown"}
  BY DEF Finish
<1>2. Throw(r) => outcome' \in {outcome, "unknown"}
  BY <1>1 DEF Throw
<1>3. \A j : StartRender(r, j) => outcome' = "unknown"
  BY DEF StartRender
<1>4. CASE Start(r)
  BY <1>3, <1>4 DEF Start, StartAdd, StartDelete, StartChange, StartRollback
<1>5. CASE Continue(r)
  BY <1>1, <1>2, <1>3, <1>5
  DEF Continue, ReadApplied, EditTruncate, EditWrite, BackupTruncate, BackupWrite,
      ChainExists, ChainCreate, JumpCheck, JumpInsert, Flush, JumpRemove, JumpRecheck,
      JumpReinsert, Build, AppendRule, AppliedTruncate, AppliedWrite, ConfigTruncate,
      ConfigWrite
<1>6. CASE Fault(r)
  BY <1>1, <1>2, <1>6
  DEF Fault, CommandFails, QueryFails, DockerFails, SaveFails, ConntrackFails, Disturb,
      ConntrackWorks
<1> QED
  BY <1>4, <1>5, <1>6

\* Only a request that renders writes the record.
LEMMA RecordFrom ==
    ASSUME NEW r \in Requests, ~Active(r), Start(r) \/ Continue(r) \/ Fault(r)
    PROVE  UNCHANGED applied
<1> USE DEF files
<1>1. CASE Start(r)
  BY <1>1 DEF Start, StartAdd, StartDelete, StartChange, StartRollback
<1>2. CASE Continue(r)
  BY <1>2
  DEF Continue, ReadApplied, EditTruncate, EditWrite, BackupTruncate, BackupWrite,
      ChainExists, ChainCreate, JumpCheck, JumpInsert, Flush, JumpRemove, JumpRecheck,
      JumpReinsert, Build, AppendRule, AppliedTruncate, AppliedWrite, ConfigTruncate,
      ConfigWrite, Terminate, Active, RenderSteps, Steps
<1>3. CASE Fault(r)
  BY <1>3 DEF Fault, CommandFails, QueryFails, DockerFails, SaveFails, ConntrackFails,
              Active, RenderSteps, Steps
<1> QED
  BY <1>1, <1>2, <1>3

\* No flow that the configuration in force refuses can be opened.
LEMMA NoneOpened ==
    ASSUME NEW c \in Config, c.enabled, KernelHolds(c), OpenFlow,
           NEW f \in flows', RefusedByPublished(c, f), flows \subseteq Flows
    PROVE  f \in flows
<1>1. PICK g \in Flows \ flows :
        /\ ~(Jumped(FlowHook[g]) /\ RefusedBy(chain[FlowHook[g]], g))
        /\ flows' = flows \cup {g}
  BY DEF OpenFlow
<1>2. SUFFICES ASSUME f = g PROVE FALSE
  BY <1>1
<1>3. FlowHook[f] \in Hooks
  BY <1>1, <1>2, FirewallAssumption, HooksAssumption
<1>4. Jumped(FlowHook[f]) /\ chain[FlowHook[f]] = Commands(c, FlowHook[f])
  BY <1>3 DEF KernelHolds, Rendering
<1>5. RefusedBy(Commands(c, FlowHook[f]), f)
  BY <1>1, <1>2, RefusedByChain
<1> QED
  BY <1>1, <1>2, <1>4, <1>5

LEMMA RefusedStep ==
    ASSUME ConntrackWorks, TypeInv, InForceInv, Apart, RefusedFlowsEnded, [Next]_vars
    PROVE  RefusedFlowsEnded'
<1>1. LocalsOK /\ FilesOK /\ GhostOK /\ WorldOK
  BY TypeInvParts
<1>2. SUFFICES ASSUME outcome' = "committed", applied'.enabled, NEW f \in flows',
                      RefusedByPublished(applied', f)
               PROVE  FALSE
  BY DEF RefusedFlowsEnded, RefusedByPublished
<1>3. ASSUME outcome = "committed", UNCHANGED applied PROVE f \notin flows
  BY <1>2, <1>3 DEF RefusedFlowsEnded
<1>4. ASSUME NEW r \in Requests, Start(r) \/ Continue(r) \/ Fault(r)
      PROVE  FALSE
  <2>1. CASE UNCHANGED flows /\ outcome' \in {outcome, "unknown", "restored"}
    <3>1. outcome = "committed"
      BY <1>2, <2>1
    <3>2. ~Active(r)
      BY <3>1 DEF InForceInv, Settled
    <3>3. UNCHANGED applied
      BY <1>4, <3>2, RecordFrom
    <3> QED
      BY <1>2, <1>3, <2>1, <3>1, <3>3
  <2>2. CASE ConfigWrite(r) /\ job[r].op = "disable" /\ Finish(r, "committed")
    <3>1. alone[r] /\ pc[r] = "configW" /\ UNCHANGED applied
      BY <1>2, <2>2 DEF ConfigWrite, Finish
    <3>2. applied = job[r].target
      BY <3>1 DEF InForceInv, Lonely, Stage
    <3>3. ~job[r].target.enabled
      BY <2>2 DEF Apart, JobApart
    <3> QED
      BY <1>2, <3>1, <3>2, <3>3
  <2>3. CASE Terminate(r)
    <3>1. alone[r] /\ pc[r] = "terminate" /\ UNCHANGED applied
      BY <1>2, <2>3 DEF Terminate, Finish, files
    <3>2. applied = job[r].target
      BY <3>1 DEF InForceInv, Lonely, Stage
    <3>3. applied \in Config /\ ListsApart(applied)
      BY <1>1, <3>2, JobConfigs DEF Apart, JobApart
    <3>4. f \in Flows /\ FlowRules[f] \cap Terminators(applied) = {}
      BY <1>1, <1>2, <2>3, <3>2 DEF Terminate, WorldOK
    <3> QED
      BY <1>2, <3>1, <3>3, <3>4, RefusedIsTerminated
  <2> QED
    BY <1>4, <2>1, <2>2, <2>3, FlowsFrom
<1>5. CASE Environment \/ UNCHANGED vars
  <2>1. UNCHANGED applied /\ (OpenFlow \/ flows' \subseteq flows)
    BY <1>5 DEF Environment, Crash, Reboot, ForeignInsert, RemoveNetwork, OpenFlow, CloseFlow,
                vars, files, world
  <2>2. outcome = "committed"
    BY <1>2, <1>5 DEF Environment, Crash, Reboot, ForeignInsert, RemoveNetwork, OpenFlow,
                      CloseFlow, vars, ghost
  <2>3. f \notin flows
    BY <1>3, <2>1, <2>2
  <2>4. applied \in Config /\ KernelHolds(applied)
    BY <1>1, <2>2 DEF InForceInv, Settled, FilesOK, File
  <2> QED
    BY <1>1, <1>2, <2>1, <2>3, <2>4, NoneOpened DEF WorldOK
<1> QED
  BY <1>4, <1>5 DEF Next

\* While conntrack works, no connection that the published-port rules refuse
\* outlives an apply or a rollback that has succeeded, and none is opened until
\* the next rendering begins: for any rules, flows and requests, and whatever
\* fails, crashes, reboots or overlaps.
\* (terminatePublishedPortConnections and its callers, lines 511-513 and 562.)
THEOREM RefusedFlowsCorrect ==
    ASSUME ConntrackWorks
    PROVE  Spec => []RefusedFlowsEnded
<1>1. Init => RefusedFlowsEnded
  BY DEF Init, RefusedFlowsEnded
<1>2. TypeInv /\ InForceInv /\ Apart /\ RefusedFlowsEnded /\ [Next]_vars
        => Apart' /\ RefusedFlowsEnded'
  BY ApartStep, RefusedStep
<1>3. Spec => [](TypeInv /\ InForceInv /\ Apart /\ RefusedFlowsEnded)
  BY <1>1, <1>2, ApartInit, TypeInvInit, TypeInvStep, InForceInit, InForceStep, PTL DEF Spec
<1> QED
  BY <1>3, PTL
=============================================================================
