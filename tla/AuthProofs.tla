------------------------------ MODULE AuthProofs ------------------------------
(***************************************************************************)
(* Proofs about Auth, for any accounts, sessions, requests and             *)
(* disturbances.                                                           *)
(***************************************************************************)
EXTENDS Auth, TLAPS

\* Files as functions from identifiers.

LEMMA EmptyType == Empty \in Users /\ Empty \in SessionFile /\ DOMAIN Empty = {}
<1>1. Empty \in [{} -> Account] /\ Empty \in [{} -> Session] /\ DOMAIN Empty = {}
  BY DEF Empty
<1> QED
  BY <1>1 DEF Users, SessionFile

LEMMA UsersDomain ==
    ASSUME NEW u \in Users
    PROVE  DOMAIN u \subseteq Ids /\ u \in [DOMAIN u -> Account]
BY DEF Users

LEMMA SessionsDomain ==
    ASSUME NEW f \in SessionFile
    PROVE  DOMAIN f \subseteq Sessions /\ f \in [DOMAIN f -> Session]
BY DEF SessionFile

LEMMA UsersIntro ==
    ASSUME NEW S \in SUBSET Ids, NEW u \in [S -> Account]
    PROVE  u \in Users
BY DEF Users

LEMMA SessionsIntro ==
    ASSUME NEW S \in SUBSET Sessions, NEW f \in [S -> Session]
    PROVE  f \in SessionFile
BY DEF SessionFile

LEMMA NonEmpty ==
    ASSUME NEW f, NEW x \in DOMAIN f
    PROVE  f # Empty
BY EmptyType

LEMMA PutUsers ==
    ASSUME NEW u \in Users, NEW id \in Ids, NEW a \in Account
    PROVE  Put(u, id, a) \in Users /\ DOMAIN Put(u, id, a) = DOMAIN u \cup {id}
<1>1. Put(u, id, a) \in [DOMAIN u \cup {id} -> Account]
  BY UsersDomain DEF Put
<1> QED
  BY <1>1, UsersDomain, UsersIntro

LEMMA EditUsers ==
    ASSUME NEW u \in Users, NEW id \in DOMAIN u, NEW a \in Account
    PROVE  [u EXCEPT ![id] = a] \in Users /\ DOMAIN [u EXCEPT ![id] = a] = DOMAIN u
<1>1. [u EXCEPT ![id] = a] \in [DOMAIN u -> Account]
  BY UsersDomain
<1> QED
  BY <1>1, UsersDomain, UsersIntro

LEMMA DropUsers ==
    ASSUME NEW u \in Users, NEW S
    PROVE  Drop(u, S) \in Users /\ DOMAIN Drop(u, S) = DOMAIN u \ S
<1>1. Drop(u, S) \in [DOMAIN u \ S -> Account]
  BY UsersDomain DEF Drop, Restrict
<1> QED
  BY <1>1, UsersDomain, UsersIntro

LEMMA PutSessions ==
    ASSUME NEW f \in SessionFile, NEW s \in Sessions, NEW x \in Session
    PROVE  Put(f, s, x) \in SessionFile /\ DOMAIN Put(f, s, x) = DOMAIN f \cup {s}
<1>1. Put(f, s, x) \in [DOMAIN f \cup {s} -> Session]
  BY SessionsDomain DEF Put
<1> QED
  BY <1>1, SessionsDomain, SessionsIntro

LEMMA RestrictSessions ==
    ASSUME NEW f \in SessionFile, NEW S \in SUBSET DOMAIN f
    PROVE  Restrict(f, S) \in SessionFile /\ DOMAIN Restrict(f, S) = S
<1>1. Restrict(f, S) \in [S -> Session]
  BY SessionsDomain DEF Restrict
<1> QED
  BY <1>1, SessionsDomain, SessionsIntro

LEMMA DropSessions ==
    ASSUME NEW f \in SessionFile, NEW S
    PROVE  Drop(f, S) \in SessionFile /\ DOMAIN Drop(f, S) = DOMAIN f \ S
<1>1. DOMAIN f \ S \in SUBSET DOMAIN f
  OBVIOUS
<1> QED
  BY <1>1, RestrictSessions DEF Drop

LEMMA TouchSessions ==
    ASSUME NEW f \in SessionFile, NEW s \in DOMAIN f, NEW t \in 0..MaxTime
    PROVE  /\ [f EXCEPT ![s].seen = t] \in SessionFile
           /\ DOMAIN [f EXCEPT ![s].seen = t] = DOMAIN f
<1>1. [f[s] EXCEPT !.seen = t] \in Session
  BY SessionsDomain DEF Session
<1>2. [f EXCEPT ![s].seen = t] \in [DOMAIN f -> Session]
  BY <1>1, SessionsDomain
<1> QED
  BY <1>2, SessionsDomain, SessionsIntro

-----------------------------------------------------------------------------
\* What the program counter says about the local variables.

\* The operations that reach a step.
OperationsAt(step) ==
    CASE step = "idle" -> {"none"}
      [] step \in {"boot", "cleanup"} -> {"boot"}
      [] step \in {"login", "openSession"} -> {"login"}
      [] step \in {"caller", "touch"} -> AllOperations
      [] step = "handle" -> AllOperations \ {"logout"}
      [] step = "saveUsers" -> {"login", "change", "create", "reset", "role", "delete"}
      [] step = "closeSessions" -> {"logout", "change", "reset", "delete"}
      [] step = "saveSessions" -> {"boot", "login", "logout", "change", "reset", "delete"}
      [] OTHER -> {}

\* Where a request is, or where it goes on after creating the built-in account.
At(step, j) == IF step = "bootstrap" THEN j.back ELSE step

ControlOK(step, j) ==
    /\ j.op \in OperationsAt(At(step, j))
    /\ j.op \in AllOperations => j.session \in Sessions /\ j.user \in Ids
    /\ j.op = "login" /\ step \in {"saveUsers", "openSession"} =>
         j.session \in Sessions /\ j.user \in Ids
    /\ At(step, j) = "touch" => j.account \in Account
    /\ At(step, j) = "handle" => j.account \in Account /\ Admitted(j.op, j.account)
    /\ step = "bootstrap" => j.target \in Ids /\ j.back \in {"boot", "login", "caller", "handle"}

LocalsOK ==
    /\ pc \in [Requests -> Steps]
    /\ job \in [Requests -> Job]
    /\ newUsers \in [Requests -> Users]
    /\ newSessions \in [Requests -> SessionFile]
    /\ \A r \in Requests : ControlOK(pc[r], job[r])

FilesOK == users \in Users /\ sessions \in SessionFile /\ revoked \subseteq Sessions

WorldOK ==
    /\ now \in 0..MaxTime
    /\ booted \in BOOLEAN
    /\ intact \in BOOLEAN
    /\ budget \in 0..MaxDisturbances

TypeInv == LocalsOK /\ FilesOK /\ WorldOK

LEMMA TypeInvImpliesTypeOK == TypeInv => TypeOK
BY DEF TypeInv, LocalsOK, FilesOK, WorldOK, TypeOK

\* Request r moves to a step with locals that fit.
LEMMA LocalStep ==
    ASSUME LocalsOK, NEW r \in Requests, NEW step \in Steps, Goto(r, step),
           job' = job \/ \E j \in Job : job' = [job EXCEPT ![r] = j],
           newUsers' = newUsers \/ \E u \in Users : newUsers' = [newUsers EXCEPT ![r] = u],
           newSessions' = newSessions
             \/ \E f \in SessionFile : newSessions' = [newSessions EXCEPT ![r] = f],
           ControlOK(step, job'[r])
    PROVE  LocalsOK'
<1>1. pc' \in [Requests -> Steps] /\ pc'[r] = step
  BY DEF LocalsOK, Goto
<1>2. job' \in [Requests -> Job]
  BY DEF LocalsOK
<1>3. newUsers' \in [Requests -> Users]
  BY DEF LocalsOK
<1>4. newSessions' \in [Requests -> SessionFile]
  BY DEF LocalsOK
<1>5. ASSUME NEW q \in Requests PROVE ControlOK(pc'[q], job'[q])
  <2>1. CASE q = r
    BY <1>1, <2>1
  <2>2. CASE q # r
    <3>1. pc'[q] = pc[q] /\ job'[q] = job[q]
      BY <2>2 DEF LocalsOK, Goto
    <3> QED
      BY <3>1 DEF LocalsOK
  <2> QED
    BY <2>1, <2>2
<1>6. \A q \in Requests : ControlOK(pc[q], job[q])'
  <2> SUFFICES ASSUME NEW q \in Requests PROVE ControlOK(pc[q], job[q])'
    OBVIOUS
  <2> QED
    BY <1>5 DEF ControlOK, At, OperationsAt, Admitted
<1> QED
  BY <1>1, <1>2, <1>3, <1>4, <1>6 DEF LocalsOK

LEMMA NoJobType == NoJob \in Job /\ ControlOK("idle", NoJob)
BY DEF NoJob, Job, ControlOK, At, OperationsAt, Steps, AllOperations

LEMMA AnswerType ==
    ASSUME LocalsOK, NEW r \in Requests, Answer(r)
    PROVE  LocalsOK'
<1>1. "idle" \in Steps
  BY DEF Steps
<1>2. job'[r] = NoJob
  BY DEF Answer, LocalsOK
<1> QED
  BY <1>1, <1>2, NoJobType, EmptyType, LocalStep DEF Answer

LEMMA JobFields ==
    ASSUME NEW j \in Job
    PROVE  /\ j.op \in AllOperations \cup {"none", "boot", "login"}
           /\ j.back \in Steps
           /\ j.session \in Sessions \cup {None}
           /\ j.user \in Ids \cup {None}
           /\ j.target \in Ids \cup {None}
           /\ j.account \in Account \cup {None}
BY DEF Job

LEMMA FreshIdsType == FreshIds \subseteq Ids
BY DEF FreshIds

LEMMA FreshSessionsType == FreshSessions \subseteq Sessions
BY DEF FreshSessions

LEMMA ToBootstrapType ==
    ASSUME LocalsOK, NEW r \in Requests, ToBootstrap(r),
           pc[r] \in {"boot", "login", "caller", "handle"}
    PROVE  LocalsOK'
<1>1. PICK id \in Ids : job' = [job EXCEPT ![r] = [@ EXCEPT !.back = pc[r], !.target = id]]
  BY FreshIdsType DEF ToBootstrap
<1> DEFINE j == [job[r] EXCEPT !.back = pc[r], !.target = id]
<1>2. job' = [job EXCEPT ![r] = j] /\ job'[r] = j
  BY <1>1 DEF LocalsOK
<1>3. j \in Job /\ j.op = job[r].op /\ j.session = job[r].session /\ j.user = job[r].user
      /\ j.account = job[r].account /\ j.back = pc[r] /\ j.target = id
  BY DEF LocalsOK, Job, Steps
<1> HIDE DEF j
<1>4. ControlOK(pc[r], job[r]) /\ pc[r] # "bootstrap"
  BY DEF LocalsOK
<1>5. ControlOK("bootstrap", j)
  BY <1>3, <1>4 DEF ControlOK, At, OperationsAt
<1>6. "bootstrap" \in Steps
  BY DEF Steps
<1> QED
  BY <1>2, <1>3, <1>5, <1>6, LocalStep DEF ToBootstrap

LEMMA PrepareUsersType ==
    ASSUME LocalsOK, NEW r \in Requests, NEW j \in Job, NEW u \in Users,
           PrepareUsers(r, j, u), ControlOK("saveUsers", j)
    PROVE  LocalsOK'
<1>1. job'[r] = j /\ "saveUsers" \in Steps
  BY DEF LocalsOK, PrepareUsers, Steps
<1> QED
  BY <1>1, LocalStep DEF PrepareUsers

LEMMA PrepareSessionsType ==
    ASSUME LocalsOK, NEW r \in Requests, NEW f \in SessionFile,
           PrepareSessions(r, f), ControlOK("saveSessions", job[r])
    PROVE  LocalsOK'
<1>1. "saveSessions" \in Steps
  BY DEF Steps
<1> QED
  BY <1>1, LocalStep DEF PrepareSessions

\* The handlers of an account go on to their save with a target, or none.
LEMMA HandleType ==
    ASSUME LocalsOK, NEW r \in Requests, pc[r] = "handle",
           job[r].op \in {"change", "create", "reset", "role", "delete"},
           NEW u \in Users,
           PrepareUsers(r, job[r], u)
             \/ \E id \in Ids : PrepareUsers(r, [job[r] EXCEPT !.target = id], u)
    PROVE  LocalsOK'
<1>1. job[r] \in Job /\ ControlOK("handle", job[r])
  BY DEF LocalsOK
<1>2. ControlOK("saveUsers", job[r])
  BY <1>1 DEF ControlOK, At, OperationsAt, AllOperations
<1>3. ASSUME NEW id \in Ids
      PROVE  /\ [job[r] EXCEPT !.target = id] \in Job
             /\ ControlOK("saveUsers", [job[r] EXCEPT !.target = id])
  <2> DEFINE j == [job[r] EXCEPT !.target = id]
  <2>1. j \in Job /\ j.op = job[r].op /\ j.session = job[r].session /\ j.user = job[r].user
    BY <1>1 DEF Job
  <2> HIDE DEF j
  <2>2. ControlOK("saveUsers", j)
    BY <1>1, <2>1 DEF ControlOK, At, OperationsAt, AllOperations
  <2> QED
    BY <2>1, <2>2 DEF j
<1> QED
  BY <1>1, <1>2, <1>3, PrepareUsersType

LEMMA AdmitType ==
    ASSUME LocalsOK, NEW r \in Requests, pc[r] \in {"caller", "touch"},
           NEW a \in Account, Admit(r, a)
    PROVE  LocalsOK'
<1>1. CASE ~Admitted(job[r].op, a)
  BY <1>1, AnswerType DEF Admit
<1>2. CASE Admitted(job[r].op, a)
  <2> DEFINE j == [job[r] EXCEPT !.account = a]
             step == IF job[r].op = "logout" THEN "closeSessions" ELSE "handle"
  <2>1. job' = [job EXCEPT ![r] = j] /\ job'[r] = j /\ Goto(r, step)
    BY <1>2 DEF Admit, LocalsOK
  <2>2. j \in Job /\ j.op = job[r].op /\ j.session = job[r].session /\ j.user = job[r].user
        /\ j.account = a
    BY DEF LocalsOK, Job
  <2>3. ControlOK(pc[r], job[r]) /\ step \in Steps /\ newUsers' = newUsers
    BY <1>2 DEF LocalsOK, Steps, Admit
  <2>4. newSessions' = [newSessions EXCEPT ![r] = Empty]
    BY <1>2 DEF Admit
  <2> HIDE DEF j
  <2>5. ControlOK(step, j)
    BY <1>2, <2>2, <2>3 DEF ControlOK, At, OperationsAt, AllOperations
  <2> QED
    BY <2>1, <2>2, <2>3, <2>4, <2>5, LocalStep, EmptyType
<1> QED
  BY <1>1, <1>2

LEMMA CreatedType ==
    ASSUME NEW r \in Requests, NEW u \in Users, Created(r, u)
    PROVE  \E v \in Users : PrepareUsers(r, job[r], v)
<1>1. PICK id \in FreshIds, name \in Names \ NamesOf(u), password \in Passwords \ {Default}, role \in Roles :
        PrepareUsers(r, job[r], Put(u, id, [name |-> name, password |-> password,
                                            role |-> role, mustChange |-> TRUE]))
  BY DEF Created
<1>2. [name |-> name, password |-> password, role |-> role, mustChange |-> TRUE] \in Account
  BY DEF Account
<1>3. Put(u, id, [name |-> name, password |-> password, role |-> role, mustChange |-> TRUE]) \in Users
  BY <1>2, PutUsers, FreshIdsType
<1> QED
  BY <1>1, <1>3

LEMMA LiveDomain == \A f : Live(f) \subseteq DOMAIN f
BY DEF Live

LEMMA OpenedType ==
    ASSUME TypeInv, NEW r \in Requests, pc[r] = "openSession", NEW f \in SessionFile
    PROVE  Opened(r, f) \in SessionFile
<1>1. job[r].session \in Sessions /\ job[r].user \in Ids
  BY DEF TypeInv, LocalsOK, ControlOK, At, OperationsAt
<1>2. [owner |-> job[r].user, seen |-> now] \in Session
  BY <1>1 DEF Session, TypeInv, WorldOK
<1> QED
  BY <1>1, <1>2, LiveDomain, RestrictSessions, PutSessions DEF Opened

LEMMA EndedType ==
    ASSUME TypeInv, NEW r \in Requests, NEW f \in SessionFile
    PROVE  Ended(job[r], f) \subseteq Sessions
<1>1. ControlOK(pc[r], job[r])
  BY DEF TypeInv, LocalsOK
<1>2. job[r].op = "logout" => job[r].session \in Sessions
  BY <1>1 DEF ControlOK, AllOperations
<1> QED
  BY <1>2, SessionsDomain DEF Ended

LEMMA AfterUsersType ==
    ASSUME TypeInv, NEW r \in Requests, pc[r] = "saveUsers", AfterUsers(job[r].op) # "idle"
    PROVE  AfterUsers(job[r].op) \in Steps /\ ControlOK(AfterUsers(job[r].op), job[r])
<1>1. ControlOK("saveUsers", job[r])
  BY DEF TypeInv, LocalsOK
<1>2. CASE job[r].op = "login"
  <2>1. AfterUsers(job[r].op) = "openSession"
    BY <1>2 DEF AfterUsers
  <2> QED
    BY <1>1, <1>2, <2>1 DEF ControlOK, At, OperationsAt, Steps, AllOperations
<1>3. CASE job[r].op \in {"change", "reset", "delete"}
  <2>1. AfterUsers(job[r].op) = "closeSessions"
    BY <1>3 DEF AfterUsers
  <2> QED
    BY <1>1, <1>3, <2>1 DEF ControlOK, At, OperationsAt, Steps, AllOperations
<1>4. CASE job[r].op \notin {"login", "change", "reset", "delete"}
  BY <1>4 DEF AfterUsers
<1> QED
  BY <1>2, <1>3, <1>4

\* Steps of a request that change no file.
LEMMA ReadStepType ==
    ASSUME TypeInv, NEW r \in Requests,
           \/ StartLogin(r) \/ StartRequest(r) \/ Boot(r) \/ Cleanup(r) \/ Authenticate(r)
           \/ OpenSession(r) \/ ReadCaller(r) \/ Respond(r) \/ ChangePassword(r)
           \/ CreateUser(r) \/ ResetPassword(r) \/ UpdateRole(r) \/ DeleteUser(r)
           \/ CloseSessions(r)
    PROVE  LocalsOK'
<1> USE DEF TypeInv
<1>0. job[r] \in Job /\ ControlOK(pc[r], job[r]) /\ pc[r] \in Steps
  BY DEF LocalsOK
<1>1. CASE StartLogin(r)
  <2> DEFINE j == [NoJob EXCEPT !.op = "login"]
  <2>1. j \in Job /\ ControlOK("login", j) /\ "login" \in Steps
    BY NoJobType DEF NoJob, Job, ControlOK, At, OperationsAt, Steps, AllOperations
  <2>2. job'[r] = j
    BY <1>1 DEF StartLogin, LocalsOK
  <2> QED
    BY <1>1, <2>1, <2>2, LocalStep DEF StartLogin
<1>2. CASE StartRequest(r)
  <2>1. PICK op \in Operations, s \in Live(sessions) :
          /\ job' = [job EXCEPT ![r] = [NoJob EXCEPT !.op = op, !.session = s, !.user = sessions[s].owner]]
          /\ newSessions' = [newSessions EXCEPT ![r] =
                IF Stale(sessions, s) THEN [sessions EXCEPT ![s].seen = now] ELSE Empty]
    BY <1>2 DEF StartRequest
  <2>2. s \in DOMAIN sessions /\ s \in Sessions /\ sessions[s].owner \in Ids /\ op \in AllOperations
    BY LiveDomain, SessionsDomain, AuthAssumption DEF FilesOK, Session
  <2> DEFINE j == [NoJob EXCEPT !.op = op, !.session = s, !.user = sessions[s].owner]
  <2>3. j \in Job /\ j.op = op /\ j.session = s /\ j.user = sessions[s].owner
    BY <2>2, NoJobType DEF NoJob, Job
  <2>4. job' = [job EXCEPT ![r] = j] /\ job'[r] = j
    BY <2>1 DEF LocalsOK
  <2>5. \E f \in SessionFile : newSessions' = [newSessions EXCEPT ![r] = f]
    <3>1. [sessions EXCEPT ![s].seen = now] \in SessionFile
      BY <2>2, TouchSessions DEF FilesOK, WorldOK
    <3> QED
      BY <2>1, <3>1, EmptyType
  <2> HIDE DEF j
  <2>6. ControlOK("caller", j) /\ "caller" \in Steps
    BY <2>2, <2>3 DEF ControlOK, At, OperationsAt, Steps
  <2> QED
    BY <1>2, <2>3, <2>4, <2>5, <2>6, LocalStep DEF StartRequest
<1>3. CASE Boot(r)
  <2>1. CASE users = Empty
    BY <1>3, <2>1, ToBootstrapType DEF Boot
  <2>2. CASE users # Empty
    <3>1. ControlOK("cleanup", job[r]) /\ "cleanup" \in Steps
      BY <1>0, <1>3 DEF Boot, ControlOK, At, OperationsAt, Steps, AllOperations
    <3> QED
      BY <1>3, <2>2, <3>1, LocalStep DEF Boot
  <2> QED
    BY <2>1, <2>2
<1>4. CASE Cleanup(r)
  <2>1. ControlOK("saveSessions", job[r])
    BY <1>0, <1>4 DEF Cleanup, ControlOK, At, OperationsAt, AllOperations
  <2>2. Restrict(sessions, Live(sessions)) \in SessionFile
    BY LiveDomain, RestrictSessions DEF FilesOK
  <2> QED
    BY <1>4, <2>1, <2>2, PrepareSessionsType DEF Cleanup
<1>5. CASE Authenticate(r)
  <2>1. CASE users = Empty
    BY <1>5, <2>1, ToBootstrapType DEF Authenticate
  <2>2. CASE Answer(r)
    BY <2>2, AnswerType
  <2>3. ASSUME NEW id \in DOMAIN users, NEW new \in FreshSessions,
               PrepareUsers(r, [job[r] EXCEPT !.user = id, !.session = new], users)
        PROVE  LocalsOK'
    <3> DEFINE j == [job[r] EXCEPT !.user = id, !.session = new]
    <3>1. id \in Ids /\ new \in Sessions /\ users \in Users
      BY UsersDomain, FreshSessionsType DEF FilesOK
    <3>2. j \in Job /\ j.op = job[r].op /\ j.user = id /\ j.session = new
      BY <1>0, <3>1 DEF Job
    <3> HIDE DEF j
    <3>3. ControlOK("saveUsers", j)
      BY <1>0, <1>5, <3>1, <3>2 DEF Authenticate, ControlOK, At, OperationsAt, AllOperations
    <3> QED
      BY <2>3, <3>1, <3>2, <3>3, PrepareUsersType DEF j
  <2> QED
    BY <1>5, <2>1, <2>2, <2>3 DEF Authenticate
<1>6. CASE OpenSession(r)
  <2>1. ControlOK("saveSessions", job[r])
    BY <1>0, <1>6 DEF OpenSession, ControlOK, At, OperationsAt, AllOperations
  <2> QED
    BY <1>6, <2>1, OpenedType, PrepareSessionsType DEF OpenSession, FilesOK
<1>7. CASE ReadCaller(r)
  <2>1. CASE users = Empty
    BY <1>7, <2>1, ToBootstrapType DEF ReadCaller
  <2>2. CASE users # Empty /\ job[r].user \notin DOMAIN users
    BY <1>7, <2>2, AnswerType DEF ReadCaller
  <2>3. CASE users # Empty /\ job[r].user \in DOMAIN users
    <3>1. users[job[r].user] \in Account
      BY <2>3, UsersDomain DEF FilesOK
    <3>2. CASE newSessions[r] = Empty
      BY <1>7, <2>3, <3>1, <3>2, AdmitType DEF ReadCaller
    <3>3. CASE newSessions[r] # Empty
      <4> DEFINE j == [job[r] EXCEPT !.account = users[job[r].user]]
      <4>1. j \in Job /\ j.op = job[r].op /\ j.user = job[r].user /\ j.session = job[r].session
            /\ j.account \in Account
        BY <1>0, <3>1 DEF Job
      <4>2. job' = [job EXCEPT ![r] = j] /\ job'[r] = j
        BY <1>7, <2>3, <3>3 DEF ReadCaller, LocalsOK
      <4> HIDE DEF j
      <4>3. ControlOK("touch", j) /\ "touch" \in Steps
        BY <1>0, <1>7, <4>1 DEF ReadCaller, ControlOK, At, OperationsAt, Steps
      <4> QED
        BY <1>7, <2>3, <3>3, <4>1, <4>2, <4>3, LocalStep DEF ReadCaller
    <3> QED
      BY <3>2, <3>3
  <2> QED
    BY <2>1, <2>2, <2>3
<1>8. CASE Respond(r)
  BY <1>8, AnswerType DEF Respond
<1>9. CASE ChangePassword(r)
  <2>1. PICK password \in Passwords \ {Default, users[job[r].user].password} :
          PrepareUsers(r, job[r], [users EXCEPT ![job[r].user] =
                                     [@ EXCEPT !.password = password, !.mustChange = FALSE]])
    BY <1>9 DEF ChangePassword
  <2>2. job[r].user \in DOMAIN users /\ users[job[r].user] \in Account
    BY <1>9, UsersDomain DEF ChangePassword, FilesOK
  <2>3. [users[job[r].user] EXCEPT !.password = password, !.mustChange = FALSE] \in Account
    BY <2>2 DEF Account
  <2>4. [users EXCEPT ![job[r].user] = [@ EXCEPT !.password = password, !.mustChange = FALSE]] \in Users
    BY <2>2, <2>3, EditUsers DEF FilesOK
  <2> QED
    BY <1>9, <2>1, <2>4, HandleType DEF ChangePassword
<1>10. CASE CreateUser(r)
  BY <1>10, CreatedType, HandleType DEF CreateUser, FilesOK
<1>11. CASE ResetPassword(r)
  <2>1. PICK target \in DOMAIN users, password \in Passwords \ {Default} :
          PrepareUsers(r, [job[r] EXCEPT !.target = target],
                       [users EXCEPT ![target] = [@ EXCEPT !.password = password, !.mustChange = TRUE]])
    BY <1>11 DEF ResetPassword
  <2>2. target \in Ids /\ users[target] \in Account
    BY UsersDomain DEF FilesOK
  <2>3. [users[target] EXCEPT !.password = password, !.mustChange = TRUE] \in Account
    BY <2>2 DEF Account
  <2>4. [users EXCEPT ![target] = [@ EXCEPT !.password = password, !.mustChange = TRUE]] \in Users
    BY <2>3, EditUsers DEF FilesOK
  <2> QED
    BY <1>11, <2>1, <2>2, <2>4, HandleType DEF ResetPassword
<1>12. CASE UpdateRole(r)
  <2>1. PICK target \in DOMAIN users, role \in Roles :
          PrepareUsers(r, [job[r] EXCEPT !.target = target],
                       [users EXCEPT ![target] = [@ EXCEPT !.role = role]])
    BY <1>12 DEF UpdateRole
  <2>2. target \in Ids /\ users[target] \in Account
    BY UsersDomain DEF FilesOK
  <2>3. [users[target] EXCEPT !.role = role] \in Account
    BY <2>2 DEF Account
  <2>4. [users EXCEPT ![target] = [@ EXCEPT !.role = role]] \in Users
    BY <2>3, EditUsers DEF FilesOK
  <2> QED
    BY <1>12, <2>1, <2>2, <2>4, HandleType DEF UpdateRole
<1>13. CASE DeleteUser(r)
  <2>1. PICK target \in DOMAIN users :
          PrepareUsers(r, [job[r] EXCEPT !.target = target], Drop(users, {target}))
    BY <1>13 DEF DeleteUser
  <2>2. target \in Ids /\ Drop(users, {target}) \in Users
    BY UsersDomain, DropUsers DEF FilesOK
  <2> QED
    BY <1>13, <2>1, <2>2, HandleType DEF DeleteUser
<1>14. CASE CloseSessions(r)
  <2>1. ControlOK("saveSessions", job[r])
    BY <1>0, <1>14 DEF CloseSessions, ControlOK, At, OperationsAt, AllOperations
  <2>2. Drop(sessions, Ended(job[r], sessions)) \in SessionFile
    BY DropSessions DEF FilesOK
  <2> QED
    BY <1>14, <2>1, <2>2, PrepareSessionsType DEF CloseSessions
<1> QED
  BY <1>1, <1>2, <1>3, <1>4, <1>5, <1>6, <1>7, <1>8, <1>9, <1>10, <1>11, <1>12, <1>13, <1>14

\* Steps of a request that change a file or the process, and failures.
LEMMA SaveStepType ==
    ASSUME TypeInv, NEW r \in Requests,
           \/ StartBoot(r) \/ Bootstrap(r) \/ Touch(r) \/ SaveUsers(r) \/ SaveSessions(r)
           \/ SaveFails(r) \/ UsersReadFails(r) \/ SessionsReadFails(r)
    PROVE  LocalsOK'
<1> USE DEF TypeInv
<1>0. job[r] \in Job /\ ControlOK(pc[r], job[r]) /\ pc[r] \in Steps
  BY DEF LocalsOK
<1>1. CASE StartBoot(r)
  <2> DEFINE j == [NoJob EXCEPT !.op = "boot"]
  <2>1. j \in Job /\ ControlOK("boot", j) /\ "boot" \in Steps
    BY NoJobType DEF NoJob, Job, ControlOK, At, OperationsAt, Steps, AllOperations
  <2>2. job'[r] = j
    BY <1>1 DEF StartBoot, LocalsOK
  <2> QED
    BY <1>1, <2>1, <2>2, LocalStep DEF StartBoot
<1>2. CASE Bootstrap(r)
  <2> DEFINE j == [job[r] EXCEPT !.back = "idle", !.target = None]
  <2>1. j \in Job /\ j.op = job[r].op /\ j.session = job[r].session /\ j.user = job[r].user
        /\ j.account = job[r].account
    BY <1>0 DEF Job, Steps
  <2>2. job' = [job EXCEPT ![r] = j] /\ job'[r] = j
    BY <1>2 DEF Bootstrap, LocalsOK
  <2> HIDE DEF j
  <2>3. job[r].back \in {"boot", "login", "caller", "handle"} /\ job[r].back \in Steps
    BY <1>0, <1>2 DEF Bootstrap, ControlOK, Steps
  <2>4. ControlOK(job[r].back, j)
    BY <1>0, <1>2, <2>1, <2>3 DEF Bootstrap, ControlOK, At, OperationsAt, AllOperations
  <2> QED
    BY <1>2, <2>1, <2>2, <2>3, <2>4, LocalStep DEF Bootstrap
<1>3. CASE Touch(r)
  <2>1. job[r].account \in Account
    BY <1>0, <1>3 DEF Touch, ControlOK, At
  <2> QED
    BY <1>3, <2>1, AdmitType DEF Touch
<1>4. CASE SaveUsers(r)
  <2>1. CASE AfterUsers(job[r].op) = "idle"
    BY <1>4, <2>1, AnswerType DEF SaveUsers
  <2>2. CASE AfterUsers(job[r].op) # "idle"
    BY <1>4, <2>2, AfterUsersType, LocalStep, EmptyType DEF SaveUsers
  <2> QED
    BY <2>1, <2>2
<1>5. CASE SaveSessions(r)
  BY <1>5, AnswerType DEF SaveSessions
<1>6. CASE SaveFails(r)
  BY <1>6, AnswerType DEF SaveFails
<1>7. CASE UsersReadFails(r)
  <2>1. CASE ToBootstrap(r) /\ pc[r] \in {"boot", "login", "caller", "handle"}
    BY <2>1, ToBootstrapType
  <2>2. CASE Answer(r)
    BY <2>2, AnswerType
  <2>3. CASE pc[r] = "handle" /\ job[r].op = "create" /\ Created(r, Empty)
    BY <2>3, CreatedType, HandleType, EmptyType
  <2> QED
    BY <1>7, <2>1, <2>2, <2>3 DEF UsersReadFails
<1>8. CASE SessionsReadFails(r)
  <2>1. ControlOK("saveSessions", job[r])
    BY <1>0, <1>8 DEF SessionsReadFails, ControlOK, At, OperationsAt, AllOperations
  <2>2. pc[r] = "openSession" => Opened(r, Empty) \in SessionFile
    BY OpenedType, EmptyType
  <2> QED
    BY <1>8, <2>1, <2>2, EmptyType, PrepareSessionsType DEF SessionsReadFails
<1> QED
  BY <1>1, <1>2, <1>3, <1>4, <1>5, <1>6, <1>7, <1>8

LEMMA CrashType ==
    ASSUME Crash
    PROVE  LocalsOK'
<1>1. pc' \in [Requests -> Steps] /\ job' \in [Requests -> Job]
  BY NoJobType DEF Crash, Steps
<1>2. newUsers' \in [Requests -> Users] /\ newSessions' \in [Requests -> SessionFile]
  BY EmptyType DEF Crash
<1>3. \A q \in Requests : pc'[q] = "idle" /\ job'[q] = NoJob
  BY DEF Crash
<1>4. \A q \in Requests : ControlOK(pc[q], job[q])'
  BY <1>3, NoJobType DEF ControlOK, At, OperationsAt, Admitted
<1> QED
  BY <1>1, <1>2, <1>4 DEF LocalsOK

\* The record of the built-in account as it is created.
LEMMA BuiltInType ==
    ASSUME NEW id \in Ids
    PROVE  [x \in {id} |-> [name |-> Admin, password |-> Default,
                            role |-> "administrator", mustChange |-> TRUE]] \in Users
<1>1. [name |-> Admin, password |-> Default, role |-> "administrator", mustChange |-> TRUE] \in Account
  BY AuthAssumption DEF Account, Roles
<1>2. [x \in {id} |-> [name |-> Admin, password |-> Default,
                        role |-> "administrator", mustChange |-> TRUE]] \in [{id} -> Account]
  BY <1>1
<1> QED
  BY <1>2, UsersIntro

\* The steps of a request that are only about its own variables.
Reads(r) ==
    \/ Boot(r) \/ Cleanup(r) \/ Authenticate(r) \/ OpenSession(r) \/ ReadCaller(r)
    \/ Respond(r) \/ ChangePassword(r) \/ CreateUser(r) \/ ResetPassword(r) \/ UpdateRole(r)
    \/ DeleteUser(r) \/ CloseSessions(r)

LEMMA ReadsKeep ==
    ASSUME NEW r \in Requests, Reads(r)
    PROVE  UNCHANGED <<files, revoked, world>>
<1>1. CASE Boot(r)
  BY <1>1 DEF Boot
<1>2. CASE Cleanup(r)
  BY <1>2 DEF Cleanup
<1>3. CASE Authenticate(r)
  BY <1>3 DEF Authenticate
<1>4. CASE OpenSession(r)
  BY <1>4 DEF OpenSession
<1>5. CASE ReadCaller(r)
  BY <1>5 DEF ReadCaller
<1>6. CASE Respond(r)
  BY <1>6 DEF Respond
<1>7. CASE ChangePassword(r)
  BY <1>7 DEF ChangePassword
<1>8. CASE CreateUser(r)
  BY <1>8 DEF CreateUser
<1>9. CASE ResetPassword(r)
  BY <1>9 DEF ResetPassword
<1>10. CASE UpdateRole(r)
  BY <1>10 DEF UpdateRole
<1>11. CASE DeleteUser(r)
  BY <1>11 DEF DeleteUser
<1>12. CASE CloseSessions(r)
  BY <1>12 DEF CloseSessions
<1> QED
  BY <1>1, <1>2, <1>3, <1>4, <1>5, <1>6, <1>7, <1>8, <1>9, <1>10, <1>11, <1>12 DEF Reads

LEMMA FilesType ==
    ASSUME TypeInv, Next
    PROVE  FilesOK'
<1> USE DEF TypeInv
<1>1. CASE \E r \in Requests : Bootstrap(r)
  <2>1. PICK r \in Requests : Bootstrap(r)
    BY <1>1
  <2>2. job[r].target \in Ids
    BY <2>1 DEF Bootstrap, LocalsOK, ControlOK
  <2>3. users' \in Users
    BY <2>1, <2>2, BuiltInType DEF Bootstrap
  <2> QED
    BY <2>1, <2>3 DEF Bootstrap, FilesOK
<1>2. CASE \E r \in Requests : Touch(r)
  BY <1>2 DEF Touch, FilesOK, LocalsOK
<1>3. CASE \E r \in Requests : SaveUsers(r)
  BY <1>3 DEF SaveUsers, FilesOK, LocalsOK
<1>4. CASE \E r \in Requests : SaveSessions(r)
  BY <1>4, EndedType DEF SaveSessions, FilesOK, LocalsOK
<1>5. CASE UNCHANGED files /\ UNCHANGED revoked
  BY <1>5 DEF files, FilesOK
<1>6. ASSUME NEW r \in Requests, Start(r) \/ Continue(r) \/ Fault(r)
      PROVE  \/ Bootstrap(r) \/ Touch(r) \/ SaveUsers(r) \/ SaveSessions(r)
             \/ UNCHANGED files /\ UNCHANGED revoked
  <2>1. CASE Start(r)
    BY <2>1 DEF Start, StartBoot, StartLogin, StartRequest
  <2>2. CASE Reads(r)
    BY <2>2, ReadsKeep
  <2>3. CASE SaveFails(r)
    BY <2>3 DEF SaveFails
  <2>4. CASE UsersReadFails(r) \/ SessionsReadFails(r)
    BY <2>4 DEF UsersReadFails, SessionsReadFails
  <2> QED
    BY <1>6, <2>1, <2>2, <2>3, <2>4 DEF Continue, Reads, Fault
<1>7. CASE Crash \/ Tick
  BY <1>5, <1>7 DEF Crash, Tick
<1> QED
  BY <1>1, <1>2, <1>3, <1>4, <1>5, <1>6, <1>7 DEF Next

LEMMA WorldType ==
    ASSUME TypeInv, Next
    PROVE  WorldOK'
<1> USE DEF TypeInv
<1>1. CASE UNCHANGED world
  BY <1>1 DEF world, WorldOK
<1>2. ASSUME NEW kind, Disturb(kind), now' = now, booted' \in BOOLEAN, intact' \in BOOLEAN
      PROVE  WorldOK'
  BY <1>2, AuthAssumption DEF Disturb, WorldOK
<1>3. ASSUME NEW r \in Requests, Start(r) PROVE WorldOK'
  BY <1>1, <1>3 DEF Start, StartBoot, StartLogin, StartRequest, WorldOK
<1>4. ASSUME NEW r \in Requests, Continue(r) PROVE UNCHANGED world
  <2>1. CASE Reads(r)
    BY <2>1, ReadsKeep
  <2>2. CASE Bootstrap(r) \/ Touch(r) \/ SaveUsers(r) \/ SaveSessions(r)
    BY <2>2 DEF Bootstrap, Touch, SaveUsers, SaveSessions
  <2> QED
    BY <1>4, <2>1, <2>2 DEF Continue, Reads
<1>5. ASSUME NEW r \in Requests, Fault(r) PROVE WorldOK'
  BY <1>2, <1>5 DEF Fault, SaveFails, UsersReadFails, SessionsReadFails, WorldOK
<1>6. CASE Crash
  BY <1>2, <1>6 DEF Crash, WorldOK
<1>7. CASE Tick
  BY <1>7, AuthAssumption DEF Tick, WorldOK
<1> QED
  BY <1>1, <1>3, <1>4, <1>5, <1>6, <1>7 DEF Next

LEMMA TypeStep ==
    ASSUME TypeInv, [Next]_vars
    PROVE  TypeInv'
<1>1. CASE Next
  <2>1. LocalsOK'
    <3>1. ASSUME NEW r \in Requests, Start(r) \/ Continue(r) \/ Fault(r) PROVE LocalsOK'
      BY <3>1, ReadStepType, SaveStepType DEF Start, Continue, Fault
    <3>2. CASE Tick
      BY <3>2 DEF Tick, locals, TypeInv, LocalsOK, ControlOK, At, OperationsAt, Admitted
    <3> QED
      BY <1>1, <3>1, <3>2, CrashType DEF Next
  <2> QED
    BY <1>1, <2>1, FilesType, WorldType DEF TypeInv
<1>2. CASE UNCHANGED vars
  <2>1. LocalsOK'
    BY <1>2 DEF vars, locals, TypeInv, LocalsOK, ControlOK, At, OperationsAt, Admitted
  <2> QED
    BY <1>2, <2>1 DEF vars, files, world, TypeInv, FilesOK, WorldOK
<1> QED
  BY <1>1, <1>2

LEMMA TypeInit ==
    ASSUME Init
    PROVE  TypeInv
<1>1. \A q \in Requests : pc[q] = "idle" /\ job[q] = NoJob
  BY DEF Init
<1>2. LocalsOK
  BY <1>1, NoJobType, EmptyType DEF Init, LocalsOK, Steps
<1>3. FilesOK
  BY EmptyType DEF Init, FilesOK
<1>4. WorldOK
  <2>1. 0 \in 0..MaxTime /\ 0 \in 0..MaxDisturbances
    BY AuthAssumption
  <2> QED
    BY <2>1 DEF Init, WorldOK
<1> QED
  BY <1>2, <1>3, <1>4 DEF TypeInv

LEMMA TypeInvariant == Spec => []TypeInv
BY TypeInit, TypeStep, PTL DEF Spec

\* Every variable keeps its type: the files hold accounts and sessions as the
\* types of authService.ts say, and a request is at one of its steps.
THEOREM TypeCorrect == Spec => []TypeOK
BY TypeInvariant, TypeInvImpliesTypeOK, PTL

-----------------------------------------------------------------------------
\* A step of a request leaves the others where they are.

OthersKeep(r) ==
    \A q \in Requests \ {r} :
        /\ pc'[q] = pc[q] /\ job'[q] = job[q]
        /\ newUsers'[q] = newUsers[q] /\ newSessions'[q] = newSessions[q]

LEMMA AnswerOwn ==
    ASSUME TypeInv, NEW r \in Requests, Answer(r)
    PROVE  /\ OthersKeep(r) /\ pc'[r] = "idle" /\ job'[r] = NoJob
           /\ newUsers'[r] = Empty /\ newSessions'[r] = Empty
BY DEF TypeInv, LocalsOK, Answer, Goto, OthersKeep

LEMMA ToBootstrapOwn ==
    ASSUME TypeInv, NEW r \in Requests, ToBootstrap(r)
    PROVE  /\ OthersKeep(r) /\ pc'[r] = "bootstrap"
           /\ newUsers'[r] = newUsers[r] /\ newSessions'[r] = newSessions[r]
           /\ job'[r].back = pc[r] /\ job'[r].account = job[r].account
           /\ job'[r].op = job[r].op /\ job'[r].session = job[r].session
           /\ job'[r].user = job[r].user
<1>1. PICK id \in FreshIds : job' = [job EXCEPT ![r] = [@ EXCEPT !.back = pc[r], !.target = id]]
  BY DEF ToBootstrap
<1>2. job[r] \in Job
  BY DEF TypeInv, LocalsOK
<1>3. job'[r] = [job[r] EXCEPT !.back = pc[r], !.target = id]
  BY <1>1 DEF TypeInv, LocalsOK
<1>4. /\ job'[r].back = pc[r] /\ job'[r].account = job[r].account
      /\ job'[r].op = job[r].op /\ job'[r].session = job[r].session
      /\ job'[r].user = job[r].user
  BY <1>2, <1>3 DEF Job
<1> QED
  BY <1>1, <1>4 DEF TypeInv, LocalsOK, ToBootstrap, Goto, OthersKeep

LEMMA PrepareUsersOwn ==
    ASSUME TypeInv, NEW r \in Requests, NEW j, NEW u, PrepareUsers(r, j, u)
    PROVE  /\ OthersKeep(r) /\ pc'[r] = "saveUsers" /\ job'[r] = j
           /\ newUsers'[r] = u /\ newSessions'[r] = newSessions[r]
BY DEF TypeInv, LocalsOK, PrepareUsers, Goto, OthersKeep

LEMMA PrepareSessionsOwn ==
    ASSUME TypeInv, NEW r \in Requests, NEW f, PrepareSessions(r, f)
    PROVE  /\ OthersKeep(r) /\ pc'[r] = "saveSessions" /\ job'[r] = job[r]
           /\ newUsers'[r] = newUsers[r] /\ newSessions'[r] = f
BY DEF TypeInv, LocalsOK, PrepareSessions, Goto, OthersKeep

LEMMA AdmitOwn ==
    ASSUME TypeInv, NEW r \in Requests, NEW a, Admit(r, a)
    PROVE  /\ OthersKeep(r) /\ newSessions'[r] = Empty
           /\ \/ pc'[r] = "idle" /\ newUsers'[r] = Empty
              \/ /\ pc'[r] \in {"closeSessions", "handle"} /\ newUsers'[r] = newUsers[r]
                 /\ job'[r].account = a /\ job'[r].op = job[r].op
                 /\ job'[r].session = job[r].session /\ job'[r].user = job[r].user
                 /\ pc'[r] = "closeSessions" => job[r].op = "logout"
<1>1. CASE Admitted(job[r].op, a)
  <2>1. job'[r] = [job[r] EXCEPT !.account = a] /\ job[r] \in Job
    BY <1>1 DEF Admit, TypeInv, LocalsOK
  <2>2. /\ job'[r].account = a /\ job'[r].op = job[r].op
        /\ job'[r].session = job[r].session /\ job'[r].user = job[r].user
    BY <2>1 DEF Job
  <2> QED
    BY <1>1, <2>2 DEF Admit, TypeInv, LocalsOK, Goto, OthersKeep
<1>2. CASE ~Admitted(job[r].op, a)
  BY <1>2, AnswerOwn DEF Admit
<1> QED
  BY <1>1, <1>2

-----------------------------------------------------------------------------
\* What the operations on accounts keep.

LEMMA SoundEdit ==
    ASSUME NEW u \in Users, Sound(u), NEW id \in DOMAIN u, NEW a, a.name = u[id].name,
           u[id].name = Admin /\ u[id].role = "administrator" => a.role = "administrator"
    PROVE  Sound([u EXCEPT ![id] = a])
<1> DEFINE v == [u EXCEPT ![id] = a]
<1>1. DOMAIN v = DOMAIN u /\ \A x \in DOMAIN u : v[x] = IF x = id THEN a ELSE u[x]
  BY UsersDomain
<1> HIDE DEF v
<1>2. \A x \in DOMAIN u : v[x].name = u[x].name
  BY <1>1
<1>3. PICK b \in DOMAIN u : u[b].name = Admin /\ u[b].role = "administrator"
  BY DEF Sound
<1>4. v[b].name = Admin /\ v[b].role = "administrator"
  BY <1>1, <1>3
<1>5. \A x, y \in DOMAIN v : v[x].name = v[y].name => x = y
  BY <1>1, <1>2 DEF Sound
<1>6. Sound(v)
  BY <1>1, <1>4, <1>5 DEF Sound
<1> QED
  BY <1>6 DEF v

LEMMA SoundPut ==
    ASSUME NEW u \in Users, Sound(u), NEW id, id \notin DOMAIN u, NEW a, a.name \notin NamesOf(u)
    PROVE  Sound(Put(u, id, a))
<1> DEFINE v == Put(u, id, a)
<1>1. DOMAIN v = DOMAIN u \cup {id} /\ v[id] = a /\ \A x \in DOMAIN u : v[x] = u[x]
  BY DEF Put
<1> HIDE DEF v
<1>2. \A x \in DOMAIN u : u[x].name # a.name
  BY DEF NamesOf
<1>3. \A x, y \in DOMAIN v : v[x].name = v[y].name => x = y
  BY <1>1, <1>2 DEF Sound
<1>4. Sound(v)
  BY <1>1, <1>3 DEF Sound
<1> QED
  BY <1>4 DEF v

LEMMA SoundDrop ==
    ASSUME NEW u \in Users, Sound(u), NEW id \in DOMAIN u, u[id].name # Admin
    PROVE  Sound(Drop(u, {id}))
<1> DEFINE v == Drop(u, {id})
<1>1. DOMAIN v = DOMAIN u \ {id} /\ \A x \in DOMAIN v : v[x] = u[x]
  BY DEF Drop, Restrict
<1> HIDE DEF v
<1>2. Sound(v)
  BY <1>1 DEF Sound
<1> QED
  BY <1>2 DEF v

LEMMA SoundNonEmpty ==
    ASSUME NEW u, Sound(u)
    PROVE  u # Empty
BY NonEmpty DEF Sound

\* A default password is to be changed.
Marked(a) == a.password = Default => a.mustChange
AllMarked(u) == \A id \in DOMAIN u : Marked(u[id])

LEMMA MarkedEmpty == AllMarked(Empty)
BY EmptyType DEF AllMarked

LEMMA MarkedEdit ==
    ASSUME NEW u \in Users, AllMarked(u), NEW id \in DOMAIN u, NEW a, Marked(a)
    PROVE  AllMarked([u EXCEPT ![id] = a])
BY UsersDomain DEF AllMarked

LEMMA MarkedPut ==
    ASSUME NEW u, AllMarked(u), NEW id, NEW a, Marked(a)
    PROVE  AllMarked(Put(u, id, a))
BY DEF AllMarked, Put

LEMMA MarkedDrop ==
    ASSUME NEW u, AllMarked(u), NEW S
    PROVE  AllMarked(Drop(u, S))
BY DEF AllMarked, Drop, Restrict

\* The account that createUser adds.
LEMMA CreatedKeeps ==
    ASSUME TypeInv, NEW r \in Requests, NEW u \in Users, Created(r, u),
           \A id \in FreshIds : id \notin DOMAIN u
    PROVE  /\ OthersKeep(r) /\ pc'[r] = "saveUsers" /\ job'[r] = job[r]
           /\ Sound(u) => Sound(newUsers'[r])
           /\ AllMarked(u) => AllMarked(newUsers'[r])
<1>1. PICK id \in FreshIds, name \in Names \ NamesOf(u), password \in Passwords \ {Default}, role \in Roles :
        PrepareUsers(r, job[r], Put(u, id, [name |-> name, password |-> password,
                                            role |-> role, mustChange |-> TRUE]))
  BY DEF Created
<1> DEFINE a == [name |-> name, password |-> password, role |-> role, mustChange |-> TRUE]
<1>2. a.name = name /\ a.password # Default
  OBVIOUS
<1>3. newUsers'[r] = Put(u, id, a) /\ OthersKeep(r) /\ pc'[r] = "saveUsers" /\ job'[r] = job[r]
  BY <1>1, PrepareUsersOwn
<1> HIDE DEF a
<1>4. Sound(u) => Sound(Put(u, id, a))
  BY <1>2, SoundPut
<1>5. AllMarked(u) => AllMarked(Put(u, id, a))
  BY <1>2, MarkedPut DEF Marked
<1> QED
  BY <1>3, <1>4, <1>5

-----------------------------------------------------------------------------
\* AdminKept. What a request is about to save is sound too, and no request is
\* past the middleware while there is no account.

UsersKept == users = Empty \/ Sound(users)

AdminAt(r) ==
    /\ pc[r] = "saveUsers" => Sound(newUsers[r])
    /\ pc[r] \in {"touch", "handle"} => users # Empty
    /\ pc[r] = "bootstrap" => job[r].back # "handle"

AdminInv == intact => UsersKept /\ \A r \in Requests : AdminAt(r)

\* What is left to show of a step of request r.
LEMMA AdminLocal ==
    ASSUME intact => UsersKept /\ \A q \in Requests : AdminAt(q),
           intact' => intact,
           NEW r \in Requests, OthersKeep(r),
           intact /\ users # Empty => users' # Empty,
           intact /\ UsersKept => UsersKept',
           intact' => AdminAt(r)'
    PROVE  AdminInv'
<1> SUFFICES ASSUME intact' PROVE UsersKept' /\ \A q \in Requests : AdminAt(q)'
  BY DEF AdminInv
<1>1. UsersKept'
  OBVIOUS
<1>2. ASSUME NEW q \in Requests, q # r PROVE AdminAt(q)'
  BY <1>2 DEF OthersKeep, AdminAt
<1> QED
  BY <1>1, <1>2

LEMMA AdminStep ==
    ASSUME TypeInv, AdminInv, NEW r \in Requests, Start(r) \/ Continue(r) \/ Fault(r)
    PROVE  AdminInv'
<1>0. intact => UsersKept /\ AdminAt(r)
  BY DEF AdminInv
<1>t. /\ users \in Users /\ newUsers[r] \in Users /\ job[r] \in Job
      /\ intact \in BOOLEAN /\ \A id \in FreshIds : id \notin DOMAIN users
  BY DEF TypeInv, LocalsOK, FilesOK, WorldOK, FreshIds
\* The accounts do not change.
<1>k. ASSUME users' = users, intact' = intact, OthersKeep(r), intact => AdminAt(r)'
      PROVE  AdminInv'
  BY <1>k, AdminLocal DEF AdminInv, UsersKept
<1>1. CASE StartBoot(r) \/ StartLogin(r) \/ StartRequest(r)
  <2>1. OthersKeep(r) /\ pc'[r] \in {"boot", "login", "caller"} /\ users' = users /\ intact' = intact
    BY <1>1 DEF StartBoot, StartLogin, StartRequest, Goto, OthersKeep, TypeInv, LocalsOK, files, world
  <2> QED
    BY <1>k, <2>1 DEF AdminAt
<1>2. CASE Bootstrap(r)
  <2>1. OthersKeep(r) /\ pc'[r] = job[r].back /\ intact' = intact
    BY <1>2 DEF Bootstrap, Goto, OthersKeep, TypeInv, LocalsOK, world
  <2>2. Sound(users') /\ users' # Empty
    <3>1. /\ DOMAIN users' = {job[r].target}
          /\ users'[job[r].target].name = Admin
          /\ users'[job[r].target].role = "administrator"
      BY <1>2 DEF Bootstrap
    <3>2. Sound(users')
      BY <3>1 DEF Sound
    <3> QED
      BY <3>2, SoundNonEmpty
  <2>3. job[r].back \in {"boot", "login", "caller", "handle"}
    BY <1>2 DEF Bootstrap, TypeInv, LocalsOK, ControlOK
  <2>4. AdminAt(r)'
    BY <2>1, <2>2, <2>3 DEF AdminAt
  <2>5. UsersKept'
    BY <2>2 DEF UsersKept, Sound
  <2> QED
    BY <2>1, <2>2, <2>4, <2>5, AdminLocal DEF AdminInv
<1>3. ASSUME Answer(r) \/ (ToBootstrap(r) /\ pc[r] # "handle") \/ \E f : PrepareSessions(r, f),
             users' = users, intact' = intact
      PROVE  AdminInv'
  <2>1. OthersKeep(r)
    BY <1>3, AnswerOwn, ToBootstrapOwn, PrepareSessionsOwn
  <2>2. AdminAt(r)'
    BY <1>3, AnswerOwn, ToBootstrapOwn, PrepareSessionsOwn DEF AdminAt
  <2> QED
    BY <1>3, <1>k, <2>1, <2>2
<1>4. ASSUME NEW j, NEW u, PrepareUsers(r, j, u), intact => Sound(u),
             users' = users, intact' = intact
      PROVE  AdminInv'
  <2>1. OthersKeep(r) /\ pc'[r] = "saveUsers" /\ newUsers'[r] = u
    BY <1>4, PrepareUsersOwn
  <2>2. intact => AdminAt(r)'
    BY <1>4, <2>1 DEF AdminAt, Sound
  <2> QED
    BY <1>4, <1>k, <2>1, <2>2
<1>5. CASE Boot(r)
  <2>1. CASE users = Empty
    BY <1>3, <1>5, <2>1 DEF Boot, files, world
  <2>2. CASE users # Empty
    <3>1. OthersKeep(r) /\ pc'[r] = "cleanup" /\ users' = users /\ intact' = intact
      BY <1>5, <2>2 DEF Boot, Goto, OthersKeep, TypeInv, LocalsOK, files, world
    <3> QED
      BY <1>k, <3>1 DEF AdminAt
  <2> QED
    BY <2>1, <2>2
<1>6. CASE Cleanup(r) \/ OpenSession(r) \/ CloseSessions(r) \/ Respond(r)
  <2>1. users' = users /\ intact' = intact
    BY <1>6 DEF Cleanup, OpenSession, CloseSessions, Respond, files, world
  <2>2. Answer(r) \/ \E f : PrepareSessions(r, f)
    BY <1>6 DEF Cleanup, OpenSession, CloseSessions, Respond
  <2> QED
    BY <1>3, <2>1, <2>2
<1>7. CASE Authenticate(r)
  <2>1. users' = users /\ intact' = intact /\ pc[r] = "login"
    BY <1>7 DEF Authenticate, files, world
  <2>2. CASE users = Empty
    BY <1>3, <1>7, <2>1, <2>2 DEF Authenticate
  <2>3. CASE users # Empty
    <3>1. intact => Sound(users)
      BY <1>0, <2>3 DEF UsersKept
    <3>2. Answer(r) \/ \E j : PrepareUsers(r, j, users)
      BY <1>7, <2>3 DEF Authenticate
    <3> QED
      BY <1>3, <1>4, <2>1, <3>1, <3>2
  <2> QED
    BY <2>2, <2>3
<1>8. CASE ReadCaller(r)
  <2>1. users' = users /\ intact' = intact /\ pc[r] = "caller"
    BY <1>8 DEF ReadCaller, files, world
  <2>2. CASE users = Empty
    BY <1>3, <1>8, <2>1, <2>2 DEF ReadCaller
  <2>3. CASE users # Empty
    <3>1. CASE Answer(r)
      BY <1>3, <2>1, <3>1
    <3>2. CASE Admit(r, users[job[r].user])
      <4>1. OthersKeep(r) /\ pc'[r] \in {"idle", "closeSessions", "handle"}
        BY <3>2, AdmitOwn
      <4> QED
        BY <1>k, <2>1, <2>3, <4>1 DEF AdminAt
    <3>3. CASE Goto(r, "touch") /\ UNCHANGED <<newUsers, newSessions>>
               /\ job' = [job EXCEPT ![r] = [@ EXCEPT !.account = users[job[r].user]]]
      <4>1. OthersKeep(r) /\ pc'[r] = "touch"
        BY <3>3 DEF Goto, OthersKeep, TypeInv, LocalsOK
      <4> QED
        BY <1>k, <2>1, <2>3, <4>1 DEF AdminAt
    <3> QED
      BY <1>8, <2>3, <3>1, <3>2, <3>3 DEF ReadCaller
  <2> QED
    BY <2>2, <2>3
<1>9. CASE Touch(r)
  <2>1. users' = users /\ intact' = intact /\ pc[r] = "touch" /\ Admit(r, job[r].account)
    BY <1>9 DEF Touch, world
  <2>2. OthersKeep(r) /\ pc'[r] \in {"idle", "closeSessions", "handle"}
    BY <2>1, AdmitOwn
  <2> QED
    BY <1>0, <1>k, <2>1, <2>2 DEF AdminAt
\* The handlers.
<1>h. ASSUME pc[r] = "handle", intact PROVE Sound(users)
  BY <1>0, <1>h DEF AdminAt, UsersKept
<1>10. CASE ChangePassword(r)
  <2>1. PICK password \in Passwords \ {Default, users[job[r].user].password} :
          PrepareUsers(r, job[r], [users EXCEPT ![job[r].user] =
                                     [@ EXCEPT !.password = password, !.mustChange = FALSE]])
    BY <1>10 DEF ChangePassword
  <2> DEFINE id == job[r].user
             a == [users[id] EXCEPT !.password = password, !.mustChange = FALSE]
  <2>2. id \in DOMAIN users /\ pc[r] = "handle" /\ users' = users /\ intact' = intact
    BY <1>10 DEF ChangePassword, files, world
  <2>3. a.name = users[id].name /\ a.role = users[id].role
    BY <1>t, <2>2, UsersDomain DEF Account
  <2>4. PrepareUsers(r, job[r], [users EXCEPT ![id] = a])
    BY <2>1
  <2> HIDE DEF a, id
  <2>5. intact => Sound([users EXCEPT ![id] = a])
    BY <1>t, <1>h, <2>2, <2>3, SoundEdit
  <2> QED
    BY <1>4, <2>2, <2>4, <2>5
<1>11. CASE CreateUser(r)
  <2>1. Created(r, users) /\ users' = users /\ intact' = intact /\ pc[r] = "handle"
    BY <1>11 DEF CreateUser, files, world
  <2>2. OthersKeep(r) /\ pc'[r] = "saveUsers" /\ (intact => Sound(newUsers'[r]))
    BY <1>t, <1>h, <2>1, CreatedKeeps
  <2>3. intact => AdminAt(r)'
    BY <2>2 DEF AdminAt, Sound
  <2> QED
    BY <1>k, <2>1, <2>2, <2>3
<1>12. CASE ResetPassword(r)
  <2>1. PICK target \in DOMAIN users, password \in Passwords \ {Default} :
          PrepareUsers(r, [job[r] EXCEPT !.target = target],
                       [users EXCEPT ![target] = [@ EXCEPT !.password = password, !.mustChange = TRUE]])
    BY <1>12 DEF ResetPassword
  <2> DEFINE a == [users[target] EXCEPT !.password = password, !.mustChange = TRUE]
             j == [job[r] EXCEPT !.target = target]
  <2>2. pc[r] = "handle" /\ users' = users /\ intact' = intact
    BY <1>12 DEF ResetPassword, files, world
  <2>3. a.name = users[target].name /\ a.role = users[target].role
    BY <1>t, UsersDomain DEF Account
  <2>4. PrepareUsers(r, j, [users EXCEPT ![target] = a])
    BY <2>1
  <2> HIDE DEF a, j
  <2>5. intact => Sound([users EXCEPT ![target] = a])
    BY <1>t, <1>h, <2>2, <2>3, SoundEdit
  <2> QED
    BY <1>4, <2>2, <2>4, <2>5
<1>13. CASE UpdateRole(r)
  <2>1. PICK target \in DOMAIN users, role \in Roles :
          /\ role # "administrator" => users[target].name # Admin
          /\ PrepareUsers(r, [job[r] EXCEPT !.target = target],
                          [users EXCEPT ![target] = [@ EXCEPT !.role = role]])
    BY <1>13 DEF UpdateRole
  <2> DEFINE a == [users[target] EXCEPT !.role = role]
             j == [job[r] EXCEPT !.target = target]
  <2>2. pc[r] = "handle" /\ users' = users /\ intact' = intact
    BY <1>13 DEF UpdateRole, files, world
  <2>3. a.name = users[target].name /\ a.role = role
    BY <1>t, UsersDomain DEF Account
  <2>4. PrepareUsers(r, j, [users EXCEPT ![target] = a])
    BY <2>1
  <2> HIDE DEF a, j
  <2>5. intact => Sound([users EXCEPT ![target] = a])
    BY <1>t, <1>h, <2>1, <2>2, <2>3, SoundEdit
  <2> QED
    BY <1>4, <2>2, <2>4, <2>5
<1>14. CASE DeleteUser(r)
  <2>1. PICK target \in DOMAIN users :
          /\ users[target].name # Admin
          /\ PrepareUsers(r, [job[r] EXCEPT !.target = target], Drop(users, {target}))
    BY <1>14 DEF DeleteUser
  <2>2. pc[r] = "handle" /\ users' = users /\ intact' = intact
    BY <1>14 DEF DeleteUser, files, world
  <2>3. intact => Sound(Drop(users, {target}))
    BY <1>t, <1>h, <2>1, <2>2, SoundDrop
  <2> QED
    BY <1>4, <2>1, <2>2, <2>3
<1>15. CASE SaveUsers(r)
  <2>1. users' = newUsers[r] /\ intact' = intact /\ pc[r] = "saveUsers"
    BY <1>15 DEF SaveUsers, world
  <2>2. OthersKeep(r) /\ pc'[r] \in {"idle", "openSession", "closeSessions"}
    <3>1. CASE AfterUsers(job[r].op) = "idle"
      BY <1>15, <3>1, AnswerOwn DEF SaveUsers
    <3>2. CASE AfterUsers(job[r].op) # "idle"
      <4>1. AfterUsers(job[r].op) \in {"openSession", "closeSessions"}
        BY <3>2 DEF AfterUsers
      <4> QED
        BY <1>15, <3>2, <4>1 DEF SaveUsers, Goto, OthersKeep, TypeInv, LocalsOK
    <3> QED
      BY <3>1, <3>2
  <2>3. AdminAt(r)'
    BY <2>2 DEF AdminAt
  <2>4. intact => Sound(users') /\ users' # Empty
    BY <1>0, <2>1, SoundNonEmpty DEF AdminAt
  <2>5. intact => UsersKept'
    BY <2>4 DEF UsersKept, Sound
  <2> QED
    BY <2>1, <2>2, <2>3, <2>4, <2>5, AdminLocal DEF AdminInv
<1>16. CASE SaveSessions(r)
  BY <1>3, <1>16 DEF SaveSessions, world
<1>17. CASE SaveFails(r)
  BY <1>3, <1>17 DEF SaveFails, files
<1>18. CASE UsersReadFails(r)
  BY <1>18 DEF UsersReadFails, AdminInv
<1>19. CASE SessionsReadFails(r)
  BY <1>3, <1>19 DEF SessionsReadFails, files
<1> QED
  BY <1>1, <1>2, <1>5, <1>6, <1>7, <1>8, <1>9, <1>10, <1>11, <1>12, <1>13, <1>14, <1>15,
     <1>16, <1>17, <1>18, <1>19
  DEF Start, Continue, Fault

LEMMA AdminInvStep ==
    ASSUME TypeInv, AdminInv, [Next]_vars
    PROVE  AdminInv'
<1>1. CASE \E r \in Requests : Start(r) \/ Continue(r) \/ Fault(r)
  BY <1>1, AdminStep
<1>2. CASE Crash
  BY <1>2 DEF Crash, AdminInv, UsersKept, AdminAt, files
<1>3. CASE Tick \/ UNCHANGED vars
  <2>1. /\ users' = users /\ intact' = intact /\ pc' = pc /\ job' = job /\ newUsers' = newUsers
    BY <1>3 DEF Tick, vars, files, locals, world
  <2> QED
    BY <2>1 DEF AdminInv, UsersKept, AdminAt
<1> QED
  BY <1>1, <1>2, <1>3 DEF Next

\* As long as every read of users.json has given what the file holds, the
\* accounts are none, or the built-in one administers them and names are
\* unique: for any number of requests that overlap, failed saves and restarts.
\* (createUser, updateUserRole, deleteUser: the checks before each save.)
THEOREM AdminCorrect == Spec => []AdminKept
<1>1. Init => AdminInv
  BY DEF Init, AdminInv, UsersKept, AdminAt
<1>2. Spec => []AdminInv
  BY <1>1, TypeInvariant, AdminInvStep, PTL DEF Spec
<1>3. AdminInv => AdminKept
  BY DEF AdminInv, UsersKept, AdminKept
<1> QED
  BY <1>2, <1>3, PTL

-----------------------------------------------------------------------------
\* DefaultPasswordUseless. Wherever the default password is, in the file or in
\* a snapshot of it, it is marked as one to change.

AccountMarked(r) ==
    At(pc[r], job[r]) \in {"touch", "handle"} => Marked(job[r].account)

MarkInv ==
    /\ AllMarked(users)
    /\ \A r \in Requests : AllMarked(newUsers[r]) /\ AccountMarked(r)

LEMMA MarkLocal ==
    ASSUME MarkInv, NEW r \in Requests, OthersKeep(r),
           AllMarked(users'), AllMarked(newUsers'[r]), AccountMarked(r)'
    PROVE  MarkInv'
<1>1. ASSUME NEW q \in Requests, q # r
      PROVE  AllMarked(newUsers'[q]) /\ AccountMarked(q)'
  BY <1>1 DEF OthersKeep, MarkInv, AccountMarked, At, Marked
<1>2. \A q \in Requests : AllMarked(newUsers'[q]) /\ AccountMarked(q)'
  BY <1>1
<1>3. \A q \in Requests : AllMarked(newUsers[q])'
  BY <1>2 DEF AllMarked, Marked
<1>4. AllMarked(users)'
  BY DEF AllMarked, Marked
<1> QED
  BY <1>2, <1>3, <1>4 DEF MarkInv

LEMMA MarkStep ==
    ASSUME TypeInv, MarkInv, NEW r \in Requests, Start(r) \/ Continue(r) \/ Fault(r)
    PROVE  MarkInv'
<1>0. AllMarked(users) /\ AllMarked(newUsers[r]) /\ AccountMarked(r)
  BY DEF MarkInv
<1>t. users \in Users /\ newUsers[r] \in Users /\ job[r] \in Job
  BY DEF TypeInv, LocalsOK, FilesOK
<1>1. ASSUME AllMarked(users'), Answer(r)
      PROVE  MarkInv'
  <2>1. OthersKeep(r) /\ pc'[r] = "idle" /\ newUsers'[r] = Empty
    BY <1>1, AnswerOwn
  <2>2. AccountMarked(r)'
    BY <2>1 DEF AccountMarked, At
  <2> QED
    BY <1>1, <2>1, <2>2, MarkedEmpty, MarkLocal
<1>2. ASSUME users' = users, ToBootstrap(r), pc[r] # "touch", pc[r] # "bootstrap"
      PROVE  MarkInv'
  <2>1. /\ OthersKeep(r) /\ pc'[r] = "bootstrap" /\ newUsers'[r] = newUsers[r]
        /\ job'[r].back = pc[r] /\ job'[r].account = job[r].account
    BY <1>2, ToBootstrapOwn
  <2>2. AccountMarked(r)'
    BY <1>0, <1>2, <2>1 DEF AccountMarked, At, Marked
  <2> QED
    BY <1>0, <1>2, <2>1, <2>2, MarkLocal
<1>3. ASSUME users' = users, NEW f, PrepareSessions(r, f)
      PROVE  MarkInv'
  <2>1. OthersKeep(r) /\ pc'[r] = "saveSessions" /\ newUsers'[r] = newUsers[r]
    BY <1>3, PrepareSessionsOwn
  <2>2. AccountMarked(r)'
    BY <2>1 DEF AccountMarked, At
  <2> QED
    BY <1>0, <1>3, <2>1, <2>2, MarkLocal
<1>4. ASSUME users' = users, NEW j, NEW u, PrepareUsers(r, j, u), AllMarked(u)
      PROVE  MarkInv'
  <2>1. OthersKeep(r) /\ pc'[r] = "saveUsers" /\ newUsers'[r] = u
    BY <1>4, PrepareUsersOwn
  <2>2. AccountMarked(r)'
    BY <2>1 DEF AccountMarked, At
  <2> QED
    BY <1>0, <1>4, <2>1, <2>2, MarkLocal
<1>5. ASSUME users' = users, NEW u \in Users, AllMarked(u), Created(r, u),
             \A id \in FreshIds : id \notin DOMAIN u
      PROVE  MarkInv'
  <2>1. OthersKeep(r) /\ pc'[r] = "saveUsers" /\ AllMarked(newUsers'[r])
    BY <1>5, CreatedKeeps
  <2>2. AccountMarked(r)'
    BY <2>1 DEF AccountMarked, At
  <2> QED
    BY <1>0, <1>5, <2>1, <2>2, MarkLocal
\* Past the middleware with the account a.
<1>6. ASSUME users' = users, NEW a, Admit(r, a), Marked(a)
      PROVE  MarkInv'
  <2>1. CASE pc'[r] = "idle" /\ newUsers'[r] = Empty
    <3>1. AccountMarked(r)'
      BY <2>1 DEF AccountMarked, At
    <3> QED
      BY <1>0, <1>6, <2>1, <3>1, AdmitOwn, MarkedEmpty, MarkLocal
  <2>2. CASE /\ pc'[r] \in {"closeSessions", "handle"} /\ newUsers'[r] = newUsers[r]
             /\ job'[r].account = a
    <3>1. AccountMarked(r)'
      BY <1>6, <2>2 DEF AccountMarked, At, Marked
    <3> QED
      BY <1>0, <1>6, <2>2, <3>1, AdmitOwn, MarkLocal
  <2> QED
    BY <1>6, <2>1, <2>2, AdmitOwn
<1>7. CASE StartBoot(r) \/ StartLogin(r) \/ StartRequest(r)
  <2>1. OthersKeep(r) /\ pc'[r] \in {"boot", "login", "caller"} /\ users' = users
    BY <1>7 DEF StartBoot, StartLogin, StartRequest, Goto, OthersKeep, TypeInv, LocalsOK, files
  <2>2. AccountMarked(r)' /\ newUsers'[r] = newUsers[r]
    BY <1>7, <2>1 DEF AccountMarked, At, StartBoot, StartLogin, StartRequest
  <2> QED
    BY <1>0, <2>1, <2>2, MarkLocal
<1>8. CASE Bootstrap(r)
  <2>1. OthersKeep(r) /\ pc'[r] = job[r].back /\ newUsers'[r] = newUsers[r]
    BY <1>8 DEF Bootstrap, Goto, OthersKeep, TypeInv, LocalsOK
  <2>2. AllMarked(users')
    BY <1>8 DEF Bootstrap, AllMarked, Marked
  <2>3. job[r].back \in {"boot", "login", "caller", "handle"} /\ pc[r] = "bootstrap"
    BY <1>8 DEF Bootstrap, TypeInv, LocalsOK, ControlOK
  <2>4. job'[r].account = job[r].account
    <3>1. job'[r] = [job[r] EXCEPT !.back = "idle", !.target = None]
      BY <1>8 DEF Bootstrap, TypeInv, LocalsOK
    <3> QED
      BY <1>t, <3>1 DEF Job
  <2>5. AccountMarked(r)'
    BY <1>0, <2>1, <2>3, <2>4 DEF AccountMarked, At, Marked
  <2> QED
    BY <1>0, <2>1, <2>2, <2>5, MarkLocal
<1>9. CASE Boot(r)
  <2>1. users' = users /\ pc[r] = "boot"
    BY <1>9 DEF Boot, files
  <2>2. CASE users = Empty
    BY <1>2, <1>9, <2>1, <2>2 DEF Boot
  <2>3. CASE users # Empty
    <3>1. OthersKeep(r) /\ pc'[r] = "cleanup" /\ newUsers'[r] = newUsers[r]
      BY <1>9, <2>3 DEF Boot, Goto, OthersKeep, TypeInv, LocalsOK
    <3>2. AccountMarked(r)'
      BY <3>1 DEF AccountMarked, At
    <3> QED
      BY <1>0, <2>1, <3>1, <3>2, MarkLocal
  <2> QED
    BY <2>2, <2>3
<1>10. CASE Cleanup(r) \/ OpenSession(r) \/ CloseSessions(r) \/ SessionsReadFails(r)
  <2>1. users' = users /\ \E f : PrepareSessions(r, f)
    BY <1>10 DEF Cleanup, OpenSession, CloseSessions, SessionsReadFails, files
  <2> QED
    BY <1>3, <2>1
<1>11. CASE Respond(r) \/ SaveFails(r) \/ SaveSessions(r)
  <2>1. users' = users /\ Answer(r)
    BY <1>11 DEF Respond, SaveFails, SaveSessions, files
  <2> QED
    BY <1>0, <1>1, <2>1
<1>12. CASE Authenticate(r)
  <2>1. users' = users /\ pc[r] = "login"
    BY <1>12 DEF Authenticate, files
  <2>2. ToBootstrap(r) \/ Answer(r) \/ \E j : PrepareUsers(r, j, users)
    BY <1>12 DEF Authenticate
  <2> QED
    BY <1>0, <1>1, <1>2, <1>4, <2>1, <2>2
<1>13. CASE ReadCaller(r)
  <2>1. users' = users /\ pc[r] = "caller"
    BY <1>13 DEF ReadCaller, files
  <2>2. CASE ToBootstrap(r) \/ Answer(r)
    BY <1>0, <1>1, <1>2, <2>1, <2>2
  <2>3. CASE job[r].user \in DOMAIN users
    <3>1. Marked(users[job[r].user])
      BY <1>0, <2>3 DEF AllMarked
    <3>2. CASE Admit(r, users[job[r].user])
      BY <1>6, <2>1, <3>1, <3>2
    <3>3. CASE Goto(r, "touch") /\ UNCHANGED <<newUsers, newSessions>>
               /\ job' = [job EXCEPT ![r] = [@ EXCEPT !.account = users[job[r].user]]]
      <4>1. job'[r] = [job[r] EXCEPT !.account = users[job[r].user]]
        BY <3>3 DEF TypeInv, LocalsOK
      <4>2. job'[r].account = users[job[r].user]
        BY <1>t, <4>1 DEF Job
      <4>3. OthersKeep(r) /\ pc'[r] = "touch" /\ newUsers'[r] = newUsers[r]
        BY <3>3 DEF Goto, OthersKeep, TypeInv, LocalsOK
      <4>4. AccountMarked(r)'
        BY <3>1, <4>2, <4>3 DEF AccountMarked, At, Marked
      <4> QED
        BY <1>0, <2>1, <4>3, <4>4, MarkLocal
    <3> QED
      BY <1>13, <2>2, <2>3, <3>2, <3>3 DEF ReadCaller
  <2> QED
    BY <1>13, <2>2, <2>3 DEF ReadCaller
<1>14. CASE Touch(r)
  <2>1. users' = users /\ Admit(r, job[r].account)
    BY <1>14 DEF Touch
  <2>2. Marked(job[r].account)
    BY <1>0, <1>14 DEF Touch, AccountMarked, At
  <2> QED
    BY <1>6, <2>1, <2>2
<1>15. CASE ChangePassword(r)
  <2>1. PICK password \in Passwords \ {Default, users[job[r].user].password} :
          PrepareUsers(r, job[r], [users EXCEPT ![job[r].user] =
                                     [@ EXCEPT !.password = password, !.mustChange = FALSE]])
    BY <1>15 DEF ChangePassword
  <2> DEFINE id == job[r].user
             a == [users[id] EXCEPT !.password = password, !.mustChange = FALSE]
  <2>2. id \in DOMAIN users /\ users' = users
    BY <1>15 DEF ChangePassword, files
  <2>3. a.password = password
    BY <1>t, <2>2, UsersDomain DEF Account
  <2>4. PrepareUsers(r, job[r], [users EXCEPT ![id] = a])
    BY <2>1
  <2> HIDE DEF a, id
  <2>5. AllMarked([users EXCEPT ![id] = a])
    BY <1>0, <1>t, <2>1, <2>2, <2>3, MarkedEdit DEF Marked
  <2> QED
    BY <1>4, <2>2, <2>4, <2>5
<1>16. CASE CreateUser(r)
  <2>1. users' = users /\ Created(r, users) /\ \A id \in FreshIds : id \notin DOMAIN users
    BY <1>16 DEF CreateUser, files, FreshIds
  <2> QED
    BY <1>0, <1>t, <1>5, <2>1
<1>17. CASE ResetPassword(r)
  <2>1. PICK target \in DOMAIN users, password \in Passwords \ {Default} :
          PrepareUsers(r, [job[r] EXCEPT !.target = target],
                       [users EXCEPT ![target] = [@ EXCEPT !.password = password, !.mustChange = TRUE]])
    BY <1>17 DEF ResetPassword
  <2> DEFINE a == [users[target] EXCEPT !.password = password, !.mustChange = TRUE]
             j == [job[r] EXCEPT !.target = target]
  <2>2. users' = users
    BY <1>17 DEF ResetPassword, files
  <2>3. a.password = password
    BY <1>t, UsersDomain DEF Account
  <2>4. PrepareUsers(r, j, [users EXCEPT ![target] = a])
    BY <2>1
  <2> HIDE DEF a, j
  <2>5. AllMarked([users EXCEPT ![target] = a])
    BY <1>0, <1>t, <2>1, <2>3, MarkedEdit DEF Marked
  <2> QED
    BY <1>4, <2>2, <2>4, <2>5
<1>18. CASE UpdateRole(r)
  <2>1. PICK target \in DOMAIN users, role \in Roles :
          PrepareUsers(r, [job[r] EXCEPT !.target = target],
                       [users EXCEPT ![target] = [@ EXCEPT !.role = role]])
    BY <1>18 DEF UpdateRole
  <2> DEFINE a == [users[target] EXCEPT !.role = role]
             j == [job[r] EXCEPT !.target = target]
  <2>2. users' = users
    BY <1>18 DEF UpdateRole, files
  <2>3. a.password = users[target].password /\ a.mustChange = users[target].mustChange
    BY <1>t, UsersDomain DEF Account
  <2>4. PrepareUsers(r, j, [users EXCEPT ![target] = a])
    BY <2>1
  <2> HIDE DEF a, j
  <2>5. Marked(a)
    BY <1>0, <2>3 DEF AllMarked, Marked
  <2>6. AllMarked([users EXCEPT ![target] = a])
    BY <1>0, <1>t, <2>5, MarkedEdit
  <2> QED
    BY <1>4, <2>2, <2>4, <2>6
<1>19. CASE DeleteUser(r)
  <2>1. users' = users /\ \E j, target : PrepareUsers(r, j, Drop(users, {target}))
    BY <1>19 DEF DeleteUser, files
  <2> QED
    BY <1>0, <1>4, <2>1, MarkedDrop
<1>20. CASE SaveUsers(r)
  <2>1. AllMarked(users')
    BY <1>0, <1>20 DEF SaveUsers
  <2>2. CASE AfterUsers(job[r].op) = "idle"
    BY <1>1, <1>20, <2>1, <2>2 DEF SaveUsers
  <2>3. CASE AfterUsers(job[r].op) # "idle"
    <3>1. AfterUsers(job[r].op) \in {"openSession", "closeSessions"}
      BY <2>3 DEF AfterUsers
    <3>2. /\ OthersKeep(r) /\ pc'[r] \in {"openSession", "closeSessions"}
          /\ newUsers'[r] = Empty
      BY <1>20, <2>3, <3>1 DEF SaveUsers, Goto, OthersKeep, TypeInv, LocalsOK
    <3>3. AccountMarked(r)'
      BY <3>2 DEF AccountMarked, At
    <3> QED
      BY <2>1, <3>2, <3>3, MarkedEmpty, MarkLocal
  <2> QED
    BY <2>2, <2>3
<1>21. CASE UsersReadFails(r)
  <2>1. users' = users
    BY <1>21 DEF UsersReadFails, files
  <2>2. CASE ToBootstrap(r) /\ pc[r] \in {"boot", "login", "caller", "handle"}
    BY <1>2, <2>1, <2>2
  <2>3. CASE Answer(r)
    BY <1>0, <1>1, <2>1, <2>3
  <2>4. CASE Created(r, Empty)
    BY <1>5, <2>1, <2>4, EmptyType, MarkedEmpty
  <2> QED
    BY <1>21, <2>2, <2>3, <2>4 DEF UsersReadFails
<1> QED
  BY <1>7, <1>8, <1>9, <1>10, <1>11, <1>12, <1>13, <1>14, <1>15, <1>16, <1>17, <1>18, <1>19,
     <1>20, <1>21
  DEF Start, Continue, Fault

LEMMA MarkInvStep ==
    ASSUME TypeInv, MarkInv, [Next]_vars
    PROVE  MarkInv'
<1>1. CASE \E r \in Requests : Start(r) \/ Continue(r) \/ Fault(r)
  BY <1>1, MarkStep
<1>2. CASE Crash
  <2>1. /\ users' = users
        /\ \A q \in Requests : pc'[q] = "idle" /\ newUsers'[q] = Empty
    BY <1>2 DEF Crash, files
  <2>2. \A q \in Requests : AccountMarked(q)'
    BY <2>1 DEF AccountMarked, At
  <2>3. AllMarked(users)' /\ \A q \in Requests : AllMarked(newUsers[q])'
    BY <2>1, MarkedEmpty DEF MarkInv, AllMarked, Marked
  <2> QED
    BY <2>2, <2>3 DEF MarkInv
<1>3. CASE Tick \/ UNCHANGED vars
  <2>1. users' = users /\ pc' = pc /\ job' = job /\ newUsers' = newUsers
    BY <1>3 DEF Tick, vars, files, locals
  <2> QED
    BY <2>1 DEF MarkInv, AllMarked, Marked, AccountMarked, At
<1> QED
  BY <1>1, <1>2, <1>3 DEF Next

\* No request but a change of password gets past the middleware with the
\* default password: whatever overlaps, fails or restarts, and whatever files
\* are lost. (index.ts line 74 and 87; changeOwnPassword, line 219.)
THEOREM DefaultPasswordCorrect == Spec => []DefaultPasswordUseless
<1>1. Init => MarkInv
  <2> SUFFICES ASSUME Init PROVE MarkInv
    OBVIOUS
  <2>1. users = Empty /\ \A r \in Requests : pc[r] = "idle" /\ newUsers[r] = Empty
    BY DEF Init
  <2> QED
    BY <2>1, MarkedEmpty DEF MarkInv, AccountMarked, At
<1>2. Spec => [](TypeInv /\ MarkInv)
  BY <1>1, TypeInvariant, MarkInvStep, PTL DEF Spec
<1>3. TypeInv /\ MarkInv => DefaultPasswordUseless
  <2> SUFFICES ASSUME TypeInv, MarkInv, NEW r \in Requests, pc[r] = "handle", job[r].op # "change"
               PROVE  job[r].account.password # Default
    BY DEF DefaultPasswordUseless
  <2>1. Admitted(job[r].op, job[r].account) /\ job[r].op # "logout"
    BY DEF TypeInv, LocalsOK, ControlOK, At, OperationsAt
  <2>2. Marked(job[r].account)
    BY DEF MarkInv, AccountMarked, At
  <2> QED
    BY <2>1, <2>2 DEF Admitted, Marked
<1> QED
  BY <1>2, <1>3, PTL
=============================================================================
