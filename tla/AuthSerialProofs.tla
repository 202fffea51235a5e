--------------------------- MODULE AuthSerialProofs ----------------------------
(***************************************************************************)
(* Proofs about Auth when requests come one at a time: sessions that have  *)
(* ended do not come back, and the service implements AccountStore.        *)
(***************************************************************************)
EXTENDS AuthProofs

\* RevokedStayRevoked, when requests come one at a time. No save that is under
\* way brings back a session that has ended or is about to end.

Serial == \A r, q \in Requests : r = q

RevokedAt(r) ==
    /\ DOMAIN newSessions[r] \cap revoked = {}
    /\ job[r].op = "login" /\ pc[r] \in {"saveUsers", "openSession"} =>
         job[r].session \notin revoked
    /\ pc[r] = "saveSessions" => DOMAIN newSessions[r] \cap Ended(job[r], sessions) = {}

RevokedInv == RevokedStayRevoked /\ \A r \in Requests : RevokedAt(r)

LEMMA EndedPrime ==
    ASSUME NEW r \in Requests
    PROVE  Ended(job[r], sessions)' = Ended(job'[r], sessions')
BY DEF Ended

LEMMA RevokedStep ==
    ASSUME Serial, TypeInv, RevokedInv, NEW r \in Requests, Start(r) \/ Continue(r) \/ Fault(r)
    PROVE  RevokedInv'
<1>0. RevokedStayRevoked /\ RevokedAt(r) /\ ControlOK(pc[r], job[r])
  BY DEF RevokedInv, TypeInv, LocalsOK
<1>t. sessions \in SessionFile /\ newSessions[r] \in SessionFile /\ job[r] \in Job
  BY DEF TypeInv, LocalsOK, FilesOK
<1>r. ASSUME RevokedStayRevoked', RevokedAt(r)' PROVE RevokedInv'
  BY <1>r DEF Serial, RevokedInv
<1>1. ASSUME Answer(r), RevokedStayRevoked' PROVE RevokedInv'
  <2>1. pc'[r] = "idle" /\ newSessions'[r] = Empty
    BY <1>1, AnswerOwn
  <2>2. RevokedAt(r)'
    BY <2>1, EmptyType DEF RevokedAt
  <2> QED
    BY <1>r, <1>1, <2>2
\* The sessions do not change, and none are about to be saved.
<1>2. ASSUME UNCHANGED <<sessions, revoked>>, DOMAIN newSessions'[r] \cap revoked = {},
             pc'[r] # "saveSessions",
             pc'[r] \in {"saveUsers", "openSession"} /\ job'[r].op = "login" =>
               job'[r].session \notin revoked
      PROVE  RevokedInv'
  <2>1. RevokedStayRevoked'
    BY <1>0, <1>2 DEF RevokedStayRevoked
  <2>2. RevokedAt(r)'
    BY <1>2 DEF RevokedAt
  <2> QED
    BY <1>r, <2>1, <2>2
<1>3. ASSUME UNCHANGED <<sessions, revoked>>, NEW f, PrepareSessions(r, f),
             DOMAIN f \cap revoked = {}, DOMAIN f \cap Ended(job[r], sessions) = {}
      PROVE  RevokedInv'
  <2>1. pc'[r] = "saveSessions" /\ job'[r] = job[r] /\ newSessions'[r] = f
    BY <1>3, PrepareSessionsOwn
  <2>2. Ended(job[r], sessions)' = Ended(job[r], sessions)
    BY <1>3, <2>1, EndedPrime
  <2>3. RevokedAt(r)'
    BY <1>3, <2>1, <2>2 DEF RevokedAt
  <2>4. RevokedStayRevoked'
    BY <1>0, <1>3 DEF RevokedStayRevoked
  <2> QED
    BY <1>r, <2>3, <2>4
<1>4. ASSUME UNCHANGED <<sessions, revoked>>, ToBootstrap(r) PROVE RevokedInv'
  BY <1>0, <1>2, <1>4, ToBootstrapOwn DEF RevokedAt
<1>5. ASSUME UNCHANGED <<sessions, revoked>>, pc[r] = "handle",
             NEW j \in Job, j.op = job[r].op, NEW u, PrepareUsers(r, j, u)
      PROVE  RevokedInv'
  <2>1. job[r].op # "login"
    BY <1>0, <1>5 DEF ControlOK, At, OperationsAt, AllOperations
  <2> QED
    BY <1>0, <1>2, <1>5, <2>1, PrepareUsersOwn DEF RevokedAt
<1>6. CASE StartBoot(r) \/ StartLogin(r)
  <2>1. /\ pc'[r] \in {"boot", "login"} /\ newSessions' = newSessions
        /\ UNCHANGED <<sessions, revoked>>
    BY <1>6 DEF StartBoot, StartLogin, Goto, TypeInv, LocalsOK, files
  <2> QED
    BY <1>0, <1>2, <2>1 DEF RevokedAt
<1>7. CASE StartRequest(r)
  <2>1. PICK op \in Operations, s \in Live(sessions) :
          newSessions' = [newSessions EXCEPT ![r] =
            IF Stale(sessions, s) THEN [sessions EXCEPT ![s].seen = now] ELSE Empty]
    BY <1>7 DEF StartRequest
  <2>2. DOMAIN newSessions'[r] \subseteq DOMAIN sessions
    BY <2>1, EmptyType DEF TypeInv, LocalsOK
  <2>3. pc'[r] = "caller" /\ UNCHANGED <<sessions, revoked>>
    BY <1>7 DEF StartRequest, Goto, TypeInv, LocalsOK, files
  <2> QED
    BY <1>0, <1>2, <2>2, <2>3 DEF RevokedStayRevoked
<1>8. CASE Bootstrap(r)
  <2>1. /\ pc'[r] = job[r].back /\ newSessions' = newSessions
        /\ UNCHANGED <<sessions, revoked>>
    BY <1>8 DEF Bootstrap, Goto, TypeInv, LocalsOK
  <2>2. job[r].back \in {"boot", "login", "caller", "handle"}
    BY <1>0, <1>8 DEF Bootstrap, ControlOK
  <2> QED
    BY <1>0, <1>2, <2>1, <2>2 DEF RevokedAt
<1>9. CASE Boot(r)
  <2>1. UNCHANGED <<sessions, revoked>>
    BY <1>9 DEF Boot, files
  <2>2. CASE users # Empty
    <3>1. pc'[r] = "cleanup" /\ newSessions' = newSessions
      BY <1>9, <2>2 DEF Boot, Goto, TypeInv, LocalsOK
    <3> QED
      BY <1>0, <1>2, <2>1, <3>1 DEF RevokedAt
  <2> QED
    BY <1>4, <1>9, <2>1, <2>2 DEF Boot
<1>10. CASE Cleanup(r)
  <2>1. UNCHANGED <<sessions, revoked>> /\ PrepareSessions(r, Restrict(sessions, Live(sessions)))
    BY <1>10 DEF Cleanup, files
  <2>2. DOMAIN Restrict(sessions, Live(sessions)) \cap revoked = {}
    BY <1>0, <1>t, LiveDomain, RestrictSessions DEF RevokedStayRevoked
  <2>3. Ended(job[r], sessions) = {}
    BY <1>0, <1>10 DEF Cleanup, ControlOK, At, OperationsAt, Ended
  <2> QED
    BY <1>3, <2>1, <2>2, <2>3
<1>11. CASE Authenticate(r)
  <2>1. UNCHANGED <<sessions, revoked>>
    BY <1>11 DEF Authenticate, files
  <2>2. ASSUME NEW id \in DOMAIN users, NEW new \in FreshSessions,
               PrepareUsers(r, [job[r] EXCEPT !.user = id, !.session = new], users)
        PROVE  RevokedInv'
    <3> DEFINE j == [job[r] EXCEPT !.user = id, !.session = new]
    <3>0. j.session = new
      BY <1>t DEF Job
    <3> HIDE DEF j
    <3>1. pc'[r] = "saveUsers" /\ job'[r].session = new /\ newSessions'[r] = newSessions[r]
      BY <2>2, <3>0, PrepareUsersOwn DEF j
    <3>2. new \notin revoked
      BY DEF FreshSessions
    <3> QED
      BY <1>0, <1>2, <2>1, <3>1, <3>2 DEF RevokedAt
  <2>3. CASE Answer(r)
    BY <1>0, <1>1, <2>1, <2>3 DEF RevokedStayRevoked
  <2> QED
    BY <1>4, <1>11, <2>1, <2>2, <2>3 DEF Authenticate
\* createSession, after a read of the sessions f.
<1>12. ASSUME UNCHANGED <<sessions, revoked>>, pc[r] = "openSession",
              NEW f \in SessionFile, DOMAIN f \cap revoked = {}, PrepareSessions(r, Opened(r, f))
       PROVE  RevokedInv'
  <2>1. job[r].op = "login" /\ job[r].session \in Sessions /\ job[r].user \in Ids
    BY <1>0, <1>12 DEF ControlOK, At, OperationsAt
  <2>2. job[r].session \notin revoked
    BY <1>0, <1>12, <2>1 DEF RevokedAt
  <2>3. DOMAIN Opened(r, f) \subseteq DOMAIN f \cup {job[r].session}
    <3>1. DOMAIN Restrict(f, Live(f)) \subseteq DOMAIN f
      BY <1>12, LiveDomain, RestrictSessions
    <3> QED
      BY <3>1 DEF Opened, Put
  <2>4. Ended(job[r], sessions) = {}
    BY <2>1 DEF Ended
  <2>5. DOMAIN Opened(r, f) \cap revoked = {}
    BY <1>12, <2>2, <2>3
  <2> QED
    BY <1>3, <1>12, <2>4, <2>5
<1>13. CASE OpenSession(r)
  <2>1. /\ UNCHANGED <<sessions, revoked>> /\ pc[r] = "openSession"
        /\ PrepareSessions(r, Opened(r, sessions))
    BY <1>13 DEF OpenSession, files
  <2> QED
    BY <1>0, <1>t, <1>12, <2>1 DEF RevokedStayRevoked
<1>14. CASE ReadCaller(r)
  <2>1. UNCHANGED <<sessions, revoked>> /\ pc[r] = "caller"
    BY <1>14 DEF ReadCaller, files
  <2>2. CASE ToBootstrap(r)
    BY <1>4, <2>1, <2>2
  <2>3. CASE Answer(r)
    BY <1>0, <1>1, <2>1, <2>3 DEF RevokedStayRevoked
  <2>4. CASE Admit(r, users[job[r].user])
    <3>1. newSessions'[r] = Empty /\ pc'[r] \in {"idle", "closeSessions", "handle"}
      BY <2>4, AdmitOwn
    <3> QED
      BY <1>2, <2>1, <3>1, EmptyType
  <2>5. CASE Goto(r, "touch") /\ UNCHANGED <<newUsers, newSessions>>
    <3>1. pc'[r] = "touch" /\ newSessions' = newSessions
      BY <2>5 DEF Goto, TypeInv, LocalsOK
    <3> QED
      BY <1>0, <1>2, <2>1, <3>1 DEF RevokedAt
  <2> QED
    BY <1>14, <2>2, <2>3, <2>4, <2>5 DEF ReadCaller
<1>15. CASE Touch(r)
  <2>1. sessions' = newSessions[r] /\ revoked' = revoked
    BY <1>15 DEF Touch
  <2>2. newSessions'[r] = Empty /\ pc'[r] \in {"idle", "closeSessions", "handle"}
    BY <1>15, AdmitOwn DEF Touch
  <2>3. RevokedStayRevoked'
    BY <1>0, <2>1 DEF RevokedStayRevoked, RevokedAt
  <2>4. RevokedAt(r)'
    BY <2>2, EmptyType DEF RevokedAt
  <2> QED
    BY <1>r, <2>3, <2>4
<1>16. CASE Respond(r) \/ SaveFails(r)
  <2>1. UNCHANGED <<sessions, revoked>> /\ Answer(r)
    BY <1>16 DEF Respond, SaveFails, files
  <2> QED
    BY <1>0, <1>1, <2>1 DEF RevokedStayRevoked
<1>17. CASE ChangePassword(r) \/ CreateUser(r) \/ ResetPassword(r) \/ UpdateRole(r) \/ DeleteUser(r)
            \/ (UsersReadFails(r) /\ Created(r, Empty) /\ pc[r] = "handle")
  <2>1. UNCHANGED <<sessions, revoked>> /\ pc[r] = "handle"
    BY <1>17 DEF ChangePassword, CreateUser, ResetPassword, UpdateRole, DeleteUser,
                 UsersReadFails, files
  <2>2. (\E u : PrepareUsers(r, job[r], u))
          \/ \E u, target : PrepareUsers(r, [job[r] EXCEPT !.target = target], u)
    BY <1>17 DEF ChangePassword, CreateUser, ResetPassword, UpdateRole, DeleteUser,
                 UsersReadFails, Created
  <2>3. CASE \E u : PrepareUsers(r, job[r], u)
    BY <1>5, <1>t, <2>1, <2>3
  <2>4. CASE \E u, target : PrepareUsers(r, [job[r] EXCEPT !.target = target], u)
    <3>1. PICK u, target : PrepareUsers(r, [job[r] EXCEPT !.target = target], u)
      BY <2>4
    <3>2. job'[r] = [job[r] EXCEPT !.target = target] /\ pc'[r] = "saveUsers"
          /\ newSessions'[r] = newSessions[r]
      BY <3>1, PrepareUsersOwn
    <3>3. job'[r].op = job[r].op
      BY <1>t, <3>2 DEF Job
    <3>4. job[r].op # "login"
      BY <1>0, <2>1 DEF ControlOK, At, OperationsAt, AllOperations
    <3> QED
      BY <1>0, <1>2, <2>1, <3>2, <3>3, <3>4 DEF RevokedAt
  <2> QED
    BY <2>2, <2>3, <2>4
<1>18. CASE SaveUsers(r)
  <2>1. UNCHANGED <<sessions, revoked>> /\ pc[r] = "saveUsers"
    BY <1>18 DEF SaveUsers
  <2>2. CASE AfterUsers(job[r].op) = "idle"
    BY <1>0, <1>1, <1>18, <2>1, <2>2 DEF SaveUsers, RevokedStayRevoked
  <2>3. CASE AfterUsers(job[r].op) # "idle"
    <3>1. AfterUsers(job[r].op) \in {"openSession", "closeSessions"}
      BY <2>3 DEF AfterUsers
    <3>2. /\ pc'[r] \in {"openSession", "closeSessions"} /\ job' = job
          /\ newSessions' = newSessions
      BY <1>18, <2>3, <3>1 DEF SaveUsers, Goto, TypeInv, LocalsOK
    <3> QED
      BY <1>0, <1>2, <2>1, <3>2 DEF RevokedAt
  <2> QED
    BY <2>2, <2>3
<1>19. CASE CloseSessions(r)
  <2> DEFINE f == Drop(sessions, Ended(job[r], sessions))
  <2>1. UNCHANGED <<sessions, revoked>> /\ PrepareSessions(r, f)
    BY <1>19 DEF CloseSessions, files
  <2>2. DOMAIN f = DOMAIN sessions \ Ended(job[r], sessions)
    BY <1>t, DropSessions
  <2> HIDE DEF f
  <2> QED
    BY <1>0, <1>3, <2>1, <2>2 DEF RevokedStayRevoked
<1>20. CASE SaveSessions(r)
  <2>1. /\ sessions' = newSessions[r] /\ revoked' = revoked \cup Ended(job[r], sessions)
        /\ Answer(r) /\ pc[r] = "saveSessions"
    BY <1>20 DEF SaveSessions
  <2>2. RevokedStayRevoked'
    BY <1>0, <2>1 DEF RevokedStayRevoked, RevokedAt
  <2> QED
    BY <1>1, <2>1, <2>2
<1>21. CASE UsersReadFails(r)
  <2>1. UNCHANGED <<sessions, revoked>>
    BY <1>21 DEF UsersReadFails, files
  <2>2. ToBootstrap(r) \/ Answer(r) \/ (pc[r] = "handle" /\ Created(r, Empty))
    BY <1>21 DEF UsersReadFails
  <2>3. CASE Answer(r)
    BY <1>0, <1>1, <2>1, <2>3 DEF RevokedStayRevoked
  <2> QED
    BY <1>4, <1>17, <1>21, <2>1, <2>2, <2>3
<1>22. CASE SessionsReadFails(r)
  <2>1. UNCHANGED <<sessions, revoked>>
    BY <1>22 DEF SessionsReadFails, files
  <2>2. CASE PrepareSessions(r, Empty)
    BY <1>3, <2>1, <2>2, EmptyType
  <2>3. CASE pc[r] = "openSession" /\ PrepareSessions(r, Opened(r, Empty))
    BY <1>12, <2>1, <2>3, EmptyType
  <2> QED
    BY <1>22, <2>2, <2>3 DEF SessionsReadFails
<1> QED
  BY <1>6, <1>7, <1>8, <1>9, <1>10, <1>11, <1>13, <1>14, <1>15, <1>16, <1>17, <1>18, <1>19,
     <1>20, <1>21, <1>22
  DEF Start, Continue, Fault

LEMMA RevokedInvStep ==
    ASSUME Serial, TypeInv, RevokedInv, [Next]_vars
    PROVE  RevokedInv'
<1>1. CASE \E r \in Requests : Start(r) \/ Continue(r) \/ Fault(r)
  BY <1>1, RevokedStep
<1>2. CASE Crash
  <2>1. /\ UNCHANGED <<sessions, revoked>>
        /\ \A r \in Requests : pc'[r] = "idle" /\ newSessions'[r] = Empty
    BY <1>2 DEF Crash, files
  <2>2. \A r \in Requests : RevokedAt(r)'
    BY <2>1, EmptyType DEF RevokedAt
  <2> QED
    BY <2>1, <2>2 DEF RevokedInv, RevokedStayRevoked
<1>3. CASE Tick \/ UNCHANGED vars
  <2>1. /\ UNCHANGED <<sessions, revoked, pc, job, newSessions>>
    BY <1>3 DEF Tick, vars, files, locals
  <2>2. \A r \in Requests : Ended(job[r], sessions)' = Ended(job[r], sessions)
    BY <2>1, EndedPrime
  <2> QED
    BY <2>1, <2>2 DEF RevokedInv, RevokedStayRevoked, RevokedAt
<1> QED
  BY <1>1, <1>2, <1>3 DEF Next

\* When requests come one at a time, a session that a logout, a change or reset
\* of a password or a deletion has ended never comes back, whatever fails and
\* whatever reads come out empty. (authService.ts line 228.)
THEOREM RevokedCorrect ==
    ASSUME Serial
    PROVE  Spec => []RevokedStayRevoked
<1>1. Init => RevokedInv
  <2> SUFFICES ASSUME Init PROVE RevokedInv
    OBVIOUS
  <2>1. /\ sessions = Empty /\ revoked = {}
        /\ \A r \in Requests : pc[r] = "idle" /\ newSessions[r] = Empty
    BY DEF Init
  <2> QED
    BY <2>1 DEF RevokedInv, RevokedStayRevoked, RevokedAt
<1>2. TypeInv /\ RevokedInv /\ [Next]_vars => RevokedInv'
  BY RevokedInvStep
<1>3. Spec => []RevokedInv
  BY <1>1, <1>2, TypeInvariant, PTL DEF Spec
<1> QED
  BY <1>3, PTL DEF RevokedInv

-----------------------------------------------------------------------------
\* ImplementsStore, when requests come one at a time and reads succeed. What is
\* about to be saved is one step of the store away from what the file holds.

NoBadReads == "read" \notin Disturbances

\* The changes of one account that AccountStore allows.
AccountStep(u, v) ==
    \/ v = u
    \/ \E id \in Ids \ DOMAIN u, name \in Names, password \in Passwords, role \in Roles :
         /\ \A other \in DOMAIN u : u[other].name # name
         /\ DOMAIN u = {} => name = Admin /\ role = "administrator"
         /\ v = Put(u, id, [name |-> name, password |-> password,
                            role |-> role, mustChange |-> TRUE])
    \/ \E id \in DOMAIN u, password \in Passwords, must \in BOOLEAN :
         v = [u EXCEPT ![id] = [@ EXCEPT !.password = password, !.mustChange = must]]
    \/ \E id \in DOMAIN u, role \in Roles :
         /\ u[id].name = Admin => role = "administrator"
         /\ v = [u EXCEPT ![id] = [@ EXCEPT !.role = role]]
    \/ \E id \in DOMAIN u : u[id].name # Admin /\ v = Drop(u, {id})

LiveAt(f, t) == {s \in DOMAIN f : t < f[s].seen + Ttl}
OwnedBy(f, id) == {s \in DOMAIN f : f[s].owner = id}

\* The changes of the sessions that AccountStore allows, with the accounts u at time n.
Prolonged(f, g, n) ==
    \E t \in 0..n : \E s \in LiveAt(f, t) : g = [f EXCEPT ![s] = [@ EXCEPT !.seen = t]]

SessionStep(u, f, g, n) ==
    \/ g = f
    \/ \E s \in Sessions \ DOMAIN f, id \in DOMAIN u, t \in 0..n :
         g = Put(Restrict(f, LiveAt(f, t)), s, [owner |-> id, seen |-> t])
    \/ \E t \in 0..n : g = Restrict(f, LiveAt(f, t))
    \/ \E s \in DOMAIN f : g = Drop(f, {s})
    \/ \E id \in Ids : g = Drop(f, OwnedBy(f, id))
    \/ \E s \in DOMAIN f : g = Drop(f, OwnedBy(f, f[s].owner) \ {s})

\* The session of the caller is there until the operation ends it.
HasSession(j, f) == j.session \in DOMAIN f /\ f[j.session].owner = j.user

\* A request at a step, with its job j and the files v and g it is about to
\* save, while the files are u and f and the time is n.
StoreFor(step, j, u, v, f, g, n) ==
    /\ step = "bootstrap" => u = Empty
    /\ step \in {"touch", "handle"} => u # Empty
    /\ j.op \in AllOperations /\ step # "saveSessions" => HasSession(j, f)
    /\ At(step, j) = "caller" /\ g # Empty => Prolonged(f, g, n)
    /\ step = "touch" => Prolonged(f, g, n)
    /\ j.op \in {"reset", "delete"} /\ step \in {"saveUsers", "closeSessions"} => j.target \in Ids
    /\ j.op = "login" /\ step \in {"saveUsers", "openSession"} =>
         j.user \in DOMAIN u /\ j.session \notin DOMAIN f
    /\ j.op = "login" /\ step = "saveUsers" => v = u
    /\ step = "saveUsers" => AccountStep(u, v)
    /\ step = "saveSessions" => SessionStep(u, f, g, n)

StoreInv ==
    \A r \in Requests :
        StoreFor(pc[r], job[r], users, newUsers[r], sessions, newSessions[r], now)

LEMMA AccountStepStore ==
    ASSUME AccountStep(users, users'), UNCHANGED <<sessions, now>>
    PROVE  [Store!Next]_<<users, sessions, now>>
BY DEF AccountStep, Roles, Put, Drop, Restrict, Store!Next, Store!Enroll, Store!SetPassword,
       Store!SetRole, Store!Remove, Store!Roles, Store!Put, Store!Drop, Store!Restrict

LEMMA SessionStepStore ==
    ASSUME SessionStep(users, sessions, sessions', now), UNCHANGED <<users, now>>
    PROVE  [Store!Next]_<<users, sessions, now>>
<1>1. CASE \E s \in Sessions \ DOMAIN sessions, id \in DOMAIN users, t \in 0..now :
             sessions' = Put(Restrict(sessions, LiveAt(sessions, t)), s, [owner |-> id, seen |-> t])
  BY <1>1 DEF Store!Next, Store!Open, LiveAt, Put, Restrict, Store!Live, Store!Put, Store!Restrict
<1>2. CASE \E t \in 0..now : sessions' = Restrict(sessions, LiveAt(sessions, t))
  BY <1>2 DEF Store!Next, Store!Expire, LiveAt, Restrict, Store!Live, Store!Restrict
<1>3. CASE \E s \in DOMAIN sessions : sessions' = Drop(sessions, {s})
  BY <1>3 DEF Store!Next, Store!End, Drop, Restrict, Store!Drop, Store!Restrict
<1>4. CASE \E id \in Ids : sessions' = Drop(sessions, OwnedBy(sessions, id))
  BY <1>4 DEF Store!Next, Store!End, Drop, Restrict, OwnedBy, Store!Drop, Store!Restrict,
              Store!OwnedBy
<1>5. CASE \E s \in DOMAIN sessions :
             sessions' = Drop(sessions, OwnedBy(sessions, sessions[s].owner) \ {s})
  BY <1>5 DEF Store!Next, Store!End, Drop, Restrict, OwnedBy, Store!Drop, Store!Restrict,
              Store!OwnedBy
<1>6. CASE sessions' = sessions
  BY <1>6
<1> QED
  BY <1>1, <1>2, <1>3, <1>4, <1>5, <1>6 DEF SessionStep

LEMMA ProlongedStore ==
    ASSUME Prolonged(sessions, sessions', now), UNCHANGED <<users, now>>
    PROVE  [Store!Next]_<<users, sessions, now>>
BY DEF Prolonged, LiveAt, Store!Next, Store!Prolong, Store!Live

\* Every step is one of the store, or none.
LEMMA StoreStep ==
    ASSUME Serial, NoBadReads, TypeInv, StoreInv, [Next]_vars
    PROVE  [Store!Next]_<<users, sessions, now>>
<1>1. ASSUME NEW r \in Requests, Bootstrap(r) PROVE [Store!Next]_<<users, sessions, now>>
  <2>1. users = Empty /\ job[r].target \in Ids
    BY <1>1 DEF Bootstrap, StoreInv, StoreFor, TypeInv, LocalsOK, ControlOK
  <2>2. users' = Put(users, job[r].target, [name |-> Admin, password |-> Default,
                                            role |-> "administrator", mustChange |-> TRUE])
    BY <1>1, <2>1, EmptyType DEF Bootstrap, Put
  <2>3. AccountStep(users, users')
    BY <2>1, <2>2, EmptyType, AuthAssumption DEF AccountStep, Roles
  <2>4. UNCHANGED <<sessions, now>>
    BY <1>1 DEF Bootstrap, world
  <2> QED
    BY <2>3, <2>4, AccountStepStore
<1>2. ASSUME NEW r \in Requests, Touch(r) PROVE [Store!Next]_<<users, sessions, now>>
  BY <1>2, ProlongedStore DEF Touch, StoreInv, StoreFor, world
<1>3. ASSUME NEW r \in Requests, SaveUsers(r) PROVE [Store!Next]_<<users, sessions, now>>
  BY <1>3, AccountStepStore DEF SaveUsers, StoreInv, StoreFor, world
<1>4. ASSUME NEW r \in Requests, SaveSessions(r) PROVE [Store!Next]_<<users, sessions, now>>
  BY <1>4, SessionStepStore DEF SaveSessions, StoreInv, StoreFor, world
<1>5. ASSUME UNCHANGED <<users, sessions, now>> PROVE [Store!Next]_<<users, sessions, now>>
  BY <1>5
<1>6. ASSUME NEW r \in Requests, Start(r) PROVE UNCHANGED <<users, sessions, now>>
  BY <1>6 DEF Start, StartBoot, StartLogin, StartRequest, files, world
<1>7. ASSUME NEW r \in Requests, Reads(r) PROVE UNCHANGED <<users, sessions, now>>
  BY <1>7, ReadsKeep DEF files, world
<1>8. ASSUME NEW r \in Requests, Fault(r) PROVE UNCHANGED <<users, sessions, now>>
  BY <1>8 DEF Fault, SaveFails, UsersReadFails, SessionsReadFails, files
<1>9. CASE Crash \/ UNCHANGED vars
  BY <1>5, <1>9 DEF Crash, files, vars, world
<1>10. CASE Tick
  BY <1>10 DEF Tick, files, Store!Next, Store!Tick
<1>11. ASSUME NEW r \in Requests, Continue(r) PROVE [Store!Next]_<<users, sessions, now>>
  BY <1>1, <1>2, <1>3, <1>4, <1>5, <1>7, <1>11 DEF Continue, Reads
<1> QED
  BY <1>5, <1>6, <1>8, <1>9, <1>10, <1>11 DEF Next

LEMMA StorePrime ==
    ASSUME \A r \in Requests :
             StoreFor(pc'[r], job'[r], users', newUsers'[r], sessions', newSessions'[r], now')
    PROVE  StoreInv'
BY DEF StoreInv, StoreFor, HasSession, At, Prolonged, AccountStep, SessionStep, LiveAt, OwnedBy,
       Put, Drop, Restrict

LEMMA EmptyUnique ==
    ASSUME NEW u \in Users, DOMAIN u = {}
    PROVE  u = Empty
BY UsersDomain DEF Empty

LEMMA ProlongedKeeps ==
    ASSUME NEW f \in SessionFile, NEW g, NEW n, Prolonged(f, g, n), NEW j, HasSession(j, f)
    PROVE  HasSession(j, g)
<1>1. PICK t \in 0..n : \E s \in LiveAt(f, t) : g = [f EXCEPT ![s] = [@ EXCEPT !.seen = t]]
  BY DEF Prolonged
<1>2. PICK s \in LiveAt(f, t) : g = [f EXCEPT ![s] = [@ EXCEPT !.seen = t]]
  BY <1>1
<1>3. s \in DOMAIN f /\ f \in [DOMAIN f -> Session]
  BY SessionsDomain DEF LiveAt
<1>4. DOMAIN g = DOMAIN f /\ \A x \in DOMAIN f : g[x].owner = f[x].owner
  BY <1>2, <1>3 DEF Session
<1> QED
  BY <1>4 DEF HasSession

LEMMA LaterProlonged ==
    ASSUME NEW f, NEW g, NEW n \in Nat, Prolonged(f, g, n)
    PROVE  Prolonged(f, g, n + 1)
<1>1. \A t \in 0..n : t \in 0..(n + 1)
  OBVIOUS
<1> QED
  BY <1>1, Zenon DEF Prolonged

LEMMA LaterSessionStep ==
    ASSUME NEW u, NEW f, NEW g, NEW n \in Nat, SessionStep(u, f, g, n)
    PROVE  SessionStep(u, f, g, n + 1)
<1>1. \A t \in 0..n : t \in 0..(n + 1)
  OBVIOUS
<1> QED
  BY <1>1, Zenon DEF SessionStep

LEMMA LiveIsLiveAt == \A f : Live(f) = LiveAt(f, now)
BY DEF Live, LiveAt

LEMMA StoreRequestStep ==
    ASSUME Serial, NoBadReads, TypeInv, StoreInv,
           NEW r \in Requests, Start(r) \/ Continue(r) \/ Fault(r)
    PROVE  StoreInv'
<1> DEFINE Later ==
             StoreFor(pc'[r], job'[r], users', newUsers'[r], sessions', newSessions'[r], now')
<1>r. SUFFICES Later
  BY StorePrime DEF Serial
<1>0. /\ StoreFor(pc[r], job[r], users, newUsers[r], sessions, newSessions[r], now)
      /\ ControlOK(pc[r], job[r])
  BY DEF StoreInv, TypeInv, LocalsOK
<1>t. /\ users \in Users /\ sessions \in SessionFile /\ job[r] \in Job
      /\ now \in 0..MaxTime /\ now \in 0..now
      /\ newSessions[r] \in SessionFile
  BY AuthAssumption DEF TypeInv, LocalsOK, FilesOK, WorldOK
<1> HIDE DEF Later
<1>1. ASSUME Answer(r) PROVE Later
  <2>1. pc'[r] = "idle" /\ job'[r].op = "none"
    BY <1>1, AnswerOwn DEF NoJob
  <2> QED
    BY <2>1 DEF Later, StoreFor, At, AllOperations
<1>2. ASSUME UNCHANGED <<users, sessions, now>>, users = Empty, ToBootstrap(r),
             pc[r] \in {"boot", "login", "caller"}
      PROVE  Later
  <2>1. /\ pc'[r] = "bootstrap" /\ newSessions'[r] = newSessions[r]
        /\ job'[r].back = pc[r] /\ job'[r].op = job[r].op
        /\ job'[r].session = job[r].session /\ job'[r].user = job[r].user
    BY <1>2, ToBootstrapOwn
  <2> QED
    BY <1>0, <1>2, <2>1 DEF Later, StoreFor, At, HasSession
\* The middleware lets the request through, with the sessions f.
<1>3. ASSUME NEW a, Admit(r, a), users' = users, users # Empty, HasSession(job[r], sessions'),
             pc[r] \in {"caller", "touch"}
      PROVE  Later
  <2>1. CASE Answer(r)
    BY <1>1, <2>1
  <2>2. CASE ~Answer(r)
    <3>1. /\ pc'[r] \in {"closeSessions", "handle"} /\ job'[r].op = job[r].op
          /\ job'[r].session = job[r].session /\ job'[r].user = job[r].user
          /\ pc'[r] = "closeSessions" => job[r].op = "logout"
      <4>1. Admitted(job[r].op, a)
        BY <1>3, <2>2 DEF Admit
      <4>2. pc'[r] \in {"closeSessions", "handle"}
        BY <1>3, <4>1 DEF Admit, Goto, TypeInv, LocalsOK
      <4> QED
        BY <1>3, <4>2, AdmitOwn
    <3>2. job[r].op # "login"
      BY <1>0, <1>3 DEF ControlOK, At, OperationsAt, AllOperations
    <3> QED
      BY <1>3, <3>1, <3>2 DEF Later, StoreFor, At, HasSession
  <2> QED
    BY <2>1, <2>2
\* A handler goes on to save the accounts v.
<1>4. ASSUME UNCHANGED <<users, sessions, now>>, pc[r] = "handle",
             NEW j, NEW v, PrepareUsers(r, j, v), AccountStep(users, v),
             j.op = job[r].op, j.session = job[r].session, j.user = job[r].user,
             j.op \in {"reset", "delete"} => j.target \in Ids
      PROVE  Later
  <2>1. pc'[r] = "saveUsers" /\ job'[r] = j /\ newUsers'[r] = v
    BY <1>4, PrepareUsersOwn
  <2>2. HasSession(j, sessions) /\ j.op # "login"
    BY <1>0, <1>4 DEF ControlOK, At, OperationsAt, AllOperations, StoreFor, HasSession
  <2> QED
    BY <1>4, <2>1, <2>2 DEF Later, StoreFor, At
<1>5. ASSUME UNCHANGED <<users, sessions, now>>, NEW g, PrepareSessions(r, g),
             SessionStep(users, sessions, g, now)
      PROVE  Later
  <2>1. pc'[r] = "saveSessions" /\ newSessions'[r] = g
    BY <1>5, PrepareSessionsOwn
  <2> QED
    BY <1>5, <2>1 DEF Later, StoreFor, At
<1>6. CASE StartBoot(r) \/ StartLogin(r)
  <2>1. pc'[r] \in {"boot", "login"} /\ job'[r].op \in {"boot", "login"}
    BY <1>6 DEF StartBoot, StartLogin, Goto, TypeInv, LocalsOK, NoJob
  <2> QED
    BY <2>1 DEF Later, StoreFor, At, AllOperations
<1>7. CASE StartRequest(r)
  <2>1. PICK op \in Operations, s \in Live(sessions) :
          /\ job' = [job EXCEPT ![r] = [NoJob EXCEPT !.op = op, !.session = s, !.user = sessions[s].owner]]
          /\ newSessions' = [newSessions EXCEPT ![r] =
                IF Stale(sessions, s) THEN [sessions EXCEPT ![s].seen = now] ELSE Empty]
    BY <1>7 DEF StartRequest
  <2>2. pc'[r] = "caller" /\ UNCHANGED <<sessions, now>>
    BY <1>7 DEF StartRequest, Goto, TypeInv, LocalsOK, files, world
  <2>3. /\ job'[r].op = op /\ job'[r].session = s /\ job'[r].user = sessions[s].owner
    BY <2>1 DEF NoJob, TypeInv, LocalsOK
  <2>4. HasSession(job'[r], sessions) /\ op \in AllOperations
    BY <2>1, <2>3, LiveDomain, AuthAssumption DEF HasSession
  <2>5. newSessions'[r] # Empty => Prolonged(sessions, newSessions'[r], now)
    <3>1. CASE newSessions'[r] = [sessions EXCEPT ![s].seen = now]
      <4>1. s \in LiveAt(sessions, now)
        BY LiveIsLiveAt
      <4> QED
        BY <1>t, <3>1, <4>1 DEF Prolonged
    <3>2. CASE newSessions'[r] = Empty
      BY <3>2
    <3> QED
      BY <2>1, <3>1, <3>2 DEF TypeInv, LocalsOK
  <2> QED
    BY <2>2, <2>3, <2>4, <2>5 DEF Later, StoreFor, At, AllOperations
<1>8. CASE Bootstrap(r)
  <2>1. /\ pc'[r] = job[r].back /\ newSessions' = newSessions /\ UNCHANGED <<sessions, now>>
        /\ pc[r] = "bootstrap"
    BY <1>8 DEF Bootstrap, Goto, TypeInv, LocalsOK, world
  <2>2. users' # Empty
    BY <1>8, EmptyType DEF Bootstrap
  <2>3. job[r].back \in {"boot", "login", "caller", "handle"}
    BY <1>0, <2>1 DEF ControlOK
  <2>4. job'[r].op = job[r].op /\ job'[r].session = job[r].session /\ job'[r].user = job[r].user
    <3>1. job'[r] = [job[r] EXCEPT !.back = "idle", !.target = None]
      BY <1>8 DEF Bootstrap, TypeInv, LocalsOK
    <3> QED
      BY <1>t, <3>1 DEF Job
  <2> QED
    BY <1>0, <2>1, <2>2, <2>3, <2>4 DEF Later, StoreFor, At, HasSession
<1>9. CASE Boot(r)
  <2>1. UNCHANGED <<users, sessions, now>> /\ pc[r] = "boot"
    BY <1>9 DEF Boot, files, world
  <2>2. CASE users # Empty
    <3>1. pc'[r] = "cleanup" /\ job'[r] = job[r]
      BY <1>9, <2>2 DEF Boot, Goto, TypeInv, LocalsOK
    <3>2. job[r].op = "boot"
      BY <1>0, <2>1 DEF ControlOK, At, OperationsAt
    <3> QED
      BY <3>1, <3>2 DEF Later, StoreFor, At, AllOperations
  <2>3. CASE users = Empty
    BY <1>2, <1>9, <2>1, <2>3 DEF Boot
  <2> QED
    BY <2>2, <2>3
<1>10. CASE Cleanup(r)
  <2>1. /\ UNCHANGED <<users, sessions, now>>
        /\ PrepareSessions(r, Restrict(sessions, Live(sessions)))
    BY <1>10 DEF Cleanup, files, world
  <2>2. SessionStep(users, sessions, Restrict(sessions, Live(sessions)), now)
    BY <1>t, LiveIsLiveAt DEF SessionStep
  <2> QED
    BY <1>5, <2>1, <2>2
<1>11. CASE Authenticate(r)
  <2>1. UNCHANGED <<users, sessions, now>> /\ pc[r] = "login"
    BY <1>11 DEF Authenticate, files, world
  <2>2. ASSUME NEW id \in DOMAIN users, NEW new \in FreshSessions,
               PrepareUsers(r, [job[r] EXCEPT !.user = id, !.session = new], users)
        PROVE  Later
    <3> DEFINE j == [job[r] EXCEPT !.user = id, !.session = new]
    <3>1. j.op = job[r].op /\ j.user = id /\ j.session = new
      BY <1>t DEF Job
    <3> HIDE DEF j
    <3>2. pc'[r] = "saveUsers" /\ job'[r] = j /\ newUsers'[r] = users
      BY <2>2, PrepareUsersOwn DEF j
    <3>3. j.op = "login"
      BY <1>0, <2>1, <3>1 DEF ControlOK, At, OperationsAt
    <3>4. new \notin DOMAIN sessions /\ AccountStep(users, users)
      BY DEF FreshSessions, AccountStep
    <3> QED
      BY <2>1, <3>1, <3>2, <3>3, <3>4 DEF Later, StoreFor, At, AllOperations
  <2>3. CASE users = Empty
    BY <1>2, <1>11, <2>1, <2>3 DEF Authenticate
  <2> QED
    BY <1>1, <1>11, <2>2, <2>3 DEF Authenticate
<1>12. CASE OpenSession(r)
  <2>1. /\ UNCHANGED <<users, sessions, now>> /\ pc[r] = "openSession"
        /\ PrepareSessions(r, Opened(r, sessions))
    BY <1>12 DEF OpenSession, files, world
  <2>2. job[r].op = "login" /\ job[r].session \in Sessions
    BY <1>0, <2>1 DEF ControlOK, At, OperationsAt
  <2>3. job[r].user \in DOMAIN users /\ job[r].session \in Sessions \ DOMAIN sessions
    BY <1>0, <2>1, <2>2 DEF StoreFor
  <2>4. Opened(r, sessions) = Put(Restrict(sessions, LiveAt(sessions, now)), job[r].session,
                                  [owner |-> job[r].user, seen |-> now])
    BY LiveIsLiveAt DEF Opened
  <2>5. SessionStep(users, sessions, Opened(r, sessions), now)
    BY <1>t, <2>3, <2>4 DEF SessionStep
  <2> QED
    BY <1>5, <2>1, <2>5
<1>13. CASE ReadCaller(r)
  <2>1. UNCHANGED <<users, sessions, now>> /\ pc[r] = "caller"
    BY <1>13 DEF ReadCaller, files, world
  <2>2. CASE users = Empty
    BY <1>2, <1>13, <2>1, <2>2 DEF ReadCaller
  <2>3. CASE Answer(r)
    BY <1>1, <2>3
  <2>4. HasSession(job[r], sessions) /\ job[r].op \in AllOperations
    BY <1>0, <2>1 DEF StoreFor, ControlOK, At, OperationsAt
  <2>5. CASE users # Empty /\ Admit(r, users[job[r].user])
    BY <1>3, <2>1, <2>4, <2>5
  <2>6. CASE /\ users # Empty /\ newSessions[r] # Empty
             /\ Goto(r, "touch") /\ UNCHANGED <<newUsers, newSessions>>
             /\ job' = [job EXCEPT ![r] = [@ EXCEPT !.account = users[job[r].user]]]
    <3>1. job'[r] = [job[r] EXCEPT !.account = users[job[r].user]]
      BY <2>6 DEF TypeInv, LocalsOK
    <3>2. job'[r].op = job[r].op /\ job'[r].session = job[r].session /\ job'[r].user = job[r].user
      BY <1>t, <3>1 DEF Job
    <3>3. pc'[r] = "touch" /\ newSessions'[r] = newSessions[r]
      BY <2>6 DEF Goto, TypeInv, LocalsOK
    <3>4. Prolonged(sessions, newSessions[r], now)
      BY <1>0, <2>1, <2>6 DEF StoreFor, At
    <3> QED
      BY <2>1, <2>4, <2>6, <3>2, <3>3, <3>4 DEF Later, StoreFor, At, HasSession, AllOperations
  <2> QED
    BY <1>13, <2>2, <2>3, <2>5, <2>6 DEF ReadCaller
<1>14. CASE Touch(r)
  <2>1. /\ users' = users /\ sessions' = newSessions[r] /\ pc[r] = "touch"
        /\ Admit(r, job[r].account)
    BY <1>14 DEF Touch
  <2>2. /\ HasSession(job[r], sessions) /\ users # Empty
        /\ Prolonged(sessions, newSessions[r], now)
    BY <1>0, <2>1 DEF StoreFor, ControlOK, At, OperationsAt
  <2>3. HasSession(job[r], newSessions[r])
    BY <1>t, <2>2, ProlongedKeeps
  <2> QED
    BY <1>3, <2>1, <2>2, <2>3
<1>15. CASE ChangePassword(r)
  <2>1. PICK password \in Passwords \ {Default, users[job[r].user].password} :
          PrepareUsers(r, job[r], [users EXCEPT ![job[r].user] =
                                     [@ EXCEPT !.password = password, !.mustChange = FALSE]])
    BY <1>15 DEF ChangePassword
  <2>2. /\ job[r].user \in DOMAIN users /\ pc[r] = "handle" /\ job[r].op = "change"
        /\ UNCHANGED <<users, sessions, now>>
    BY <1>15 DEF ChangePassword, files, world
  <2>3. AccountStep(users, [users EXCEPT ![job[r].user] =
                              [@ EXCEPT !.password = password, !.mustChange = FALSE]])
    BY <2>2 DEF AccountStep
  <2> QED
    BY <1>4, <2>1, <2>2, <2>3
<1>16. CASE CreateUser(r)
  <2>1. /\ Created(r, users) /\ pc[r] = "handle" /\ job[r].op = "create"
        /\ UNCHANGED <<users, sessions, now>>
    BY <1>16 DEF CreateUser, files, world
  <2>2. PICK id \in FreshIds, name \in Names \ NamesOf(users), password \in Passwords \ {Default},
             role \in Roles :
          PrepareUsers(r, job[r], Put(users, id, [name |-> name, password |-> password,
                                                  role |-> role, mustChange |-> TRUE]))
    BY <2>1 DEF Created
  <2>3. id \in Ids \ DOMAIN users /\ \A other \in DOMAIN users : users[other].name # name
    BY DEF FreshIds, NamesOf
  <2>4. DOMAIN users # {}
    BY <1>0, <1>t, <2>1, EmptyUnique DEF StoreFor
  <2>5. AccountStep(users, Put(users, id, [name |-> name, password |-> password,
                                           role |-> role, mustChange |-> TRUE]))
    BY <2>3, <2>4 DEF AccountStep
  <2> QED
    BY <1>4, <2>1, <2>2, <2>5
<1>17. CASE ResetPassword(r)
  <2>1. PICK target \in DOMAIN users, password \in Passwords \ {Default} :
          PrepareUsers(r, [job[r] EXCEPT !.target = target],
                       [users EXCEPT ![target] = [@ EXCEPT !.password = password, !.mustChange = TRUE]])
    BY <1>17 DEF ResetPassword
  <2> DEFINE j == [job[r] EXCEPT !.target = target]
             v == [users EXCEPT ![target] = [@ EXCEPT !.password = password, !.mustChange = TRUE]]
  <2>2. pc[r] = "handle" /\ UNCHANGED <<users, sessions, now>> /\ target \in Ids
    BY <1>17, <1>t, UsersDomain DEF ResetPassword, files, world
  <2>3. j.op = job[r].op /\ j.session = job[r].session /\ j.user = job[r].user /\ j.target = target
    BY <1>t DEF Job
  <2>4. AccountStep(users, v)
    BY DEF AccountStep
  <2>5. PrepareUsers(r, j, v)
    BY <2>1
  <2> HIDE DEF j, v
  <2> QED
    BY <1>4, <2>2, <2>3, <2>4, <2>5
<1>18. CASE UpdateRole(r)
  <2>1. PICK target \in DOMAIN users, role \in Roles :
          /\ role # "administrator" => users[target].name # Admin
          /\ PrepareUsers(r, [job[r] EXCEPT !.target = target],
                          [users EXCEPT ![target] = [@ EXCEPT !.role = role]])
    BY <1>18 DEF UpdateRole
  <2> DEFINE j == [job[r] EXCEPT !.target = target]
             v == [users EXCEPT ![target] = [@ EXCEPT !.role = role]]
  <2>2. pc[r] = "handle" /\ UNCHANGED <<users, sessions, now>> /\ target \in Ids
    BY <1>18, <1>t, UsersDomain DEF UpdateRole, files, world
  <2>3. j.op = job[r].op /\ j.session = job[r].session /\ j.user = job[r].user /\ j.target = target
    BY <1>t DEF Job
  <2>4. AccountStep(users, v)
    BY <2>1 DEF AccountStep
  <2>5. PrepareUsers(r, j, v)
    BY <2>1
  <2> HIDE DEF j, v
  <2> QED
    BY <1>4, <2>2, <2>3, <2>4, <2>5
<1>19. CASE DeleteUser(r)
  <2>1. PICK target \in DOMAIN users :
          /\ users[target].name # Admin
          /\ PrepareUsers(r, [job[r] EXCEPT !.target = target], Drop(users, {target}))
    BY <1>19 DEF DeleteUser
  <2> DEFINE j == [job[r] EXCEPT !.target = target]
  <2>2. pc[r] = "handle" /\ UNCHANGED <<users, sessions, now>> /\ target \in Ids
    BY <1>19, <1>t, UsersDomain DEF DeleteUser, files, world
  <2>3. j.op = job[r].op /\ j.session = job[r].session /\ j.user = job[r].user /\ j.target = target
    BY <1>t DEF Job
  <2>4. AccountStep(users, Drop(users, {target}))
    BY <2>1 DEF AccountStep
  <2>5. PrepareUsers(r, j, Drop(users, {target}))
    BY <2>1
  <2> HIDE DEF j
  <2> QED
    BY <1>4, <2>2, <2>3, <2>4, <2>5
<1>20. CASE SaveUsers(r)
  <2>1. CASE AfterUsers(job[r].op) = "idle"
    BY <1>1, <1>20, <2>1 DEF SaveUsers
  <2>2. CASE AfterUsers(job[r].op) # "idle"
    <3>1. /\ AfterUsers(job[r].op) \in {"openSession", "closeSessions"}
          /\ AfterUsers(job[r].op) = "openSession" <=> job[r].op = "login"
      BY <2>2 DEF AfterUsers
    <3>2. /\ pc'[r] = AfterUsers(job[r].op) /\ job' = job /\ pc[r] = "saveUsers"
          /\ users' = newUsers[r] /\ UNCHANGED <<sessions, now>>
      BY <1>20, <2>2 DEF SaveUsers, Goto, TypeInv, LocalsOK, world
    <3>3. CASE job[r].op = "login"
      BY <1>0, <3>1, <3>2, <3>3 DEF Later, StoreFor, At, AllOperations
    <3>4. CASE job[r].op # "login"
      <4>1. pc'[r] = "closeSessions"
        BY <3>1, <3>2, <3>4
      <4> QED
        BY <1>0, <3>2, <3>4, <4>1 DEF Later, StoreFor, At
    <3> QED
      BY <3>3, <3>4
  <2> QED
    BY <2>1, <2>2
<1>21. CASE CloseSessions(r)
  <2> DEFINE g == Drop(sessions, Ended(job[r], sessions))
  <2>1. UNCHANGED <<users, sessions, now>> /\ PrepareSessions(r, g) /\ pc[r] = "closeSessions"
    BY <1>21 DEF CloseSessions, files, world
  <2>2. job[r].op \in {"logout", "change", "reset", "delete"}
    BY <1>0, <2>1 DEF ControlOK, At, OperationsAt
  <2>3. /\ HasSession(job[r], sessions)
        /\ job[r].op \in {"reset", "delete"} => job[r].target \in Ids
    BY <1>0, <2>1, <2>2 DEF StoreFor, AllOperations
  <2>4. CASE job[r].op = "logout"
    <3>1. g = Drop(sessions, {job[r].session})
      BY <2>4 DEF Ended
    <3> QED
      BY <1>5, <2>1, <2>3, <3>1 DEF SessionStep, HasSession
  <2>5. CASE job[r].op = "change"
    <3>1. g = Drop(sessions, OwnedBy(sessions, sessions[job[r].session].owner) \ {job[r].session})
      BY <2>3, <2>5 DEF Ended, OwnedBy, HasSession
    <3> QED
      BY <1>5, <2>1, <2>3, <3>1 DEF SessionStep, HasSession
  <2>6. CASE job[r].op \in {"reset", "delete"}
    <3>1. g = Drop(sessions, OwnedBy(sessions, job[r].target))
      BY <2>6 DEF Ended, OwnedBy
    <3> QED
      BY <1>5, <2>1, <2>3, <2>6, <3>1 DEF SessionStep
  <2> QED
    BY <2>2, <2>4, <2>5, <2>6
<1>22. CASE Respond(r) \/ SaveSessions(r) \/ SaveFails(r)
  BY <1>1, <1>22 DEF Respond, SaveSessions, SaveFails
<1>23. CASE UsersReadFails(r) \/ SessionsReadFails(r)
  BY <1>23 DEF UsersReadFails, SessionsReadFails, Disturb, NoBadReads
<1> QED
  BY <1>6, <1>7, <1>8, <1>9, <1>10, <1>11, <1>12, <1>13, <1>14, <1>15, <1>16, <1>17, <1>18,
     <1>19, <1>20, <1>21, <1>22, <1>23
  DEF Start, Continue, Fault

LEMMA StoreInvStep ==
    ASSUME Serial, NoBadReads, TypeInv, StoreInv, [Next]_vars
    PROVE  StoreInv'
<1>1. CASE \E r \in Requests : Start(r) \/ Continue(r) \/ Fault(r)
  BY <1>1, StoreRequestStep
<1>2. CASE Crash
  <2>1. \A r \in Requests : pc'[r] = "idle" /\ job'[r].op = "none"
    BY <1>2 DEF Crash, NoJob
  <2>2. \A r \in Requests :
          StoreFor(pc'[r], job'[r], users', newUsers'[r], sessions', newSessions'[r], now')
    BY <2>1 DEF StoreFor, At, AllOperations
  <2> QED
    BY <2>2, StorePrime
<1>3. CASE Tick
  <2>1. now \in Nat /\ now' = now + 1 /\ UNCHANGED <<users, sessions, pc, job, newUsers, newSessions>>
    BY <1>3, AuthAssumption DEF Tick, files, locals, TypeInv, WorldOK
  <2>2. ASSUME NEW r \in Requests
        PROVE  StoreFor(pc[r], job[r], users, newUsers[r], sessions, newSessions[r], now + 1)
    BY <2>1, LaterProlonged, LaterSessionStep DEF StoreInv, StoreFor
  <2> QED
    BY <2>1, <2>2, StorePrime
<1>4. CASE UNCHANGED vars
  <2>1. UNCHANGED <<users, sessions, now, pc, job, newUsers, newSessions>>
    BY <1>4 DEF vars, files, locals, world
  <2> QED
    BY <2>1, StorePrime DEF StoreInv
<1> QED
  BY <1>1, <1>2, <1>3, <1>4 DEF Next

\* When requests come one at a time and every read gives what the file holds,
\* the service changes one account or one user's sessions at a time, although
\* it writes whole files: whatever saves fail and whenever it restarts.
\* (The read, change and save of every function of authService.ts.)
THEOREM StoreCorrect ==
    ASSUME Serial, NoBadReads
    PROVE  Spec => ImplementsStore
<1>1. Init => StoreInv /\ Store!Init
  <2> SUFFICES ASSUME Init PROVE StoreInv /\ Store!Init
    OBVIOUS
  <2>1. \A r \in Requests : pc[r] = "idle" /\ job[r].op = "none"
    BY DEF Init, NoJob
  <2>2. StoreInv
    BY <2>1 DEF StoreInv, StoreFor, At, AllOperations
  <2>3. Store!Init
    BY DEF Init, Store!Init, Empty
  <2> QED
    BY <2>2, <2>3
<1>2. TypeInv /\ StoreInv /\ [Next]_vars => StoreInv' /\ [Store!Next]_<<users, sessions, now>>
  BY StoreInvStep, StoreStep
<1> QED
  BY <1>1, <1>2, TypeInvariant, PTL DEF Spec, ImplementsStore, Store!Spec
=============================================================================
