--------------------------------- MODULE Auth ---------------------------------
(***************************************************************************)
(* backend/src/authService.ts, and the part of index.ts that puts it before *)
(* every other endpoint: accounts (users.json), sessions (sessions.json),   *)
(* logins, and the management of accounts.                                  *)
(*                                                                         *)
(* Both files are read as a whole, changed in memory and, after the awaits  *)
(* in between, written as a whole. saveJson writes a temporary file and     *)
(* renames it, so a save is one step; nothing protects a file between the   *)
(* read and the save, so other requests run there.                          *)
(***************************************************************************)
EXTENDS Integers, FiniteSets, Functions

CONSTANTS
    Requests,         \* the requests that may be in progress at the same time
    Ids,              \* UUIDs of accounts
    Names,            \* user names, two of them equal when they differ in case only
    Admin,            \* the name "admin"
    Passwords,
    Default,          \* the password "admin", too short to be chosen again
    Sessions,         \* identifiers of sessions
    TouchAfter, Ttl,  \* sessionTouchIntervalMs and sessionTtlMs, in ticks
    MaxTime,          \* bound on the clock
    Operations,       \* the operations that are requested
    Disturbances,     \* the kinds of disturbance that occur
    MaxDisturbances,  \* bound on the number of disturbances of a behaviour
    None              \* no account, no session

AllOperations == {"use", "logout", "change", "create", "reset", "role", "delete"}

\* requireRole("administrator")
Management == {"create", "reset", "role", "delete"}

ASSUME AuthAssumption ==
    /\ Admin \in Names
    /\ Default \in Passwords
    /\ TouchAfter \in Nat /\ Ttl \in Nat /\ MaxTime \in Nat
    /\ Operations \subseteq AllOperations
    /\ Disturbances \subseteq {"save", "read", "crash"}
    /\ MaxDisturbances \in Nat
    /\ None \notin Ids \cup Sessions

VARIABLES
    users,        \* users.json
    sessions,     \* sessions.json
    now,          \* the clock
    booted,       \* initializeAuth has been called since the process started
    pc,           \* pc[r]: the step request r takes next
    job,          \* job[r]: what r is about
    newUsers,     \* newUsers[r]: what r is about to save as users.json
    newSessions,  \* newSessions[r]: what r is about to save as sessions.json
    revoked,      \* history: sessions ended by a request that has been answered
    intact,       \* history: every read of users.json gave what the file holds
    budget        \* the number of disturbances so far

files == <<users, sessions>>
locals == <<pc, job, newUsers, newSessions>>
world == <<now, booted, intact, budget>>
vars == <<files, locals, revoked, world>>

Roles == {"administrator", "operator", "viewer"}
Account == [name : Names, password : Passwords, role : Roles, mustChange : BOOLEAN]
Session == [owner : Ids, seen : 0..MaxTime]

\* A file of records with an id, as a function from the ids. Nothing sets the
\* flag "disabled" of an account.
Users == UNION {[S -> Account] : S \in SUBSET Ids}
SessionFile == UNION {[S -> Session] : S \in SUBSET Sessions}

\* A missing file, a file that cannot be read, and an empty list are the same.
Empty == [x \in {} |-> x]

Put(f, x, v) == [y \in DOMAIN f \cup {x} |-> IF y = x THEN v ELSE f[y]]
Drop(f, S) == Restrict(f, DOMAIN f \ S)

Steps == {"idle", "boot", "cleanup", "login", "caller", "touch", "handle",
          "bootstrap", "saveUsers", "openSession", "closeSessions", "saveSessions"}

Job == [op : AllOperations \cup {"none", "boot", "login"}, back : Steps,
        session : Sessions \cup {None}, user : Ids \cup {None},
        target : Ids \cup {None}, account : Account \cup {None}]

NoJob == [op |-> "none", back |-> "idle", session |-> None, user |-> None,
          target |-> None, account |-> None]

\* The time of the last touch decides: expiresAt is always lastSeenAt plus ttl.
Live(f) == {s \in DOMAIN f : now < f[s].seen + Ttl}
Stale(f, s) == now - f[s].seen >= TouchAfter

NamesOf(u) == {u[id].name : id \in DOMAIN u}
Administrators(u) == {id \in DOMAIN u : u[id].role = "administrator"}

\* Identifiers are random: a new one is in no file and in no snapshot.
FreshIds ==
    {id \in Ids : /\ id \notin DOMAIN users
                  /\ \A s \in DOMAIN sessions : sessions[s].owner # id
                  /\ \A r \in Requests :
                        /\ id \notin DOMAIN newUsers[r] \cup {job[r].user, job[r].target}
                        /\ \A s \in DOMAIN newSessions[r] : newSessions[r][s].owner # id}
FreshSessions ==
    {s \in Sessions : /\ s \notin DOMAIN sessions \cup revoked
                      /\ \A r \in Requests : s \notin DOMAIN newSessions[r] \cup {job[r].session}}

Init ==
    /\ users = Empty /\ sessions = Empty
    /\ now = 0
    /\ booted = FALSE
    /\ pc = [r \in Requests |-> "idle"]
    /\ job = [r \in Requests |-> NoJob]
    /\ newUsers = [r \in Requests |-> Empty]
    /\ newSessions = [r \in Requests |-> Empty]
    /\ revoked = {}
    /\ intact = TRUE
    /\ budget = 0

Goto(r, step) == pc' = [pc EXCEPT ![r] = step]

\* The request is answered, with or without an error.
Answer(r) ==
    /\ Goto(r, "idle")
    /\ job' = [job EXCEPT ![r] = NoJob]
    /\ newUsers' = [newUsers EXCEPT ![r] = Empty]
    /\ newSessions' = [newSessions EXCEPT ![r] = Empty]

\* getUsersRaw reads the file to see if there is an account, and creates the
\* built-in one if there is none, before it reads the file again.
ToBootstrap(r) ==
    /\ Goto(r, "bootstrap")
    /\ \E id \in FreshIds : job' = [job EXCEPT ![r] = [@ EXCEPT !.back = pc[r], !.target = id]]
    /\ UNCHANGED <<newUsers, newSessions>>

PrepareUsers(r, j, u) ==
    /\ Goto(r, "saveUsers")
    /\ job' = [job EXCEPT ![r] = j]
    /\ newUsers' = [newUsers EXCEPT ![r] = u]
    /\ UNCHANGED newSessions

PrepareSessions(r, s) ==
    /\ Goto(r, "saveSessions")
    /\ newSessions' = [newSessions EXCEPT ![r] = s]
    /\ UNCHANGED <<job, newUsers>>

-----------------------------------------------------------------------------
\* ensureBootstrapAdmin, its save.
Bootstrap(r) ==
    /\ pc[r] = "bootstrap"
    /\ users' = [id \in {job[r].target} |-> [name |-> Admin, password |-> Default,
                                              role |-> "administrator", mustChange |-> TRUE]]
    /\ Goto(r, job[r].back)
    /\ job' = [job EXCEPT ![r] = [@ EXCEPT !.back = "idle", !.target = None]]
    /\ UNCHANGED <<sessions, newUsers, newSessions, revoked, world>>

\* initializeAuth is called before the server listens, and not awaited.
StartBoot(r) ==
    /\ pc[r] = "idle" /\ ~booted
    /\ booted' = TRUE
    /\ Goto(r, "boot")
    /\ job' = [job EXCEPT ![r] = [NoJob EXCEPT !.op = "boot"]]
    /\ UNCHANGED <<files, newUsers, newSessions, revoked, now, intact, budget>>

Boot(r) ==
    /\ pc[r] = "boot"
    /\ IF users = Empty THEN ToBootstrap(r) ELSE Goto(r, "cleanup") /\ UNCHANGED <<job, newUsers, newSessions>>
    /\ UNCHANGED <<files, revoked, world>>

Cleanup(r) ==
    /\ pc[r] = "cleanup"
    /\ PrepareSessions(r, Restrict(sessions, Live(sessions)))
    /\ UNCHANGED <<files, revoked, world>>

StartLogin(r) ==
    /\ pc[r] = "idle" /\ booted
    /\ Goto(r, "login")
    /\ job' = [job EXCEPT ![r] = [NoJob EXCEPT !.op = "login"]]
    /\ UNCHANGED <<files, newUsers, newSessions, revoked, world>>

\* authenticate with the right password of an account; it saves the accounts
\* to record the time of the login. Any other credentials are refused. (The
\* identifier of the new session is drawn here.)
Authenticate(r) ==
    /\ pc[r] = "login"
    /\ IF users = Empty
       THEN ToBootstrap(r)
       ELSE \/ \E id \in DOMAIN users, new \in FreshSessions :
                 PrepareUsers(r, [job[r] EXCEPT !.user = id, !.session = new], users)
            \/ Answer(r)
    /\ UNCHANGED <<files, revoked, world>>

\* createSession

\* Mutation: the time of expiry is saved as the time of the last touch.
Opened_Future(r, f) ==
    Put(Restrict(f, Live(f)), job[r].session, [owner |-> job[r].user, seen |-> now + Ttl])

\* The sessions f without those that are over, and with a new one.
Opened(r, f) ==
    Put(Restrict(f, Live(f)), job[r].session, [owner |-> job[r].user, seen |-> now])

OpenSession(r) ==
    /\ pc[r] = "openSession"
    /\ PrepareSessions(r, Opened(r, sessions))
    /\ UNCHANGED <<files, revoked, world>>

-----------------------------------------------------------------------------
\* The middleware of index.ts. getSession reads the sessions and, for a session
\* that has not been touched for a while, prepares to save them.
StartRequest(r) ==
    /\ pc[r] = "idle" /\ booted
    /\ \E op \in Operations, s \in Live(sessions) :
         /\ job' = [job EXCEPT ![r] = [NoJob EXCEPT !.op = op, !.session = s, !.user = sessions[s].owner]]
         /\ newSessions' = [newSessions EXCEPT ![r] =
                IF Stale(sessions, s) THEN [sessions EXCEPT ![s].seen = now] ELSE Empty]
    /\ Goto(r, "caller")
    /\ UNCHANGED <<files, newUsers, revoked, world>>

\* 428 unless the password has been changed, 403 unless the role fits.
Admitted(op, account) ==
    /\ account.mustChange => op \in {"logout", "change"}
    /\ op \in Management => account.role = "administrator"

Admit(r, account) ==
    IF Admitted(job[r].op, account)
    THEN /\ Goto(r, IF job[r].op = "logout" THEN "closeSessions" ELSE "handle")
         /\ job' = [job EXCEPT ![r] = [@ EXCEPT !.account = account]]
         /\ newSessions' = [newSessions EXCEPT ![r] = Empty]
         /\ UNCHANGED newUsers
    ELSE Answer(r)

ReadCaller(r) ==
    /\ pc[r] = "caller"
    /\ IF users = Empty
       THEN ToBootstrap(r)
       ELSE IF job[r].user \notin DOMAIN users
       THEN Answer(r)                                                    \* 401
       ELSE IF newSessions[r] = Empty
       THEN Admit(r, users[job[r].user])
       ELSE /\ Goto(r, "touch")
            /\ job' = [job EXCEPT ![r] = [@ EXCEPT !.account = users[job[r].user]]]
            /\ UNCHANGED <<newUsers, newSessions>>
    /\ UNCHANGED <<files, revoked, world>>

Touch(r) ==
    /\ pc[r] = "touch"
    /\ sessions' = newSessions[r]
    /\ Admit(r, job[r].account)
    /\ UNCHANGED <<users, revoked, world>>

-----------------------------------------------------------------------------
\* The handlers, up to their save of the accounts. There is an account by now.

\* Any endpoint that neither accounts nor sessions are about, an input that is
\* not valid, or an error that a handler throws.
Respond(r) ==
    /\ pc[r] = "handle"
    /\ Answer(r)
    /\ UNCHANGED <<files, revoked, world>>

\* Mutation: the length of the new password is not checked.
ChangePassword_Short(r) ==
    /\ pc[r] = "handle" /\ job[r].op = "change"
    /\ job[r].user \in DOMAIN users
    /\ \E password \in Passwords \ {users[job[r].user].password} :
         PrepareUsers(r, job[r], [users EXCEPT ![job[r].user] =
                                    [@ EXCEPT !.password = password, !.mustChange = FALSE]])
    /\ UNCHANGED <<files, revoked, world>>

\* changeOwnPassword
ChangePassword(r) ==
    /\ pc[r] = "handle" /\ job[r].op = "change"
    /\ job[r].user \in DOMAIN users
    /\ \E password \in Passwords \ {Default, users[job[r].user].password} :
         PrepareUsers(r, job[r], [users EXCEPT ![job[r].user] =
                                    [@ EXCEPT !.password = password, !.mustChange = FALSE]])
    /\ UNCHANGED <<files, revoked, world>>

\* Mutation: the name is not compared with the others.
Created_AnyName(r, u) ==
    \E id \in FreshIds, name \in Names, password \in Passwords \ {Default}, role \in Roles :
      PrepareUsers(r, job[r], Put(u, id, [name |-> name, password |-> password,
                                          role |-> role, mustChange |-> TRUE]))

\* An account is added to the accounts u.
Created(r, u) ==
    \E id \in FreshIds, name \in Names \ NamesOf(u), password \in Passwords \ {Default}, role \in Roles :
      PrepareUsers(r, job[r], Put(u, id, [name |-> name, password |-> password,
                                          role |-> role, mustChange |-> TRUE]))

CreateUser(r) ==
    /\ pc[r] = "handle" /\ job[r].op = "create"
    /\ Created(r, users)
    /\ UNCHANGED <<files, revoked, world>>

\* Whether the caller is an administrator is asked again, of the file.
MayManage(r) == job[r].user \in Administrators(users)

\* adminResetPassword
ResetPassword(r) ==
    /\ pc[r] = "handle" /\ job[r].op = "reset"
    /\ MayManage(r)
    /\ \E target \in DOMAIN users, password \in Passwords \ {Default} :
         PrepareUsers(r, [job[r] EXCEPT !.target = target],
                      [users EXCEPT ![target] = [@ EXCEPT !.password = password, !.mustChange = TRUE]])
    /\ UNCHANGED <<files, revoked, world>>

\* The last administrator stays one.
Dispensable(target) ==
    target \in Administrators(users) => Cardinality(Administrators(users)) > 1

UpdateRole(r) ==
    /\ pc[r] = "handle" /\ job[r].op = "role"
    /\ MayManage(r)
    /\ \E target \in DOMAIN users, role \in Roles :
         /\ role # "administrator" => users[target].name # Admin /\ Dispensable(target)
         /\ PrepareUsers(r, [job[r] EXCEPT !.target = target],
                         [users EXCEPT ![target] = [@ EXCEPT !.role = role]])
    /\ UNCHANGED <<files, revoked, world>>

\* Mutation: the built-in account is like any other.
DeleteUser_BuiltIn(r) ==
    /\ pc[r] = "handle" /\ job[r].op = "delete"
    /\ MayManage(r)
    /\ \E target \in DOMAIN users \ {job[r].user} :
         /\ Dispensable(target)
         /\ PrepareUsers(r, [job[r] EXCEPT !.target = target], Drop(users, {target}))
    /\ UNCHANGED <<files, revoked, world>>

DeleteUser(r) ==
    /\ pc[r] = "handle" /\ job[r].op = "delete"
    /\ MayManage(r)
    /\ \E target \in DOMAIN users \ {job[r].user} :
         /\ users[target].name # Admin
         /\ Dispensable(target)
         /\ PrepareUsers(r, [job[r] EXCEPT !.target = target], Drop(users, {target}))
    /\ UNCHANGED <<files, revoked, world>>

-----------------------------------------------------------------------------
\* What follows the save of the accounts.
AfterUsers(op) ==
    CASE op = "login" -> "openSession"
      [] op \in {"change", "reset", "delete"} -> "closeSessions"
      [] OTHER -> "idle"

SaveUsers(r) ==
    /\ pc[r] = "saveUsers"
    /\ users' = newUsers[r]
    /\ IF AfterUsers(job[r].op) = "idle"
       THEN Answer(r)
       ELSE /\ Goto(r, AfterUsers(job[r].op))
            /\ newUsers' = [newUsers EXCEPT ![r] = Empty]
            /\ UNCHANGED <<job, newSessions>>
    /\ UNCHANGED <<sessions, revoked, world>>

\* The sessions in f that the operation ends.
Ended(j, f) ==
    CASE j.op = "logout" -> {j.session}
      [] j.op = "change" -> {s \in DOMAIN f : f[s].owner = j.user} \ {j.session}
      [] j.op \in {"reset", "delete"} -> {s \in DOMAIN f : f[s].owner = j.target}
      [] OTHER -> {}

\* Mutation: the sessions of the caller are ended, not those of the target.
CloseSessions_OfCaller(r) ==
    /\ pc[r] = "closeSessions"
    /\ PrepareSessions(r, Drop(sessions, Ended([job[r] EXCEPT !.target = job[r].user], sessions)))
    /\ UNCHANGED <<files, revoked, world>>

\* The filter of destroySession, changeOwnPassword, adminResetPassword and
\* deleteUser.
CloseSessions(r) ==
    /\ pc[r] = "closeSessions"
    /\ PrepareSessions(r, Drop(sessions, Ended(job[r], sessions)))
    /\ UNCHANGED <<files, revoked, world>>

SaveSessions(r) ==
    /\ pc[r] = "saveSessions"
    /\ sessions' = newSessions[r]
    /\ revoked' = revoked \cup Ended(job[r], sessions)
    /\ Answer(r)
    /\ UNCHANGED <<users, world>>

-----------------------------------------------------------------------------
\* What goes wrong.

Disturb(kind) ==
    /\ kind \in Disturbances
    /\ budget < MaxDisturbances
    /\ budget' = budget + 1

\* The temporary file cannot be written or renamed: the request fails.
SaveFails(r) ==
    /\ pc[r] \in {"bootstrap", "touch", "saveUsers", "saveSessions"}
    /\ Disturb("save")
    /\ Answer(r)
    /\ UNCHANGED <<files, revoked, now, booted, intact>>

\* loadJson takes a file that cannot be read at the moment for an empty one: the
\* first read of getUsersRaw, or its second one.
UsersReadFails(r) ==
    /\ \/ pc[r] \in {"boot", "login", "caller"} /\ ToBootstrap(r)
       \/ pc[r] = "handle" /\ job[r].op # "use" /\ ToBootstrap(r)
       \/ pc[r] \in {"login", "caller"} /\ Answer(r)
       \/ pc[r] = "handle" /\ job[r].op = "create" /\ Created(r, Empty)
    /\ Disturb("read")
    /\ intact' = FALSE
    /\ UNCHANGED <<files, revoked, now, booted>>

SessionsReadFails(r) ==
    /\ \/ pc[r] \in {"cleanup", "closeSessions"} /\ PrepareSessions(r, Empty)
       \/ pc[r] = "openSession" /\ PrepareSessions(r, Opened(r, Empty))
    /\ Disturb("read")
    /\ UNCHANGED <<files, revoked, now, booted, intact>>

\* The process dies and is started again.
Crash ==
    /\ Disturb("crash")
    /\ booted' = FALSE
    /\ pc' = [r \in Requests |-> "idle"]
    /\ job' = [r \in Requests |-> NoJob]
    /\ newUsers' = [r \in Requests |-> Empty]
    /\ newSessions' = [r \in Requests |-> Empty]
    /\ UNCHANGED <<files, revoked, now, intact>>

Tick ==
    /\ now < MaxTime
    /\ now' = now + 1
    /\ UNCHANGED <<files, locals, revoked, booted, intact, budget>>

-----------------------------------------------------------------------------
Start(r) == StartBoot(r) \/ StartLogin(r) \/ StartRequest(r)

\* The step of r that its last await was for.
Continue(r) ==
    \/ Bootstrap(r)
    \/ Boot(r)
    \/ Cleanup(r)
    \/ Authenticate(r)
    \/ OpenSession(r)
    \/ ReadCaller(r)
    \/ Touch(r)
    \/ Respond(r)
    \/ ChangePassword(r)
    \/ CreateUser(r)
    \/ ResetPassword(r)
    \/ UpdateRole(r)
    \/ DeleteUser(r)
    \/ SaveUsers(r)
    \/ CloseSessions(r)
    \/ SaveSessions(r)

Fault(r) == SaveFails(r) \/ UsersReadFails(r) \/ SessionsReadFails(r)

Next ==
    \/ \E r \in Requests : Start(r) \/ Continue(r) \/ Fault(r)
    \/ Crash
    \/ Tick

Spec == Init /\ [][Next]_vars

-----------------------------------------------------------------------------
TypeOK ==
    /\ users \in Users /\ sessions \in SessionFile
    /\ now \in 0..MaxTime
    /\ booted \in BOOLEAN
    /\ pc \in [Requests -> Steps]
    /\ job \in [Requests -> Job]
    /\ newUsers \in [Requests -> Users]
    /\ newSessions \in [Requests -> SessionFile]
    /\ revoked \subseteq Sessions
    /\ intact \in BOOLEAN
    /\ budget \in 0..MaxDisturbances

\* The built-in account is there and administers, and names are unique.
Sound(u) ==
    /\ \E id \in DOMAIN u : u[id].name = Admin /\ u[id].role = "administrator"
    /\ \A a, b \in DOMAIN u : u[a].name = u[b].name => a = b

\* Once there are accounts, the built-in one is among them as an administrator,
\* and no two have the same name: whatever saves overwrite each other, and
\* although each check is made before an await and used after it. (The checks
\* of createUser, updateUserRole and deleteUser, lines 210, 251-255, 263-268.)
AdminKept == intact /\ users # Empty => Sound(users)

\* Nobody gets past the middleware with the default password, except to
\* change it. (README.md line 446: "The default password must be changed after
\* the first login"; lines 74 and 87 of index.ts and line 86.)
DefaultPasswordUseless ==
    \A r \in Requests :
        pc[r] = "handle" /\ job[r].op # "change" => job[r].account.password # Default

\* A session that a logout, a change or a reset of a password or a deletion has
\* ended is never valid again once that request has been answered. (Line 228:
\* "Revoke every other session after password change.")
RevokedStayRevoked == DOMAIN sessions \cap revoked = {}

\* Every step is a step of the record-by-record store: a save of a whole file
\* changes no record but the one its request is about.
Store == INSTANCE AccountStore
ImplementsStore == Store!Spec
=============================================================================
