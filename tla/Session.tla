------------------------------- MODULE Session -------------------------------
(***************************************************************************)
(* frontend/src/api.ts and the sign-in of frontend/src/App.tsx, in the tabs  *)
(* of one browser, against the middleware of backend/src/index.ts.          *)
(*                                                                         *)
(* The tabs share the browser's cookie. Each has a CSRF token of its own, a  *)
(* variable of api.ts, and the user it shows, a state of React. A request   *)
(* takes the cookie along when it is sent, and its answer sets the cookie   *)
(* again when it arrives; answers arrive in any order.                      *)
(***************************************************************************)
EXTENDS FiniteSets, UpdateService

CONSTANTS
    Tabs,
    Users,
    Releases,        \* the tags that GitHub may name as the latest release
    Running,         \* CURRENT_VERSION
    MaxSessions,     \* bound on the sessions that are opened
    MaxRequests,     \* bound on the requests in flight, polls left out
    MaxPolls,        \* bound on the requests of timers in flight
    None             \* no user, no release

NoSession == 0
Sessions == 1..MaxSessions

AuthUser == [user : Users, mustChange : BOOLEAN]

ASSUME SessionAssumption ==
    /\ None \notin Users \cup Releases /\ None \notin AuthUser
    /\ \A tag \in Releases \cup {Running} : IsTag(tag)
    /\ MaxSessions \in Nat /\ MaxRequests \in Nat /\ MaxPolls \in Nat

VARIABLES
    opened,       \* the users of the sessions opened so far, in order
    live,         \* the sessions that the server would accept
    temporary,    \* the users that have to change their password
    cookie,       \* the session in the browser's cookie
    page,         \* page[t]: "closed", "loading" (checking), or "ready"
    shown,        \* shown[t]: the user that t shows as signed in
    token,        \* token[t]: the session whose CSRF token t has
    flight        \* the requests and answers on their way

server == <<opened, live, temporary>>
tabs == <<page, shown, token>>
vars == <<server, cookie, tabs, flight>>

\* The requests of the tabs: getMe when a page is loaded and after a password
\* change; timers and pages that read; the update check; and what changes
\* something, which is only executed with the session's CSRF token.
Mutations == {"logout", "password", "change"}
Identifying == {"login", "load", "reread"}
Kinds == Mutations \cup Identifying \cup {"poll", "check"}
Statuses == {"sent", "ok", "401", "403", "428", "failed", "lost"}

\* user: who signs in; whom the tab showed when it asked for a change or for the
\* update check (history); or, in an answer, who is signed in. release: what the
\* check found. cancelled: the effect that sent it has been cleaned up.
Request ==
    [tab : Tabs, kind : Kinds, status : Statuses, cookie : Sessions \cup {NoSession},
     token : Sessions \cup {NoSession}, user : Users \cup {None}, mustChange : BOOLEAN,
     release : Releases \cup {None}, cancelled : BOOLEAN]

TypeOK ==
    /\ opened \in Seq(Users) /\ Len(opened) <= MaxSessions
    /\ live \subseteq DOMAIN opened
    /\ temporary \subseteq Users
    /\ cookie \in DOMAIN opened \cup {NoSession}
    /\ page \in [Tabs -> {"closed", "loading", "ready"}]
    /\ shown \in [Tabs -> AuthUser \cup {None}]
    /\ token \in [Tabs -> DOMAIN opened \cup {NoSession}]
    /\ flight \subseteq Request

Init ==
    /\ opened = << >> /\ live = {} /\ temporary \in SUBSET Users
    /\ cookie = NoSession
    /\ page = [t \in Tabs |-> "closed"]
    /\ shown = [t \in Tabs |-> None]
    /\ token = [t \in Tabs |-> NoSession]
    /\ flight = {}

-----------------------------------------------------------------------------
\* What a tab sends.
Sent(t, kind, user, c) ==
    [tab |-> t, kind |-> kind, status |-> "sent", cookie |-> c,
     token |-> IF kind \in Mutations THEN token[t] ELSE NoSession,
     user |-> user, mustChange |-> FALSE,
     release |-> None, cancelled |-> FALSE]

InFlight(t, kind) == \E q \in flight : q.tab = t /\ q.kind = kind

Submit(t, kind, user) ==
    /\ page[t] = "ready"
    /\ Cardinality({q \in flight : q.kind # "poll"}) < MaxRequests
    /\ flight' = flight \cup {Sent(t, kind, user, cookie)}
    /\ UNCHANGED <<server, cookie, tabs>>

Login(t) ==
    /\ shown[t] = None /\ ~InFlight(t, "login")
    /\ \E user \in Users : Submit(t, "login", user)

SignOut(t) == shown[t] # None /\ Submit(t, "logout", shown[t].user)

ChangePassword(t) == shown[t] # None /\ Submit(t, "password", shown[t].user)

\* MainApp is on the screen.
Main(t) == shown[t] # None /\ ~shown[t].mustChange

Change(t) == Main(t) /\ Submit(t, "change", shown[t].user)

Polls == {q \in flight : q.kind = "poll"}

\* refresh and pollTraffic.
Poll(t) ==
    /\ Main(t)
    /\ Cardinality(Polls) < MaxPolls
    /\ flight' = flight \cup {Sent(t, "poll", None, cookie)}
    /\ UNCHANGED <<server, cookie, tabs>>

\* The page is opened, or loaded again: nobody waits for its answers any more.
Load(t) ==
    /\ page' = [page EXCEPT ![t] = "loading"]
    /\ shown' = [shown EXCEPT ![t] = None]
    /\ token' = [token EXCEPT ![t] = NoSession]
    /\ flight' = {q \in flight : q.tab # t} \cup {Sent(t, "load", None, cookie)}
    /\ Cardinality({q \in flight' : q.kind # "poll"}) <= MaxRequests
    /\ UNCHANGED <<server, cookie>>

-----------------------------------------------------------------------------
\* Bug: no CSRF token is asked for.
Refusal_NoCsrf(q) ==
    CASE q.kind = "login" -> "none"
      [] q.cookie \notin live -> "401"
      [] opened[q.cookie] \in temporary /\ q.kind \notin {"load", "reread", "password", "logout"} -> "428"
      [] OTHER -> "none"

\* The server. The middleware refuses a request before its route sees it.
Refusal(q) ==
    CASE q.kind = "login" -> "none"
      [] q.cookie \notin live -> "401"
      [] opened[q.cookie] \in temporary /\ q.kind \notin {"load", "reread", "password", "logout"} -> "428"
      [] q.kind \in Mutations /\ q.token # q.cookie -> "403"
      [] OTHER -> "none"

Answered(q, answer) == flight' = (flight \ {q}) \cup {answer}
Status(q, status) == [q EXCEPT !.status = status]

Admitted(q, kinds) == q.status = "sent" /\ q.kind \in kinds /\ Refusal(q) = "none"

Refuse(q) ==
    /\ q.status = "sent" /\ Refusal(q) # "none"
    /\ Answered(q, Status(q, Refusal(q)))
    /\ UNCHANGED server

Identified(q, s, user) ==
    [q EXCEPT !.status = "ok", !.cookie = s, !.token = s, !.user = user,
              !.mustChange = user \in temporary]

\* authenticate: wrong credentials are answered with the status 401 too.
Authenticate(q) ==
    /\ Admitted(q, {"login"})
    /\ \/ /\ Answered(q, Status(q, "401"))
          /\ UNCHANGED server
       \/ /\ Len(opened) < MaxSessions
          /\ opened' = Append(opened, q.user)
          /\ live' = live \cup {Len(opened) + 1}
          /\ Answered(q, Identified(q, Len(opened) + 1, q.user))
          /\ UNCHANGED temporary

Me(q) ==
    /\ Admitted(q, {"load", "reread"})
    /\ Answered(q, Identified(q, q.cookie, opened[q.cookie]))
    /\ UNCHANGED server

Logout(q) ==
    /\ Admitted(q, {"logout"})
    /\ live' = live \ {q.cookie}
    /\ Answered(q, Status(q, "ok"))
    /\ UNCHANGED <<opened, temporary>>

\* changeOwnPassword, with its revocation of the user's other sessions.
NewPassword(q) ==
    /\ Admitted(q, {"password"})
    /\ \/ /\ Answered(q, Status(q, "failed"))
          /\ UNCHANGED server
       \/ /\ temporary' = temporary \ {opened[q.cookie]}
          /\ live' = {s \in live : s = q.cookie \/ opened[s] # opened[q.cookie]}
          /\ Answered(q, Status(q, "ok"))
          /\ UNCHANGED opened

\* Any other endpoint; the errors of its service leave the session alone.
Answer(q) ==
    /\ Admitted(q, {"change", "poll"})
    /\ Answered(q, Status(q, "ok"))
    /\ UNCHANGED server

UpdateStatus(q) ==
    /\ Admitted(q, {"check"})
    /\ \E release \in Releases \cup {None} :
         Answered(q, [Status(q, "ok") EXCEPT !.release = release])
    /\ UNCHANGED server

Serve(q) ==
    /\ \/ Refuse(q) \/ Authenticate(q) \/ Me(q) \/ Logout(q)
       \/ NewPassword(q) \/ Answer(q) \/ UpdateStatus(q)
    /\ UNCHANGED <<cookie, tabs>>

\* Sessions end otherwise too: they expire, or end in another browser.
EndSession ==
    /\ \E s \in live : live' = live \ {s}
    /\ UNCHANGED <<opened, temporary, cookie, tabs, flight>>

\* A password is reset by an administrator, or changed in another browser.
PasswordSet ==
    /\ \E user \in Users :
         /\ \/ temporary' = temporary \cup {user}
            \/ user \in temporary /\ temporary' = temporary \ {user}
         /\ live' = {s \in live : opened[s] # user}
    /\ UNCHANGED <<opened, cookie, tabs, flight>>

-----------------------------------------------------------------------------
\* The answer q is back in its tab, or the request is known to be lost.

\* Bug: every refusal is taken for the end of the session.
Expires_AnyRefusal(q) == q.status \in {"401", "403", "428"} /\ q.kind # "login"

\* Bug: only a refused change reports the end of the session.
Expires_Mutations(q) == q.status = "401" /\ q.kind \in Mutations

Expires(q) == q.status = "401" /\ q.kind # "login"

\* Bug: an answer is taken for a user without a look at its status.
Identifies_AnyAnswer(q) == q.kind \in Identifying

Identifies(q) == q.status = "ok" /\ q.kind \in Identifying

\* getMe's error at the start and any error of logout count as signed out.
SignsOut(q) == Expires(q) \/ q.kind = "logout" \/ (q.kind = "load" /\ q.status # "ok")

\* Every answer of an authenticated request sets the cookie to its session.
Cookie(q) ==
    CASE q.status \in {"401", "lost"} -> cookie
      [] q.status = "ok" /\ q.kind = "logout" -> NoSession
      [] OTHER -> q.cookie

Shown(q) ==
    CASE Identifies(q) -> [user |-> q.user, mustChange |-> q.mustChange]
      [] SignsOut(q) -> None
      [] OTHER -> shown[q.tab]

\* The token that is left over when the login form is shown goes with no request
\* that is asked for one, and is forgotten here.
Token(q) ==
    CASE Identifies(q) -> q.token
      [] SignsOut(q) -> NoSession
      [] OTHER -> token[q.tab]

\* After a password change the tab asks who is signed in.
Rereads(q) ==
    IF q.kind = "password" /\ q.status = "ok"
    THEN {Sent(q.tab, "reread", None, Cookie(q))} ELSE {}

\* When it shows another user, it cancels its update checks and sends a new one.
Checks(q) ==
    IF Shown(q) # None /\ ~Shown(q).mustChange
    THEN {Sent(q.tab, "check", Shown(q).user, Cookie(q))} ELSE {}

\* Bug: the effect has no cleanup.
Cancelled_Never(t, requests) == requests

Cancelled(t, requests) ==
    {IF q.tab = t /\ q.kind = "check" THEN [q EXCEPT !.cancelled = TRUE] ELSE q : q \in requests}

Rendered(q, rest) ==
    IF Shown(q) = shown[q.tab] THEN rest ELSE Cancelled(q.tab, rest) \cup Checks(q)

Receive(q, rest) ==
    /\ cookie' = Cookie(q)
    /\ page' = [page EXCEPT ![q.tab] = "ready"]
    /\ shown' = [shown EXCEPT ![q.tab] = Shown(q)]
    /\ token' = [token EXCEPT ![q.tab] = Token(q)]
    /\ flight' = Rereads(q) \cup Rendered(q, rest)
    /\ UNCHANGED server

Arrive(q) ==
    /\ q.status # "sent"
    /\ Receive(q, flight \ {q})

\* A timer's request that is lost is one that has not been sent.
Lose(q) ==
    /\ q.kind # "poll"
    /\ Receive(Status(q, "lost"), flight \ {q})

\* The answer that is in flight will be shown as a notification.
Announces(q) ==
    /\ q.kind = "check" /\ q.status = "ok" /\ ~q.cancelled
    /\ q.release # None /\ isNewerVersion(q.release, Running)

-----------------------------------------------------------------------------
Next ==
    \/ \E t \in Tabs :
         \/ Login(t) \/ SignOut(t) \/ ChangePassword(t) \/ Change(t) \/ Poll(t) \/ Load(t)
    \/ \E q \in flight : Serve(q) \/ Arrive(q) \/ Lose(q)
    \/ EndSession \/ PasswordSet

Spec == Init /\ [][Next]_vars

\* The timers of a page run, whatever other pages do, and their requests are
\* answered. (A strong fairness only because the bound makes timers wait.)
FairSpec ==
    /\ Spec
    /\ \A t \in Tabs : SF_vars(Poll(t))
    /\ WF_vars(\E q \in Polls : Serve(q))
    /\ WF_vars(\E q \in Polls : Arrive(q))

-----------------------------------------------------------------------------
\* What the server does for a tab, it does for the user that the tab showed when
\* it asked: although another tab has signed in as someone else meanwhile, and
\* although late answers set the cookie back.
ActsAsShown ==
    \A q \in flight :
        q.kind \in Mutations /\ q.status \in {"ok", "failed"} => opened[q.cookie] = q.user

\* When the session of the cookie has ended, every tab notices: it stops showing
\* its user, unless someone signs in again.
EndNoticed ==
    \A t \in Tabs :
        Main(t) /\ cookie \notin live ~> ~Main(t) \/ cookie \in live

\* A new version is announced only if it is newer, and only to the user for whom
\* the tab has asked: whoever has signed out or in meanwhile, the answer is late.
NoticeIsDue ==
    \A q \in flight :
        Announces(q) =>
            /\ Main(q.tab) /\ shown[q.tab].user = q.user
            /\ Weight(q.release) > Weight(Running)

\* A tab goes back to the login form only when its user has signed out there, or
\* when a request of the tab was refused because its session has ended.
OnlyConfirmed ==
    [][\A t \in Tabs :
          shown[t] # None /\ shown'[t] = None /\ page'[t] = "ready" =>
              \E q \in flight :
                  /\ q.tab = t
                  /\ q.kind = "logout" \/ (q.status = "401" /\ q.cookie \notin live)]_vars
=============================================================================
