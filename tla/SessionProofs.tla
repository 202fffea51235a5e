----------------------------- MODULE SessionProofs -----------------------------
(***************************************************************************)
(* Proofs about Session, for any tabs, users, releases and bounds.          *)
(***************************************************************************)
EXTENDS Session, TLAPS

Parties == DOMAIN opened \cup {NoSession}

\* A request or an answer on its way. The session that it names is one that has
\* been opened. A change carries the token of the user it was asked for by, and
\* the answer of a change comes from a session of that user. A refusal with the
\* status 401 is for good: a session that has ended does not come back.
RequestInv(q) ==
    /\ q \in Request
    /\ q.cookie \in Parties /\ q.token \in Parties
    /\ q.kind \in Mutations \cup {"login", "check"} => q.user \in Users
    /\ Identifies(q) => q.token # NoSession /\ opened[q.token] = q.user
    /\ q.kind \in Mutations /\ q.status = "sent" =>
         q.token # NoSession /\ opened[q.token] = q.user
    /\ q.kind \in Mutations /\ q.status \in {"ok", "failed"} =>
         q.cookie # NoSession /\ opened[q.cookie] = q.user
    /\ q.status = "401" /\ q.kind # "login" => q.cookie \notin live

\* A tab has the token of a session of the user it shows.
TabInv(t) ==
    shown[t] # None => token[t] # NoSession /\ opened[token[t]] = shown[t].user

\* A page that is loaded shows nobody and waits for one answer.
LoadInv(q) ==
    q.kind = "load" =>
        /\ page[q.tab] = "loading" /\ shown[q.tab] = None
        /\ \A r \in flight : r.tab = q.tab => r = q

\* An update check that has not been cancelled was sent for the user still shown.
CheckInv(q) ==
    q.kind = "check" /\ ~q.cancelled => Main(q.tab) /\ shown[q.tab].user = q.user

FlightInv == \A q \in flight : RequestInv(q) /\ LoadInv(q) /\ CheckInv(q)

SessionInv == TypeOK /\ FlightInv /\ (\A t \in Tabs : TabInv(t))

-----------------------------------------------------------------------------
\* What the operators on requests return.

LEMMA AnswerFacts ==
    ASSUME NEW q \in Request, NEW s \in Statuses
    PROVE  /\ Status(q, s) \in Request
           /\ Status(q, s).status = s
           /\ Status(q, s).tab = q.tab /\ Status(q, s).kind = q.kind
           /\ Status(q, s).cookie = q.cookie /\ Status(q, s).token = q.token
           /\ Status(q, s).user = q.user /\ Status(q, s).cancelled = q.cancelled
BY DEF Request, Status

LEMMA IdentifiedFacts ==
    ASSUME NEW q \in Request, NEW s \in Sessions, NEW user \in Users
    PROVE  /\ Identified(q, s, user) \in Request
           /\ Identified(q, s, user).status = "ok"
           /\ Identified(q, s, user).tab = q.tab /\ Identified(q, s, user).kind = q.kind
           /\ Identified(q, s, user).cookie = s /\ Identified(q, s, user).token = s
           /\ Identified(q, s, user).user = user
           /\ Identified(q, s, user).cancelled = q.cancelled
<1> DEFINE Reply(b) == [q EXCEPT !.status = "ok", !.cookie = s, !.token = s, !.user = user,
                                  !.mustChange = b]
<1>1. ASSUME NEW b \in BOOLEAN
      PROVE  /\ Reply(b) \in Request
             /\ Reply(b).status = "ok"
             /\ Reply(b).tab = q.tab /\ Reply(b).kind = q.kind
             /\ Reply(b).cookie = s /\ Reply(b).token = s
             /\ Reply(b).user = user /\ Reply(b).cancelled = q.cancelled
  BY DEF Request, Statuses
<1>2. (user \in temporary) \in BOOLEAN
  OBVIOUS
<1>3. Identified(q, s, user) = Reply(user \in temporary)
  BY DEF Identified
<1> HIDE DEF Reply
<1> QED
  BY <1>1, <1>2, <1>3

LEMMA SentFacts ==
    ASSUME NEW t \in Tabs, NEW kind \in Kinds, NEW user \in Users \cup {None},
           NEW c \in Sessions \cup {NoSession}, token[t] \in Sessions \cup {NoSession}
    PROVE  /\ Sent(t, kind, user, c) \in Request
           /\ Sent(t, kind, user, c).status = "sent"
           /\ Sent(t, kind, user, c).tab = t /\ Sent(t, kind, user, c).kind = kind
           /\ Sent(t, kind, user, c).cookie = c
           /\ Sent(t, kind, user, c).token = IF kind \in Mutations THEN token[t] ELSE NoSession
           /\ Sent(t, kind, user, c).user = user
           /\ ~Sent(t, kind, user, c).cancelled
BY DEF Request, Sent, Statuses

\* The cancelling of a tab's update checks changes nothing else of a request.
LEMMA CancelledFacts ==
    ASSUME NEW t \in Tabs, NEW requests \in SUBSET Request, NEW r \in Cancelled(t, requests)
    PROVE  \E q \in requests :
             /\ r \in Request
             /\ r.tab = q.tab /\ r.kind = q.kind /\ r.status = q.status
             /\ r.cookie = q.cookie /\ r.token = q.token /\ r.user = q.user
             /\ q.tab = t /\ q.kind = "check" => r.cancelled
             /\ ~(q.tab = t /\ q.kind = "check") => r = q
<1>1. PICK q \in requests : r = IF q.tab = t /\ q.kind = "check" THEN [q EXCEPT !.cancelled = TRUE] ELSE q
  BY DEF Cancelled
<1>2. q \in Request
  OBVIOUS
<1> QED
  BY <1>1, <1>2 DEF Request

LEMMA PartiesAreSessions ==
    ASSUME TypeOK
    PROVE  /\ DOMAIN opened = 1..Len(opened) /\ Len(opened) \in Nat
           /\ Parties \subseteq Sessions \cup {NoSession}
           /\ Parties \ {NoSession} \subseteq DOMAIN opened
           /\ DOMAIN opened \subseteq Sessions
           /\ \A s \in DOMAIN opened : opened[s] \in Users
           /\ NoSession \notin DOMAIN opened
BY SessionAssumption DEF TypeOK, Parties, Sessions, NoSession

-----------------------------------------------------------------------------
LEMMA SessionInvInit == Init => SessionInv
<1> SUFFICES ASSUME Init PROVE SessionInv
  OBVIOUS
<1>1. opened = << >> /\ DOMAIN opened = {} /\ << >> \in Seq(Users) /\ Len(opened) = 0
  BY DEF Init
<1>2. TypeOK
  BY <1>1, SessionAssumption DEF Init, TypeOK, AuthUser
<1> QED
  BY <1>2 DEF Init, SessionInv, FlightInv, TabInv

\* A tab sends a request of a kind that needs no token or that carries its own.
LEMMA SubmitStep ==
    ASSUME SessionInv, NEW t \in Tabs, NEW kind \in Kinds \ {"load", "check"},
           NEW user \in Users \cup {None},
           kind \in Mutations \cup {"login"} => user \in Users,
           kind \in Mutations => shown[t] # None /\ user = shown[t].user,
           kind \in {"poll", "reread"} \/ page[t] = "ready",
           kind = "poll" => shown[t] # None,
           kind # "reread",
           flight' = flight \cup {Sent(t, kind, user, cookie)},
           UNCHANGED <<server, cookie, tabs>>
    PROVE  SessionInv'
<1> DEFINE new == Sent(t, kind, user, cookie)
<1>1. TypeOK /\ FlightInv /\ (\A u \in Tabs : TabInv(u))
  BY DEF SessionInv
<1>2. token[t] \in Parties /\ cookie \in Parties /\ token[t] \in Sessions \cup {NoSession}
      /\ cookie \in Sessions \cup {NoSession}
  BY <1>1, PartiesAreSessions DEF TypeOK, Parties
<1>3. /\ new \in Request /\ new.status = "sent" /\ new.tab = t /\ new.kind = kind
      /\ new.cookie = cookie /\ new.token = IF kind \in Mutations THEN token[t] ELSE NoSession
      /\ new.user = user /\ ~new.cancelled
  BY <1>2, SentFacts
<1> HIDE DEF new
<1>4. TypeOK'
  BY <1>1, <1>3 DEF TypeOK, new, server, tabs
<1>5. RequestInv(new)
  BY <1>1, <1>2, <1>3 DEF RequestInv, Identifies, TabInv, Parties
<1>6. ASSUME NEW q \in flight' PROVE RequestInv(q)'
  BY <1>1, <1>5 DEF RequestInv, FlightInv, new, server, Parties, Identifies
<1>7. ASSUME NEW q \in flight' PROVE LoadInv(q)'
  <2>1. \A r \in flight : r.kind = "load" => r.tab # t
    BY <1>1 DEF FlightInv, LoadInv
  <2>2. \A r \in flight' : r \in flight \/ r = new
    BY DEF new
  <2> QED
    BY <1>1, <1>3, <2>1, <2>2 DEF FlightInv, LoadInv, tabs
<1>8. ASSUME NEW q \in flight' PROVE CheckInv(q)'
  <2>1. q \in flight \/ q = new
    BY DEF new
  <2> QED
    BY <1>1, <1>3, <2>1 DEF FlightInv, CheckInv, Main, tabs
<1>9. \A u \in Tabs : TabInv(u)'
  BY <1>1 DEF TabInv, server, tabs
<1> QED
  BY <1>4, <1>6, <1>7, <1>8, <1>9 DEF SessionInv, FlightInv

LEMMA LoadStep ==
    ASSUME SessionInv, NEW t \in Tabs, Load(t)
    PROVE  SessionInv'
<1> DEFINE new == Sent(t, "load", None, cookie)
<1>1. TypeOK /\ FlightInv /\ (\A u \in Tabs : TabInv(u))
  BY DEF SessionInv
<1>2. token[t] \in Sessions \cup {NoSession} /\ cookie \in Parties /\ cookie \in Sessions \cup {NoSession}
  BY <1>1, PartiesAreSessions DEF TypeOK, Parties
<1>3. /\ new \in Request /\ new.status = "sent" /\ new.tab = t /\ new.kind = "load"
      /\ new.cookie = cookie /\ new.token = NoSession
      /\ new.user = None /\ ~new.cancelled
  BY <1>2, SentFacts DEF Kinds, Identifying, Mutations
<1>4. flight' = {q \in flight : q.tab # t} \cup {new}
  BY DEF Load
<1> HIDE DEF new
<1>5. /\ page' = [page EXCEPT ![t] = "loading"] /\ shown' = [shown EXCEPT ![t] = None]
      /\ token' = [token EXCEPT ![t] = NoSession] /\ UNCHANGED <<opened, live, temporary, cookie>>
  BY DEF Load, server
<1>6. TypeOK'
  BY <1>1, <1>3, <1>4, <1>5 DEF TypeOK
<1>7. RequestInv(new)
  BY <1>2, <1>3 DEF RequestInv, Identifies, Mutations, Parties
<1>8. \A q \in flight' : RequestInv(q)'
  BY <1>1, <1>4, <1>5, <1>7 DEF RequestInv, FlightInv, Parties, Identifies
<1>9. \A u \in Tabs : page[u] \in {"closed", "loading", "ready"} /\ u \in DOMAIN page /\ u \in DOMAIN shown
  BY <1>1 DEF TypeOK
<1>10. ASSUME NEW q \in flight' PROVE LoadInv(q)'
  <2>1. CASE q = new
    BY <2>1, <1>3, <1>4, <1>5, <1>9 DEF LoadInv
  <2>2. CASE q \in flight /\ q.tab # t
    <3>1. q.tab \in Tabs
      BY <2>2, <1>1 DEF FlightInv, RequestInv, Request
    <3> QED
      BY <2>2, <3>1, <1>1, <1>3, <1>4, <1>5, <1>9 DEF LoadInv, FlightInv
  <2> QED
    BY <2>1, <2>2, <1>4
<1>11. ASSUME NEW q \in flight' PROVE CheckInv(q)'
  <2>1. CASE q = new
    BY <2>1, <1>3 DEF CheckInv
  <2>2. CASE q \in flight /\ q.tab # t
    <3>1. q.tab \in Tabs
      BY <2>2, <1>1 DEF FlightInv, RequestInv, Request
    <3> QED
      BY <2>2, <3>1, <1>1, <1>5, <1>9 DEF CheckInv, FlightInv, Main
  <2> QED
    BY <2>1, <2>2, <1>4
<1>12. \A u \in Tabs : TabInv(u)'
  BY <1>1, <1>5 DEF TabInv, TypeOK
<1> QED
  BY <1>6, <1>8, <1>10, <1>11, <1>12 DEF SessionInv, FlightInv

-----------------------------------------------------------------------------
\* The server opens sessions at the end and never accepts one again that it has
\* ended: what is known of a request stays true.
SessionsGrow ==
    /\ opened' = opened
         \/ (Len(opened) < MaxSessions /\ \E user \in Users : opened' = Append(opened, user))
    /\ live' \subseteq live \cup (DOMAIN opened' \ DOMAIN opened)
    /\ temporary' \subseteq Users

LEMMA SessionsGrowFacts ==
    ASSUME TypeOK, SessionsGrow
    PROVE  /\ opened' \in Seq(Users) /\ Len(opened') <= MaxSessions
           /\ live' \subseteq DOMAIN opened'
           /\ Parties \subseteq Parties'
           /\ \A s \in DOMAIN opened : s \in DOMAIN opened' /\ opened'[s] = opened[s]
           /\ \A s \in Parties : s \notin live => s \notin live'
<1>1. opened \in Seq(Users) /\ Len(opened) \in Nat /\ Len(opened) <= MaxSessions /\ MaxSessions \in Nat
  BY SessionAssumption DEF TypeOK
<1>2. live \subseteq DOMAIN opened /\ DOMAIN opened = 1..Len(opened)
  BY <1>1 DEF TypeOK
<1>3. CASE opened' = opened
  BY <1>1, <1>2, <1>3 DEF SessionsGrow, Parties, NoSession
<1>4. CASE Len(opened) < MaxSessions /\ \E user \in Users : opened' = Append(opened, user)
  <2>1. PICK user \in Users : opened' = Append(opened, user)
    BY <1>4
  <2>2. opened' \in Seq(Users) /\ Len(opened') = Len(opened) + 1 /\ DOMAIN opened' = 1..Len(opened) + 1
        /\ \A s \in 1..Len(opened) : opened'[s] = opened[s]
    BY <2>1, <1>1
  <2>3. DOMAIN opened \subseteq DOMAIN opened' /\ NoSession \notin DOMAIN opened'
    BY <2>2, <1>1, <1>2 DEF NoSession
  <2>4. live' \subseteq live \cup (DOMAIN opened' \ DOMAIN opened)
    BY DEF SessionsGrow
  <2>5. Len(opened') <= MaxSessions
    BY <2>2, <1>1, <1>4
  <2> QED
    BY <2>2, <2>3, <2>4, <2>5, <1>2 DEF Parties
<1> QED
  BY <1>3, <1>4 DEF SessionsGrow

LEMMA RequestInvStable ==
    ASSUME TypeOK, SessionsGrow, NEW q, RequestInv(q)
    PROVE  RequestInv(q)'
<1>1. /\ Parties \subseteq Parties'
      /\ \A s \in Parties : s # NoSession => opened'[s] = opened[s]
      /\ \A s \in Parties : s \notin live => s \notin live'
  BY SessionsGrowFacts DEF Parties
<1> QED
  BY <1>1 DEF RequestInv, Identifies

LEMMA TabInvStable ==
    ASSUME TypeOK, SessionsGrow, UNCHANGED tabs, NEW t \in Tabs, TabInv(t)
    PROVE  TabInv(t)'
<1>1. token[t] \in Parties
  BY DEF TypeOK, Parties
<1>2. \A s \in Parties : s # NoSession => opened'[s] = opened[s]
  BY SessionsGrowFacts DEF Parties
<1> QED
  BY <1>1, <1>2 DEF TabInv, tabs

LEMMA SessionsStep ==
    ASSUME SessionInv, SessionsGrow, UNCHANGED <<cookie, tabs, flight>>
    PROVE  SessionInv'
<1>1. TypeOK /\ FlightInv /\ (\A u \in Tabs : TabInv(u))
  BY DEF SessionInv
<1>2. TypeOK'
  <2>1. DOMAIN opened \subseteq DOMAIN opened'
    BY <1>1, SessionsGrowFacts
  <2> QED
    BY <1>1, <2>1, SessionsGrowFacts DEF TypeOK, SessionsGrow, tabs
<1>3. FlightInv'
  BY <1>1, RequestInvStable DEF FlightInv, LoadInv, CheckInv, Main, tabs
<1> QED
  BY <1>1, <1>2, <1>3, TabInvStable DEF SessionInv

\* The server answers a request.
LEMMA AnsweredStep ==
    ASSUME SessionInv, SessionsGrow, UNCHANGED <<cookie, tabs>>,
           NEW q \in flight, NEW answer, Answered(q, answer), RequestInv(answer)',
           answer.tab = q.tab, answer.kind = q.kind, answer.cancelled = q.cancelled,
           q.kind = "check" => answer.user = q.user
    PROVE  SessionInv'
<1>1. TypeOK /\ FlightInv /\ (\A u \in Tabs : TabInv(u))
  BY DEF SessionInv
<1>2. flight' = (flight \ {q}) \cup {answer}
  BY DEF Answered
<1>3. TypeOK'
  <2>1. DOMAIN opened \subseteq DOMAIN opened'
    BY <1>1, SessionsGrowFacts
  <2>2. answer \in Request
    BY DEF RequestInv
  <2> QED
    BY <1>1, <1>2, <2>1, <2>2, SessionsGrowFacts DEF TypeOK, SessionsGrow, tabs
<1>4. \A r \in flight' : RequestInv(r)'
  BY <1>1, <1>2, RequestInvStable DEF FlightInv
<1>5. \A r \in flight' : LoadInv(r)'
  BY <1>1, <1>2 DEF FlightInv, LoadInv, tabs
<1>6. \A r \in flight' : CheckInv(r)'
  BY <1>1, <1>2 DEF FlightInv, CheckInv, Main, tabs
<1> QED
  BY <1>1, <1>3, <1>4, <1>5, <1>6, TabInvStable DEF SessionInv, FlightInv

\* An answer that opens no session and says nothing of a user.
LEMMA StatusStep ==
    ASSUME SessionInv, UNCHANGED <<opened, cookie, tabs>>,
           live' \subseteq live, temporary' \subseteq Users,
           NEW q \in flight, NEW status \in Statuses,
           Answered(q, Status(q, status)),
           q.status = "sent",
           status = "ok" => q.kind \notin Identifying,
           status \in {"ok", "failed"} /\ q.kind \in Mutations => Refusal(q) = "none",
           status = "401" => q.kind = "login" \/ q.cookie \notin live
    PROVE  SessionInv'
<1>1. TypeOK /\ FlightInv
  BY DEF SessionInv
<1>2. SessionsGrow
  BY <1>1 DEF SessionsGrow
<1>3. RequestInv(q)
  BY <1>1 DEF FlightInv
<1>4. /\ Status(q, status) \in Request /\ Status(q, status).status = status
      /\ Status(q, status).tab = q.tab /\ Status(q, status).kind = q.kind
      /\ Status(q, status).cookie = q.cookie /\ Status(q, status).token = q.token
      /\ Status(q, status).user = q.user /\ Status(q, status).cancelled = q.cancelled
  BY <1>3, AnswerFacts DEF RequestInv
<1>5. q.kind \in Mutations /\ Refusal(q) = "none" => q.token = q.cookie
  BY DEF Refusal, Mutations
<1>6. status # "sent" \/ q.status = "sent"
  OBVIOUS
<1>7. RequestInv(Status(q, status))
  BY <1>3, <1>4, <1>5 DEF RequestInv, Identifies
<1>8. RequestInv(Status(q, status))'
  BY <1>1, <1>2, <1>7, RequestInvStable
<1> QED
  BY <1>2, <1>4, <1>8, AnsweredStep

LEMMA AuthenticateStep ==
    ASSUME SessionInv, NEW q \in flight, Authenticate(q), UNCHANGED <<cookie, tabs>>
    PROVE  SessionInv'
<1>1. TypeOK /\ RequestInv(q) /\ q.status = "sent" /\ q.kind = "login" /\ q.user \in Users
  BY DEF SessionInv, FlightInv, RequestInv, Authenticate, Admitted
<1>2. CASE Answered(q, Status(q, "401")) /\ UNCHANGED server
  BY <1>1, <1>2, StatusStep DEF Statuses, server, TypeOK, Mutations
<1>3. CASE /\ Len(opened) < MaxSessions
           /\ opened' = Append(opened, q.user)
           /\ live' = live \cup {Len(opened) + 1}
           /\ Answered(q, Identified(q, Len(opened) + 1, q.user))
           /\ UNCHANGED temporary
  <2> DEFINE s == Len(opened) + 1
  <2>1. opened \in Seq(Users) /\ Len(opened) \in Nat /\ DOMAIN opened = 1..Len(opened)
    BY <1>1, PartiesAreSessions DEF TypeOK
  <2>2. s \in DOMAIN opened' /\ s \notin DOMAIN opened /\ opened'[s] = q.user
    BY <2>1, <1>1, <1>3
  <2>3. s \in Sessions /\ s # NoSession
    BY <2>1, <1>3, SessionAssumption DEF Sessions, NoSession
  <2>4. SessionsGrow
    BY <1>1, <1>3, <2>2 DEF SessionsGrow, TypeOK
  <2> PICK answer : answer = Identified(q, s, q.user)
    OBVIOUS
  <2>5. /\ answer \in Request /\ answer.status = "ok"
        /\ answer.tab = q.tab /\ answer.kind = q.kind
        /\ answer.cookie = s /\ answer.token = s
        /\ answer.user = q.user /\ answer.cancelled = q.cancelled
    BY <1>1, <2>3, IdentifiedFacts DEF RequestInv
  <2>6. Answered(q, answer)
    BY <1>3
  <2> HIDE DEF s
  <2>7. RequestInv(answer)'
    BY <1>1, <2>2, <2>3, <2>5 DEF RequestInv, Parties, Identifies, Mutations
  <2> QED
    BY <1>1, <2>4, <2>5, <2>6, <2>7, AnsweredStep
<1> QED
  BY <1>2, <1>3 DEF Authenticate

LEMMA MeStep ==
    ASSUME SessionInv, NEW q \in flight, Me(q), UNCHANGED <<cookie, tabs>>
    PROVE  SessionInv'
<1>1. TypeOK /\ RequestInv(q) /\ q.status = "sent" /\ q.kind \in {"load", "reread"}
  BY DEF SessionInv, FlightInv, Me, Admitted
<1>2. q.cookie \in live
  BY <1>1 DEF Me, Admitted, Refusal
<1>3. q.cookie \in DOMAIN opened /\ opened[q.cookie] \in Users /\ q.cookie \in Sessions
      /\ q.cookie # NoSession
  BY <1>1, <1>2, PartiesAreSessions DEF TypeOK
<1>4. SessionsGrow /\ UNCHANGED <<opened, live>>
  BY <1>1 DEF Me, server, SessionsGrow, TypeOK
<1> PICK answer : answer = Identified(q, q.cookie, opened[q.cookie])
  OBVIOUS
<1>5. /\ answer \in Request /\ answer.status = "ok"
      /\ answer.tab = q.tab /\ answer.kind = q.kind
      /\ answer.cookie = q.cookie /\ answer.token = q.cookie
      /\ answer.user = opened[q.cookie] /\ answer.cancelled = q.cancelled
  BY <1>1, <1>3, IdentifiedFacts DEF RequestInv
<1>6. Answered(q, answer)
  BY DEF Me
<1>7. RequestInv(answer)'
  BY <1>1, <1>3, <1>4, <1>5 DEF RequestInv, Parties, Identifies, Mutations
<1> QED
  BY <1>1, <1>4, <1>5, <1>6, <1>7, AnsweredStep

LEMMA UpdateStatusStep ==
    ASSUME SessionInv, NEW q \in flight, UpdateStatus(q), UNCHANGED <<cookie, tabs>>
    PROVE  SessionInv'
<1>1. TypeOK /\ RequestInv(q) /\ q.status = "sent" /\ q.kind = "check"
  BY DEF SessionInv, FlightInv, UpdateStatus, Admitted
<1>2. SessionsGrow /\ UNCHANGED <<opened, live>>
  BY <1>1 DEF UpdateStatus, server, SessionsGrow, TypeOK
<1>3. PICK release \in Releases \cup {None} :
        Answered(q, [Status(q, "ok") EXCEPT !.release = release])
  BY DEF UpdateStatus
<1> DEFINE answer == [Status(q, "ok") EXCEPT !.release = release]
<1>4. /\ answer \in Request /\ answer.status = "ok"
      /\ answer.tab = q.tab /\ answer.kind = q.kind
      /\ answer.cookie = q.cookie /\ answer.token = q.token
      /\ answer.user = q.user /\ answer.cancelled = q.cancelled
  BY <1>1 DEF RequestInv, Request, Status, Statuses
<1>5. Answered(q, answer)
  BY <1>3
<1> HIDE DEF answer
<1>6. RequestInv(answer)'
  BY <1>1, <1>2, <1>4 DEF RequestInv, Parties, Identifies, Identifying, Mutations
<1> QED
  BY <1>1, <1>2, <1>4, <1>5, <1>6, AnsweredStep

LEMMA ServeStep ==
    ASSUME SessionInv, NEW q \in flight, Serve(q)
    PROVE  SessionInv'
<1>1. TypeOK /\ RequestInv(q) /\ UNCHANGED <<cookie, tabs>>
  BY DEF SessionInv, FlightInv, Serve
<1>2. temporary \subseteq Users /\ q.kind \in Kinds /\ q.status \in Statuses
  BY <1>1 DEF TypeOK, RequestInv, Request
<1>3. CASE Refuse(q)
  <2>1. Refusal(q) \in {"401", "428", "403"} /\ (Refusal(q) = "401" => q.cookie \notin live)
    BY <1>3 DEF Refuse, Refusal
  <2> QED
    BY <2>1, <1>1, <1>2, <1>3, StatusStep DEF Refuse, server, Statuses
<1>4. CASE Authenticate(q)
  BY <1>1, <1>4, AuthenticateStep
<1>5. CASE Me(q)
  BY <1>1, <1>5, MeStep
<1>6. CASE Logout(q)
  <2>1. live' \subseteq live
    BY <1>6 DEF Logout
  <2> QED
    BY <2>1, <1>1, <1>2, <1>6, StatusStep DEF Logout, Admitted, Statuses, Identifying
<1>7. CASE NewPassword(q)
  <2>1. live' \subseteq live /\ temporary' \subseteq Users /\ opened' = opened
    BY <1>2, <1>7 DEF NewPassword, server
  <2>2. Answered(q, Status(q, "failed")) \/ Answered(q, Status(q, "ok"))
    BY <1>7 DEF NewPassword
  <2>3. q.status = "sent" /\ Refusal(q) = "none" /\ q.kind = "password"
    BY <1>7 DEF NewPassword, Admitted
  <2> QED
    BY <2>1, <2>2, <2>3, <1>1, StatusStep DEF Statuses, Identifying
<1>8. CASE Answer(q)
  BY <1>1, <1>2, <1>8, StatusStep DEF Answer, Admitted, server, Statuses, Identifying
<1>9. CASE UpdateStatus(q)
  BY <1>1, <1>9, UpdateStatusStep
<1> QED
  BY <1>3, <1>4, <1>5, <1>6, <1>7, <1>8, <1>9 DEF Serve

-----------------------------------------------------------------------------
\* What an answer makes of the tab: a user is shown with a token of his.
LEMMA ReceivedFacts ==
    ASSUME TypeOK, NEW q, RequestInv(q), TabInv(q.tab)
    PROVE  /\ Cookie(q) \in Parties
           /\ Shown(q) \in AuthUser \cup {None}
           /\ Token(q) \in Parties
           /\ Shown(q) # None => Token(q) # NoSession /\ opened[Token(q)] = Shown(q).user
<1>1. /\ q \in Request /\ q.tab \in Tabs /\ cookie \in Parties /\ NoSession \in Parties
      /\ token[q.tab] \in Parties /\ shown[q.tab] \in AuthUser \cup {None}
      /\ q.mustChange \in BOOLEAN /\ q.cookie \in Parties
  BY DEF TypeOK, RequestInv, Request, Parties
<1>2. Cookie(q) \in Parties
  BY <1>1 DEF Cookie
<1>3. CASE Identifies(q)
  <2>1. q.token \in DOMAIN opened /\ opened[q.token] = q.user /\ q.token # NoSession
    BY <1>3, PartiesAreSessions DEF RequestInv
  <2>2. q.user \in Users
    BY <2>1, PartiesAreSessions
  <2>3. Shown(q) = [user |-> q.user, mustChange |-> q.mustChange] /\ Token(q) = q.token
    BY <1>3 DEF Shown, Token, Identifies, SignsOut, Expires, Identifying
  <2> QED
    BY <1>1, <1>2, <2>1, <2>2, <2>3 DEF AuthUser, Parties
<1>4. CASE ~Identifies(q) /\ SignsOut(q)
  BY <1>1, <1>2, <1>4 DEF Shown, Token
<1>5. CASE ~Identifies(q) /\ ~SignsOut(q)
  BY <1>1, <1>2, <1>5 DEF Shown, Token, TabInv
<1> QED
  BY <1>3, <1>4, <1>5

\* Where the requests come from that are in flight after the answer q of tab t.
LEMMA FlightAfter ==
    ASSUME SessionInv, NEW q, NEW rest \in SUBSET flight, RequestInv(q), Receive(q, rest),
           NEW r \in flight'
    PROVE  \/ Shown(q) = shown[q.tab] /\ r \in rest
           \/ /\ Shown(q) # shown[q.tab]
              /\ \E p \in rest :
                   /\ r \in Request
                   /\ r.tab = p.tab /\ r.kind = p.kind /\ r.status = p.status
                   /\ r.cookie = p.cookie /\ r.token = p.token /\ r.user = p.user
                   /\ p.tab = q.tab /\ p.kind = "check" => r.cancelled
                   /\ ~(p.tab = q.tab /\ p.kind = "check") => r = p
           \/ /\ q.kind = "password" /\ q.status = "ok"
              /\ r = Sent(q.tab, "reread", None, Cookie(q))
           \/ /\ Shown(q) # None /\ ~Shown(q).mustChange
              /\ r = Sent(q.tab, "check", Shown(q).user, Cookie(q))
<1>1. rest \in SUBSET Request /\ q.tab \in Tabs
  BY DEF SessionInv, TypeOK, RequestInv, Request
<1>2. flight' = Rereads(q) \cup Rendered(q, rest)
  BY DEF Receive
<1>3. CASE r \in Rereads(q)
  BY <1>3 DEF Rereads
<1>4. CASE r \in Rendered(q, rest) /\ Shown(q) = shown[q.tab]
  BY <1>4 DEF Rendered
<1>5. CASE r \in Cancelled(q.tab, rest) /\ Shown(q) # shown[q.tab]
  BY <1>1, <1>5, CancelledFacts
<1>6. CASE r \in Checks(q)
  BY <1>6 DEF Checks
<1> QED
  BY <1>2, <1>3, <1>4, <1>5, <1>6 DEF Rendered

LEMMA NewRequest ==
    ASSUME TypeOK, NEW t \in Tabs, NEW kind \in {"reread", "check"}, NEW user \in Users \cup {None},
           NEW c \in Parties, kind = "check" => user \in Users
    PROVE  /\ RequestInv(Sent(t, kind, user, c))
           /\ Sent(t, kind, user, c).tab = t /\ Sent(t, kind, user, c).kind = kind
           /\ Sent(t, kind, user, c).user = user
<1>1. token[t] \in Sessions \cup {NoSession} /\ c \in Sessions \cup {NoSession}
      /\ kind \in Kinds /\ kind \notin Mutations
  BY PartiesAreSessions DEF TypeOK, Kinds, Identifying, Mutations
<1> PICK new : new = Sent(t, kind, user, c)
  OBVIOUS
<1>2. /\ new \in Request /\ new.status = "sent" /\ new.tab = t /\ new.kind = kind
      /\ new.cookie = c /\ new.token = NoSession /\ new.user = user
  BY <1>1, SentFacts
<1>3. RequestInv(new)
  BY <1>1, <1>2 DEF RequestInv, Identifies, Parties
<1> QED
  BY <1>2, <1>3

LEMMA ReceiveStep ==
    ASSUME SessionInv, NEW q0 \in flight, NEW q, RequestInv(q),
           q.tab = q0.tab, q.kind = q0.kind, Receive(q, flight \ {q0})
    PROVE  SessionInv'
<1> DEFINE t == q0.tab
<1>1. TypeOK /\ FlightInv /\ (\A u \in Tabs : TabInv(u))
  BY DEF SessionInv
<1>2. t \in Tabs /\ q.tab = t
  BY <1>1 DEF FlightInv, RequestInv, Request
<1>3. /\ Cookie(q) \in Parties /\ Shown(q) \in AuthUser \cup {None} /\ Token(q) \in Parties
      /\ Shown(q) # None => Token(q) # NoSession /\ opened[Token(q)] = Shown(q).user
  BY <1>1, <1>2, ReceivedFacts
<1>4. /\ cookie' = Cookie(q)
      /\ page' = [page EXCEPT ![t] = "ready"]
      /\ shown' = [shown EXCEPT ![t] = Shown(q)]
      /\ token' = [token EXCEPT ![t] = Token(q)]
      /\ UNCHANGED <<opened, live, temporary>>
  BY <1>2 DEF Receive, server
<1> HIDE DEF t
<1>5. /\ page' \in [Tabs -> {"closed", "loading", "ready"}]
      /\ shown' \in [Tabs -> AuthUser \cup {None}] /\ token' \in [Tabs -> Parties]
      /\ shown'[t] = Shown(q) /\ token'[t] = Token(q)
      /\ \A u \in Tabs \ {t} : page'[u] = page[u] /\ shown'[u] = shown[u] /\ token'[u] = token[u]
  BY <1>1, <1>2, <1>3, <1>4 DEF TypeOK, Parties
<1> DEFINE Kept(r) == \E p \in flight \ {q0} :
                 /\ r \in Request
                 /\ r.tab = p.tab /\ r.kind = p.kind /\ r.status = p.status
                 /\ r.cookie = p.cookie /\ r.token = p.token /\ r.user = p.user
                 /\ p.tab = t /\ p.kind = "check" => Shown(q) = shown[t] \/ r.cancelled
                 /\ ~(p.tab = t /\ p.kind = "check") => r = p
                 /\ r = p \/ r.cancelled
           Reread(r) == r = Sent(t, "reread", None, Cookie(q))
           Check(r) == /\ Shown(q) # None /\ ~Shown(q).mustChange
                       /\ r = Sent(t, "check", Shown(q).user, Cookie(q))
<1>6. ASSUME NEW r \in flight'
      PROVE  Kept(r) \/ Reread(r) \/ Check(r)
  <2>1. ASSUME r \in flight \ {q0}, Shown(q) = shown[q.tab]
        PROVE  Kept(r)
    BY <2>1, <1>1, <1>2 DEF TypeOK
  <2> QED
    BY <2>1, <1>1, <1>2, FlightAfter
<1>7. ASSUME NEW r, Check(r)
      PROVE  RequestInv(r) /\ r.tab = t /\ r.kind = "check" /\ r.user = Shown(q).user
  <2>1. Shown(q).user \in Users
    BY <1>3, <1>7 DEF AuthUser
  <2> QED
    BY <2>1, <1>1, <1>2, <1>3, <1>7, NewRequest
<1>8. ASSUME NEW r, Reread(r)
      PROVE  RequestInv(r) /\ r.tab = t /\ r.kind = "reread"
  BY <1>1, <1>2, <1>3, <1>8, NewRequest
<1>9. ASSUME NEW r, Kept(r)
      PROVE  RequestInv(r)
  BY <1>1, <1>9 DEF FlightInv, RequestInv, Identifies
<1> HIDE DEF Reread, Check
<1>10. ASSUME NEW r \in flight' PROVE RequestInv(r)'
  <2>1. RequestInv(r)
    BY <1>6, <1>7, <1>8, <1>9
  <2> QED
    BY <2>1, <1>4 DEF RequestInv, Parties, Identifies
<1>11. ASSUME NEW r \in flight' PROVE LoadInv(r)'
  <2>1. ASSUME r.kind = "load" PROVE r \in flight /\ r.tab # t /\ LoadInv(r)
    <3>1. Kept(r)
      BY <2>1, <1>6, <1>7, <1>8
    <3>2. r \in flight \ {q0}
      BY <2>1, <3>1
    <3>3. LoadInv(r) /\ (\A p \in flight : p.tab = r.tab => p = r)
      BY <2>1, <3>2, <1>1 DEF FlightInv, LoadInv
    <3>4. q0 \in flight /\ q0.tab = t
      BY DEF t
    <3> QED
      BY <3>2, <3>3, <3>4
  <2>2. ASSUME r.kind = "load", NEW s \in flight', s.tab = r.tab PROVE s = r
    <3>1. r \in flight /\ r.tab # t /\ \A p \in flight : p.tab = r.tab => p = r
      BY <2>1, <2>2 DEF LoadInv
    <3>2. Kept(s)
      BY <2>2, <3>1, <1>6, <1>7, <1>8
    <3> QED
      BY <3>1, <3>2, <2>2
  <2>3. r.tab \in Tabs
    BY <1>10 DEF RequestInv, Request
  <2> QED
    BY <2>1, <2>2, <2>3, <1>5 DEF LoadInv
<1>12. ASSUME NEW r \in flight' PROVE CheckInv(r)'
  <2>1. CASE Check(r)
    BY <2>1, <1>2, <1>5, <1>7 DEF CheckInv, Main, Check
  <2>2. CASE Reread(r)
    BY <2>2, <1>8 DEF CheckInv
  <2>3. CASE Kept(r) /\ r.kind = "check" /\ ~r.cancelled
    <3>1. r \in flight /\ (r.tab = t => Shown(q) = shown[t])
      BY <2>3
    <3>2. r.tab \in Tabs /\ Main(r.tab) /\ shown[r.tab].user = r.user
      BY <3>1, <2>3, <1>1 DEF FlightInv, RequestInv, Request, CheckInv
    <3>3. shown'[r.tab] = shown[r.tab]
      BY <3>1, <3>2, <1>5
    <3> QED
      BY <3>2, <3>3 DEF CheckInv, Main
  <2> QED
    BY <2>1, <2>2, <2>3, <1>6 DEF CheckInv
<1>13. ASSUME NEW u \in Tabs PROVE TabInv(u)'
  BY <1>1, <1>3, <1>4, <1>5 DEF TabInv
<1>14. TypeOK'
  <2>1. flight' \subseteq Request
    BY <1>10 DEF RequestInv
  <2> QED
    BY <2>1, <1>1, <1>3, <1>4, <1>5 DEF TypeOK, Parties
<1> QED
  BY <1>10, <1>11, <1>12, <1>13, <1>14 DEF SessionInv, FlightInv

LEMMA ArriveStep ==
    ASSUME SessionInv, NEW q \in flight, Arrive(q) \/ Lose(q)
    PROVE  SessionInv'
<1>1. RequestInv(q)
  BY DEF SessionInv, FlightInv
<1>2. CASE Arrive(q)
  BY <1>1, <1>2, ReceiveStep DEF Arrive
<1>3. CASE Lose(q)
  <2> PICK lost : lost = Status(q, "lost")
    OBVIOUS
  <2>1. /\ lost \in Request /\ lost.status = "lost" /\ lost.tab = q.tab /\ lost.kind = q.kind
        /\ lost.cookie = q.cookie /\ lost.token = q.token /\ lost.user = q.user
    BY <1>1, AnswerFacts DEF RequestInv, Statuses
  <2>2. RequestInv(lost)
    BY <1>1, <2>1 DEF RequestInv, Identifies
  <2>3. Receive(lost, flight \ {q})
    BY <1>3 DEF Lose
  <2> QED
    BY <2>1, <2>2, <2>3, ReceiveStep
<1> QED
  BY <1>2, <1>3

\* A tab asks for something.
LEMMA TabStep ==
    ASSUME SessionInv, NEW t \in Tabs,
           Login(t) \/ SignOut(t) \/ ChangePassword(t) \/ Change(t) \/ Poll(t) \/ Load(t)
    PROVE  SessionInv'
<1>1. shown[t] # None => shown[t].user \in Users
  BY DEF SessionInv, TypeOK, AuthUser
<1>2. CASE Login(t)
  <2>1. PICK user \in Users : Submit(t, "login", user)
    BY <1>2 DEF Login
  <2> QED
    BY <2>1, SubmitStep DEF Submit, Kinds, Identifying, Mutations
<1>3. CASE SignOut(t)
  BY <1>1, <1>3, SubmitStep DEF SignOut, Submit, Kinds, Mutations
<1>4. CASE ChangePassword(t)
  BY <1>1, <1>4, SubmitStep DEF ChangePassword, Submit, Kinds, Mutations
<1>5. CASE Change(t)
  BY <1>1, <1>5, SubmitStep DEF Change, Main, Submit, Kinds, Mutations
<1>6. CASE Poll(t)
  BY <1>6, SubmitStep DEF Poll, Main, Kinds, Mutations
<1>7. CASE Load(t)
  BY <1>7, LoadStep
<1> QED
  BY <1>2, <1>3, <1>4, <1>5, <1>6, <1>7

LEMMA ElsewhereStep ==
    ASSUME SessionInv, EndSession \/ PasswordSet
    PROVE  SessionInv'
<1>1. temporary \subseteq Users
  BY DEF SessionInv, TypeOK
<1>2. opened' = opened /\ live' \subseteq live /\ temporary' \subseteq Users
      /\ UNCHANGED <<cookie, tabs, flight>>
  BY <1>1 DEF EndSession, PasswordSet
<1> QED
  BY <1>2, SessionsStep DEF SessionsGrow

LEMMA SessionInvStep == SessionInv /\ [Next]_vars => SessionInv'
<1> SUFFICES ASSUME SessionInv, [Next]_vars PROVE SessionInv'
  OBVIOUS
<1>1. CASE \E t \in Tabs :
             Login(t) \/ SignOut(t) \/ ChangePassword(t) \/ Change(t) \/ Poll(t) \/ Load(t)
  BY <1>1, TabStep
<1>2. CASE \E q \in flight : Serve(q) \/ Arrive(q) \/ Lose(q)
  BY <1>2, ServeStep, ArriveStep
<1>3. CASE EndSession \/ PasswordSet
  BY <1>3, ElsewhereStep
<1>4. CASE UNCHANGED vars
  <2>1. UNCHANGED <<cookie, tabs, flight>> /\ SessionsGrow
    BY <1>4 DEF vars, server, SessionInv, TypeOK, SessionsGrow
  <2> QED
    BY <2>1, SessionsStep
<1> QED
  BY <1>1, <1>2, <1>3, <1>4 DEF Next

LEMMA SessionInvAlways == Spec => []SessionInv
BY SessionInvInit, SessionInvStep, PTL DEF Spec

\* The cookie, the tokens and the requests on their way name sessions that have
\* been opened, whatever order answers arrive in (api.ts, index.ts).
THEOREM SessionTypes == Spec => []TypeOK
<1>1. SessionInv => TypeOK
  BY DEF SessionInv
<1> QED
  BY <1>1, SessionInvAlways, PTL

\* The server changes something for a tab only in the name of the user that the
\* tab showed when it asked: the CSRF token of the request is the session's, and
\* a tab has tokens of the user it shows only, whichever session the cookie of
\* the browser has meanwhile become.
THEOREM ChangesAreOwn == Spec => []ActsAsShown
<1>1. SessionInv => ActsAsShown
  BY DEF SessionInv, FlightInv, RequestInv, ActsAsShown
<1> QED
  BY <1>1, SessionInvAlways, PTL

-----------------------------------------------------------------------------
\* A step that takes a tab back to the login form.
Confirmed(t) ==
    shown[t] # None /\ shown'[t] = None /\ page'[t] = "ready" =>
        \E q \in flight :
            /\ q.tab = t
            /\ q.kind = "logout" \/ (q.status = "401" /\ q.cookie \notin live)

LEMMA ReceiveConfirmed ==
    ASSUME SessionInv, NEW q0 \in flight, NEW q,
           q.tab = q0.tab, q.kind = q0.kind, q.cookie = q0.cookie,
           q.status = q0.status \/ q.status = "lost", q.user = q0.user, q.token = q0.token,
           q.mustChange \in BOOLEAN,
           Receive(q, flight \ {q0}), NEW t \in Tabs
    PROVE  Confirmed(t)
<1> SUFFICES ASSUME shown[t] # None, shown'[t] = None
             PROVE  /\ q0.tab = t
                    /\ q0.kind = "logout" \/ (q0.status = "401" /\ q0.cookie \notin live)
  BY DEF Confirmed
<1>1. TypeOK /\ RequestInv(q0) /\ LoadInv(q0)
  BY DEF SessionInv, FlightInv
<1>2. shown' = [shown EXCEPT ![q.tab] = Shown(q)]
  BY DEF Receive
<1>3. t = q.tab /\ Shown(q) = None
  BY <1>1, <1>2 DEF TypeOK
<1>4. ~Identifies(q)
  <2> SUFFICES ASSUME Identifies(q) PROVE FALSE
    OBVIOUS
  <2>1. q0.status = "ok" /\ Identifies(q0)
    BY DEF Identifies
  <2>2. q.user \in Users
    <3>1. q0.token \in DOMAIN opened /\ opened[q0.token] = q0.user
      BY <1>1, <2>1, PartiesAreSessions DEF RequestInv
    <3> QED
      BY <1>1, <3>1, PartiesAreSessions
  <2>3. Shown(q) = [user |-> q.user, mustChange |-> q.mustChange]
    BY DEF Shown, Identifies, SignsOut, Expires, Identifying
  <2>4. [user |-> q.user, mustChange |-> q.mustChange] \in AuthUser
    BY <2>2 DEF AuthUser
  <2> QED
    BY <1>3, <2>3, <2>4, SessionAssumption
<1>5. SignsOut(q)
  BY <1>3, <1>4 DEF Shown
<1>6. q.kind # "load"
  BY <1>1, <1>3 DEF LoadInv
<1>7. CASE q.kind = "logout"
  BY <1>3, <1>7
<1>8. CASE q.kind # "logout"
  <2>1. q.status = "401" /\ q.kind # "login"
    BY <1>5, <1>6, <1>8 DEF SignsOut, Expires
  <2> QED
    BY <1>1, <1>3, <2>1 DEF RequestInv
<1> QED
  BY <1>7, <1>8

LEMMA ConfirmedStep == SessionInv /\ [Next]_vars => \A t \in Tabs : Confirmed(t)
<1> SUFFICES ASSUME SessionInv, [Next]_vars, NEW t \in Tabs PROVE Confirmed(t)
  OBVIOUS
<1>1. TypeOK
  BY DEF SessionInv
<1>2. CASE shown' = shown
  BY <1>2 DEF Confirmed
<1>3. CASE \E u \in Tabs : Load(u)
  <2>1. PICK u \in Tabs : Load(u)
    BY <1>3
  <2> QED
    BY <1>1, <2>1 DEF Load, Confirmed, TypeOK
<1>4. CASE \E q \in flight : Arrive(q) \/ Lose(q)
  <2>1. PICK q \in flight : Arrive(q) \/ Lose(q)
    BY <1>4
  <2>2. q \in Request /\ q.mustChange \in BOOLEAN
    BY <1>1 DEF TypeOK, Request
  <2>3. CASE Arrive(q)
    BY <2>2, <2>3, ReceiveConfirmed DEF Arrive
  <2>4. CASE Lose(q)
    <3> PICK lost : lost = Status(q, "lost")
      OBVIOUS
    <3>1. /\ lost.status = "lost" /\ lost.tab = q.tab /\ lost.kind = q.kind
          /\ lost.cookie = q.cookie /\ lost.token = q.token /\ lost.user = q.user
          /\ lost.mustChange = q.mustChange
      BY <2>2 DEF Status, Request
    <3>2. Receive(lost, flight \ {q})
      BY <2>4 DEF Lose
    <3> QED
      BY <2>2, <3>1, <3>2, ReceiveConfirmed
  <2> QED
    BY <2>1, <2>3, <2>4
<1> QED
  <2>1. CASE \E u \in Tabs : Login(u) \/ SignOut(u) \/ ChangePassword(u) \/ Change(u) \/ Poll(u)
    BY <2>1, <1>2 DEF Login, SignOut, ChangePassword, Change, Poll, Submit, tabs
  <2>2. CASE \E q \in flight : Serve(q)
    BY <2>2, <1>2 DEF Serve, tabs
  <2>3. CASE EndSession \/ PasswordSet
    BY <2>3, <1>2 DEF EndSession, PasswordSet, tabs
  <2>4. CASE UNCHANGED vars
    BY <2>4, <1>2 DEF vars, tabs
  <2> QED
    BY <1>3, <1>4, <2>1, <2>2, <2>3, <2>4 DEF Next

\* Where the login form appears, the user of the tab has signed out there, or a
\* request of the tab was refused and the session it named is over, then or by
\* the time its answer arrives (the listener for drm-auth-expired in App.tsx).
THEOREM LoginFormIsDue == Spec => OnlyConfirmed
<1>1. SessionInv /\ [Next]_vars =>
        [\A t \in Tabs :
            shown[t] # None /\ shown'[t] = None /\ page'[t] = "ready" =>
                \E q \in flight :
                    /\ q.tab = t
                    /\ q.kind = "logout" \/ (q.status = "401" /\ q.cookie \notin live)]_vars
  BY ConfirmedStep DEF Confirmed
<1> QED
  BY <1>1, SessionInvAlways, PTL DEF Spec, OnlyConfirmed

-----------------------------------------------------------------------------
\* The comparison of versions, for tags of any length.
Part(tag, n) == PartOr0(versionParts(tag), n)
Position == Nat \ {0}

LEMMA PartType ==
    ASSUME NEW tag, IsTag(tag), NEW n \in Position
    PROVE  Part(tag, n) \in Nat
<1>1. \A m \in DOMAIN tag : tag[m] \in Nat \cup {NaN}
  BY DEF IsTag
<1> QED
  BY <1>1 DEF Part, PartOr0, versionParts, NaN

\* Beyond the ends of both tags there is nothing that differs.
LEMMA NewerByPart ==
    ASSUME NEW a, NEW b, IsTag(a), IsTag(b)
    PROVE  isNewerVersion(a, b) <=>
             \E n \in Position :
               Part(a, n) > Part(b, n) /\ \A m \in 1..n - 1 : Part(a, m) = Part(b, m)
<1> DEFINE Decides(n) == Part(a, n) > Part(b, n) /\ \A m \in 1..n - 1 : Part(a, m) = Part(b, m)
<1>1. /\ DOMAIN versionParts(a) = DOMAIN a /\ DOMAIN a \subseteq Position
      /\ DOMAIN versionParts(b) = DOMAIN b /\ DOMAIN b \subseteq Position
  BY DEF IsTag, versionParts, Position
<1>2. isNewerVersion(a, b) <=> \E n \in DOMAIN a \cup DOMAIN b : Decides(n)
  BY <1>1 DEF isNewerVersion, Part
<1>3. ASSUME NEW n \in Position, Decides(n) PROVE n \in DOMAIN a \cup DOMAIN b
  <2>1. n \notin DOMAIN a \cup DOMAIN b => Part(a, n) = 0 /\ Part(b, n) = 0
    BY <1>1 DEF Part, PartOr0
  <2> QED
    BY <1>3, <2>1
<1> QED
  BY <1>1, <1>2, <1>3

\* isNewerVersion is a strict order: a version is not newer than itself, of two
\* versions only one is newer, and a release that is newer than a newer one is
\* newer. So no notice can send a reader in a circle of updates.
THEOREM NewerIsStrict ==
    ASSUME NEW a, NEW b, NEW c, IsTag(a), IsTag(b), IsTag(c)
    PROVE  /\ ~isNewerVersion(a, a)
           /\ isNewerVersion(a, b) => ~isNewerVersion(b, a)
           /\ isNewerVersion(a, b) /\ isNewerVersion(b, c) => isNewerVersion(a, c)
<1> DEFINE Decides(x, y, n) == Part(x, n) > Part(y, n) /\ \A m \in 1..n - 1 : Part(x, m) = Part(y, m)
<1>1. \A n \in Position : Part(a, n) \in Nat /\ Part(b, n) \in Nat /\ Part(c, n) \in Nat
  BY PartType
<1>2. /\ isNewerVersion(a, a) <=> \E n \in Position : Decides(a, a, n)
      /\ isNewerVersion(a, b) <=> \E n \in Position : Decides(a, b, n)
      /\ isNewerVersion(b, a) <=> \E n \in Position : Decides(b, a, n)
      /\ isNewerVersion(b, c) <=> \E n \in Position : Decides(b, c, n)
      /\ isNewerVersion(a, c) <=> \E n \in Position : Decides(a, c, n)
  BY NewerByPart
<1>3. \A n, m \in Position : m < n => m \in 1..n - 1
  BY DEF Position
<1>4. ~isNewerVersion(a, a)
  BY <1>1, <1>2
<1>5. ASSUME isNewerVersion(a, b), isNewerVersion(b, a) PROVE FALSE
  <2>1. PICK n \in Position : Decides(a, b, n)
    BY <1>2, <1>5
  <2>2. PICK m \in Position : Decides(b, a, m)
    BY <1>2, <1>5
  <2>3. n < m \/ n = m \/ m < n
    BY DEF Position
  <2> QED
    BY <1>1, <1>3, <2>1, <2>2, <2>3
<1>6. ASSUME isNewerVersion(a, b), isNewerVersion(b, c) PROVE isNewerVersion(a, c)
  <2>1. PICK n \in Position : Decides(a, b, n)
    BY <1>2, <1>6
  <2>2. PICK m \in Position : Decides(b, c, m)
    BY <1>2, <1>6
  <2>3. CASE n <= m
    <3>1. Part(a, n) > Part(c, n)
      BY <1>1, <1>3, <2>1, <2>2, <2>3 DEF Position
    <3>2. \A k \in 1..n - 1 : k \in 1..m - 1 /\ k \in Position
      BY <2>3 DEF Position
    <3>3. Decides(a, c, n)
      BY <2>1, <2>2, <3>1, <3>2
    <3> QED
      BY <1>2, <3>3
  <2>4. CASE m < n
    <3>1. Part(a, m) > Part(c, m)
      BY <1>1, <1>3, <2>1, <2>2, <2>4
    <3>2. \A k \in 1..m - 1 : k \in 1..n - 1 /\ k \in Position
      BY <2>4 DEF Position
    <3>3. Decides(a, c, m)
      BY <2>1, <2>2, <3>1, <3>2
    <3> QED
      BY <1>2, <3>3
  <2> QED
    BY <2>3, <2>4 DEF Position
<1> QED
  BY <1>4, <1>5, <1>6

\* A tag that Weight spells: at most four parts, none above 99.
Small(tag) == DOMAIN tag \subseteq 1..4 /\ \A n \in DOMAIN tag : tag[n] <= 99

LEMMA NewerIsHeavier ==
    ASSUME NEW a, NEW b, IsTag(a), IsTag(b), Small(a), Small(b), isNewerVersion(a, b)
    PROVE  Weight(a) > Weight(b)
<1>1. \A n \in Position : Part(a, n) \in Nat /\ Part(b, n) \in Nat
  BY PartType
<1>2. \A n \in Position : Part(a, n) <= 99 /\ Part(b, n) <= 99
  BY DEF Part, PartOr0, versionParts, Small
<1>3. PICK n \in Position :
        Part(a, n) > Part(b, n) /\ \A m \in 1..n - 1 : Part(a, m) = Part(b, m)
  BY NewerByPart
<1>4. n \in 1..4
  <2>1. n \notin 1..4 => Part(a, n) = 0 /\ Part(b, n) = 0
    BY DEF Part, PartOr0, versionParts, Small
  <2> QED
    BY <1>3, <2>1
<1>5. 1 \in Position /\ 2 \in Position /\ 3 \in Position /\ 4 \in Position
  BY DEF Position
<1>6. Weight(a) = ((Part(a, 1) * 100 + Part(a, 2)) * 100 + Part(a, 3)) * 100 + Part(a, 4)
  BY DEF Weight, Part
<1>7. Weight(b) = ((Part(b, 1) * 100 + Part(b, 2)) * 100 + Part(b, 3)) * 100 + Part(b, 4)
  BY DEF Weight, Part
<1>8. CASE n = 1
  BY <1>1, <1>2, <1>3, <1>5, <1>6, <1>7, <1>8
<1>9. CASE n = 2
  BY <1>1, <1>2, <1>3, <1>5, <1>6, <1>7, <1>9
<1>10. CASE n = 3
  BY <1>1, <1>2, <1>3, <1>5, <1>6, <1>7, <1>10
<1>11. CASE n = 4
  BY <1>1, <1>2, <1>3, <1>5, <1>6, <1>7, <1>11
<1> QED
  BY <1>4, <1>8, <1>9, <1>10, <1>11

\* A notice belongs to the user that the tab shows.
NoticeIsOwn ==
    \A q \in flight :
        Announces(q) =>
            /\ Main(q.tab) /\ shown[q.tab].user = q.user
            /\ ~isNewerVersion(Running, q.release)

LEMMA NoticeFacts == SessionInv => NoticeIsOwn
<1> SUFFICES ASSUME SessionInv, NEW q \in flight, Announces(q)
             PROVE  /\ Main(q.tab) /\ shown[q.tab].user = q.user
                    /\ ~isNewerVersion(Running, q.release)
  BY DEF NoticeIsOwn
<1>1. Main(q.tab) /\ shown[q.tab].user = q.user
  BY DEF SessionInv, FlightInv, CheckInv, Announces
<1>2. q.release \in Releases
  BY DEF SessionInv, TypeOK, Request, Announces
<1>3. ~isNewerVersion(Running, q.release)
  BY <1>2, SessionAssumption, NewerIsStrict DEF Announces
<1> QED
  BY <1>1, <1>3

\* Whatever tags GitHub names: a new version is announced only to the user for
\* whom the tab has asked, and never when the running one is the newer of the two.
THEOREM NoticeForAnyTags == Spec => []NoticeIsOwn
BY NoticeFacts, SessionInvAlways, PTL

\* With tags that Weight spells, what is announced is a greater number (the effect
\* of App.tsx that checks for updates, and isNewerVersion).
THEOREM NoticeForSmallTags ==
    ASSUME \A tag \in Releases \cup {Running} : Small(tag)
    PROVE  Spec => []NoticeIsDue
<1>1. SessionInv => NoticeIsDue
  <2> SUFFICES ASSUME SessionInv, NEW q \in flight, Announces(q)
               PROVE  /\ Main(q.tab) /\ shown[q.tab].user = q.user
                      /\ Weight(q.release) > Weight(Running)
    BY DEF NoticeIsDue
  <2>1. q.release \in Releases
    BY DEF SessionInv, TypeOK, Request, Announces
  <2>2. Weight(q.release) > Weight(Running)
    BY <2>1, SessionAssumption, NewerIsHeavier DEF Announces
  <2> QED
    BY <2>2, NoticeFacts DEF NoticeIsOwn
<1> QED
  BY <1>1, SessionInvAlways, PTL
=============================================================================
