---------------------------- MODULE AccountStore ----------------------------
(***************************************************************************)
(* What the operations of authService.ts promise about accounts and        *)
(* sessions, one record at a time: no step touches an account or a session *)
(* it is not about, the built-in account stays, and a session is only      *)
(* dropped when it is over or ended by an operation on its owner.          *)
(***************************************************************************)
EXTENDS Integers, Functions

CONSTANTS Ids, Names, Admin, Passwords, Sessions, Ttl, MaxTime

VARIABLES users, sessions, now

Roles == {"administrator", "operator", "viewer"}

Put(f, x, v) == [y \in DOMAIN f \cup {x} |-> IF y = x THEN v ELSE f[y]]
Drop(f, S) == Restrict(f, DOMAIN f \ S)
Live(f, t) == {s \in DOMAIN f : t < f[s].seen + Ttl}
OwnedBy(f, id) == {s \in DOMAIN f : f[s].owner = id}

Init ==
    /\ users = [id \in {} |-> id]
    /\ sessions = [s \in {} |-> s]
    /\ now = 0

-----------------------------------------------------------------------------
\* The first account is the built-in one; a later one has a name of its own.
\* Both have to change the password they are given.
Enroll ==
    /\ \E id \in Ids \ DOMAIN users, name \in Names, password \in Passwords, role \in Roles :
         /\ \A other \in DOMAIN users : users[other].name # name
         /\ DOMAIN users = {} => name = Admin /\ role = "administrator"
         /\ users' = Put(users, id, [name |-> name, password |-> password,
                                     role |-> role, mustChange |-> TRUE])
    /\ UNCHANGED <<sessions, now>>

SetPassword ==
    /\ \E id \in DOMAIN users, password \in Passwords, must \in BOOLEAN :
         users' = [users EXCEPT ![id] = [@ EXCEPT !.password = password, !.mustChange = must]]
    /\ UNCHANGED <<sessions, now>>

SetRole ==
    /\ \E id \in DOMAIN users, role \in Roles :
         /\ users[id].name = Admin => role = "administrator"
         /\ users' = [users EXCEPT ![id] = [@ EXCEPT !.role = role]]
    /\ UNCHANGED <<sessions, now>>

Remove ==
    /\ \E id \in DOMAIN users :
         /\ users[id].name # Admin
         /\ users' = Drop(users, {id})
    /\ UNCHANGED <<sessions, now>>

\* Sessions that are over may go at the same time.
Open ==
    /\ \E s \in Sessions \ DOMAIN sessions, id \in DOMAIN users, t \in 0..now :
         sessions' = Put(Restrict(sessions, Live(sessions, t)), s, [owner |-> id, seen |-> t])
    /\ UNCHANGED <<users, now>>

Prolong ==
    /\ \E t \in 0..now : \E s \in Live(sessions, t) :
         sessions' = [sessions EXCEPT ![s] = [@ EXCEPT !.seen = t]]
    /\ UNCHANGED <<users, now>>

Expire ==
    /\ \E t \in 0..now : sessions' = Restrict(sessions, Live(sessions, t))
    /\ UNCHANGED <<users, now>>

\* One session ends; or those of an account, all of them or all but one.
End ==
    /\ \/ \E s \in DOMAIN sessions : sessions' = Drop(sessions, {s})
       \/ \E id \in Ids : sessions' = Drop(sessions, OwnedBy(sessions, id))
       \/ \E s \in DOMAIN sessions :
            sessions' = Drop(sessions, OwnedBy(sessions, sessions[s].owner) \ {s})
    /\ UNCHANGED <<users, now>>

Tick ==
    /\ now < MaxTime
    /\ now' = now + 1
    /\ UNCHANGED <<users, sessions>>

Next == Enroll \/ SetPassword \/ SetRole \/ Remove \/ Open \/ Prolong \/ Expire \/ End \/ Tick

Spec == Init /\ [][Next]_<<users, sessions, now>>
=============================================================================
