--------------------------- MODULE FirewallWorkflow ---------------------------
(***************************************************************************)
(* What the apply / rollback workflow of the firewall promises, without its  *)
(* files and commands: there is a draft, the configuration in force, and a   *)
(* snapshot for the rollback. Each changes as a whole, and a configuration  *)
(* in force is given up only for one that a rollback can undo, or by one.   *)
(***************************************************************************)
EXTENDS FirewallRules

CONSTANT None   \* no snapshot

VARIABLES draft, applied, snapshot

vars == <<draft, applied, snapshot>>

Init ==
    /\ draft = EmptyConfig
    /\ applied = EmptyConfig
    /\ snapshot = None

\* A rule is added, at the end of the rules of its kind, or deleted.
Edit ==
    /\ \/ \E rule \in Rules : draft' = AddRule(draft, rule)
       \/ \E kind \in {"published", "network", "input"} :
            \E i \in DOMAIN draft[kind] : draft' = DeleteAt(draft, kind, i)
    /\ UNCHANGED <<applied, snapshot>>

Snapshot ==
    /\ snapshot' = applied
    /\ UNCHANGED <<draft, applied>>

\* The rules of the draft come in force, or those in force before it.
Commit ==
    /\ snapshot = applied
    /\ \E enabled \in BOOLEAN : applied' = [draft EXCEPT !.enabled = enabled]
    /\ UNCHANGED <<draft, snapshot>>

Restore ==
    /\ snapshot # None
    /\ applied' = snapshot
    /\ UNCHANGED <<draft, snapshot>>

\* The draft says what is in force, once that has changed.
Settle ==
    /\ draft' = applied
    /\ UNCHANGED <<applied, snapshot>>

Next == Edit \/ Snapshot \/ Commit \/ Restore \/ Settle

Spec == Init /\ [][Next]_vars
=============================================================================
