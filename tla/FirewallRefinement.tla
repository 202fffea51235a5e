-------------------------- MODULE FirewallRefinement --------------------------
(***************************************************************************)
(* Firewall implements FirewallWorkflow while requests come one at a time    *)
(* and files can be written: whatever commands and rules fail.              *)
(***************************************************************************)
EXTENDS Firewall

\* The request that has truncated a file and is going to write it: for the
\* workflow that is one step, at the truncation.
WritingAt(steps) == {r \in Requests : pc[r] \in steps}
Target(r) == job[r].target

TheDraft ==
    IF WritingAt({"editW", "configW"}) = {} THEN ReadConfig(draft)
    ELSE Target(CHOOSE r \in WritingAt({"editW", "configW"}) : TRUE)

TheApplied ==
    IF WritingAt({"appliedW"}) = {} THEN ReadConfig(applied)
    ELSE Target(CHOOSE r \in WritingAt({"appliedW"}) : TRUE)

TheSnapshot ==
    IF WritingAt({"backupW"}) = {} THEN backup
    ELSE job[CHOOSE r \in WritingAt({"backupW"}) : TRUE].previous

Workflow ==
    INSTANCE FirewallWorkflow WITH
        draft <- TheDraft, applied <- TheApplied, snapshot <- TheSnapshot, None <- Missing

\* The three files follow the apply / rollback workflow: edits touch the draft
\* only, an apply or a disable takes a snapshot of what is in force before it
\* replaces it, a failed apply and a rollback put the snapshot in force, and the
\* draft is replaced by nothing but what is in force. (README.md:211: "Firewall
\* changes use an **Apply / Rollback** workflow"; lines 492-563.)
ImplementsWorkflow == Workflow!Spec
=============================================================================
