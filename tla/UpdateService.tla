----------------------------- MODULE UpdateService -----------------------------
(***************************************************************************)
(* backend/src/updateService.ts, the comparison of versions. A tag is the    *)
(* sequence of its parts between dots, once normalizeVersion has taken off a *)
(* leading "v" and what follows a "+" or a "-". A part is the number it      *)
(* begins with, or NaN.                                                     *)
(***************************************************************************)
EXTENDS Integers, SequencesExt

NaN == -1

IsTag(tag) == tag \in Seq(Nat \cup {NaN})

versionParts(tag) == [n \in DOMAIN tag |-> IF tag[n] = NaN THEN 0 ELSE tag[n]]

\* a[i] ?? 0
PartOr0(v, n) == IF n \in DOMAIN v THEN v[n] ELSE 0

\* The first part that differs decides.
isNewerVersion(candidate, current) ==
    LET a == versionParts(candidate)  b == versionParts(current)
    IN \E n \in DOMAIN a \cup DOMAIN b :
         /\ PartOr0(a, n) > PartOr0(b, n)
         /\ \A m \in 1..n - 1 : PartOr0(a, m) = PartOr0(b, m)

\* The number that the first four parts of a tag spell, when none exceeds 99.
Weight(tag) ==
    LET a == versionParts(tag)
        part(n) == PartOr0(a, n)
    IN ((part(1) * 100 + part(2)) * 100 + part(3)) * 100 + part(4)
=============================================================================
