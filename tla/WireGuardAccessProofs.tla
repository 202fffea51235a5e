------------------------- MODULE WireGuardAccessProofs -------------------------
(***************************************************************************)
(* Proofs about WireGuardAccess, for any interfaces, policies, networks,    *)
(* requests and disturbances.                                               *)
(***************************************************************************)
EXTENDS WireGuardAccess, TLAPS, SequenceTheorems, FiniteSetTheorems

\* What a process is about to do next is in the list it goes through.
PosOK(step, j) ==
    /\ step \in {"idle", "truncate", "write"} => j.at = 1
    /\ step \in {"jump", "insert"} => j.at \in DOMAIN JumpOrder
    /\ step = "flush" => j.at \in DOMAIN FlushOrder
    /\ step = "append" => j.at \in DOMAIN Rendering(j.target)

TypeInv == TypeOK /\ \A p \in Processes : PosOK(pc[p], job[p])

-----------------------------------------------------------------------------
\* An operation that nothing has come between is the only one, and when the
\* outcome of the last one is known, there is none.
Alone ==
    /\ \A p \in Processes :
         undisturbed[p] => Busy(p) /\ \A q \in Processes : q # p => ~Busy(q)
    /\ outcome # "unknown" => \A p \in Processes : ~Busy(p)

\* The parent chains.

Once(rules) == \E n \in DOMAIN rules : \A m \in DOMAIN rules : rules[m] = "jump" <=> m = n

Behind(rules) ==
    \A n, m \in DOMAIN rules : rules[n] = "docker-user" /\ rules[m] = "jump" => n < m

OneDockerUser(rules) ==
    \A n, m \in DOMAIN rules : rules[n] = "docker-user" /\ rules[m] = "docker-user" => n = m

\* What an operation has made of a parent chain, as far as it has not passed over a
\* failure.
Jumped(h) ==
    /\ h.table # "nat" => "jump" \in Range(parent[h])
    /\ h.table # "nat" /\ "delete" \notin swallowed => Once(parent[h])
    /\ h.table = "forward" /\ swallowed = {} => Behind(parent[h])

JumpedBefore(at) == \A k \in DOMAIN JumpOrder : k < at => Jumped(JumpOrder[k])
AllJumped == \A h \in Hooks : Jumped(h)

\* The jump is deleted, and may be inserted at a place.
Cleared(h, place) ==
    /\ place <= Len(parent[h]) + 1
    /\ h.table # "nat" /\ "delete" \notin swallowed => "jump" \notin Range(parent[h])
    /\ h.table = "forward" /\ swallowed = {} =>
         \A n \in DOMAIN parent[h] : parent[h][n] = "docker-user" => n < place

\* DRM's chains. What the first commands of a rendering decide of a connection,
\* once they are carried out: nothing, or the verdict of the first that matches.

Hits(c, h, i, s, d) == c.hook = h /\ Matches(c.rule, i, s, d)

Silent(cs, n, h, i, s, d) == \A k \in 1..n : ~Hits(cs[k], h, i, s, d)

Settles(cs, n, h, i, s, d, v) ==
    \E k \in 1..n :
        /\ Hits(cs[k], h, i, s, d) /\ cs[k].rule.verdict = v
        /\ \A l \in 1..(k - 1) : ~Hits(cs[l], h, i, s, d)

Undecided(rules, i, s, d) == \A k \in DOMAIN rules : ~Matches(rules[k], i, s, d)

Decides(rules, i, s, d, v) ==
    \E k \in DOMAIN rules :
        /\ Matches(rules[k], i, s, d) /\ rules[k].verdict = v
        /\ \A l \in 1..(k - 1) : ~Matches(rules[l], i, s, d)

Verdicts == {"established", "accept", "drop", "masquerade", "return"}

\* The chains of the filter and raw tables decide what the first n commands do,
\* none of which has failed. (A flush in the nat table may fail unnoticed.)
Built(cs, n) ==
    /\ \A k \in 1..n : cs[k].hook # None
    /\ \A h \in Hooks, i \in Names, s \in Sources, d \in Destinations :
         h.table # "nat" =>
           /\ Silent(cs, n, h, i, s, d) => Undecided(chain[h], i, s, d)
           /\ \A v \in Verdicts :
                Settles(cs, n, h, i, s, d, v) => Decides(chain[h], i, s, d, v)

AllBuilt(conf) == Built(Rendering(conf), Len(Rendering(conf)))

\* How far an undisturbed process has come, by its step.
Stage(step, j) ==
    /\ step \in {"jump", "insert", "flush", "append"} => j.target = policies
    /\ step \in {"jump", "insert"} => JumpedBefore(j.at)
    /\ step = "insert" => Cleared(JumpOrder[j.at], j.place)
    /\ step \in {"flush", "append"} => AllJumped
    /\ step = "flush" => \A k \in DOMAIN FlushOrder :
                            k < j.at /\ FlushOrder[k].table # "nat" => chain[FlushOrder[k]] = <<>>
    /\ step = "append" => Built(Rendering(j.target), j.at - 1)

AccessInv ==
    /\ Alone
    /\ \A h \in Hooks : OneDockerUser(parent[h])
    /\ \A p \in Processes : undisturbed[p] => Stage(pc[p], job[p])
    /\ outcome = "done" => AllJumped /\ AllBuilt(policies)

-----------------------------------------------------------------------------
\* Sequences.

\* A set of numbers that is not empty has a least one: what inductions rest on.
LEMMA Least ==
    ASSUME NEW S \in SUBSET Nat, S # {}
    PROVE  \E n \in S : \A m \in S : n <= m
<1> DEFINE R == OpToRel(<, Nat)
<1>1. IsWellFoundedOn(R, Nat)
  BY NatLessThanWellFounded
<1>2. \A a, b \in Nat : <<a, b>> \in R <=> a < b
  BY DEF OpToRel
<1> HIDE DEF R
<1>3. PICK n \in S : \A m \in S : ~(<<m, n>> \in R)
  BY <1>1, WFMin
<1>4. ASSUME NEW m \in S PROVE n <= m
  <2>1. m \in Nat /\ n \in Nat
    OBVIOUS
  <2>2. ~(m < n)
    BY <1>2, <1>3, <2>1
  <2> QED
    BY <2>1, <2>2
<1> QED
  BY <1>4

\* The first position of an element in a sequence, and the sequence without it.
LEMMA FirstFacts ==
    ASSUME NEW S, NEW s \in Seq(S), NEW e
    PROVE  /\ e \in Range(s) =>
                \E i \in DOMAIN s : s[i] = e /\ RemoveFirst(s, e) = RemoveAt(s, i)
           /\ e \notin Range(s) => RemoveFirst(s, e) = s
<1>1. Len(s) \in Nat /\ DOMAIN s = 1..Len(s)
  BY LenProperties
<1> DEFINE I == {i \in 1..Len(s) : s[i] = e}
<1>2. e \in Range(s) <=> I # {}
  BY <1>1 DEF Range
<1>3. (\E i \in 1..Len(s) : s[i] = e) <=> I # {}
  OBVIOUS
<1>4. CASE I = {}
  BY <1>2, <1>3, <1>4 DEF RemoveFirst
<1>5. CASE I # {}
  <2>1. PICK n \in I : \A m \in I : n <= m
    <3>1. I \in SUBSET Nat
      BY <1>1
    <3> QED
      BY <1>5, <3>1, Least
  <2>2. Min(I) \in I
    BY <2>1 DEF Min
  <2>3. SelectInSeq(s, LAMBDA v : v = e) = Min(I)
    BY <1>5 DEF SelectInSeq
  <2>4. RemoveFirst(s, e) = RemoveAt(s, Min(I))
    BY <1>3, <1>5, <2>3 DEF RemoveFirst
  <2> QED
    BY <1>1, <1>2, <1>5, <2>2, <2>4
<1> QED
  BY <1>4, <1>5

LEMMA PlaceFacts ==
    ASSUME NEW S, NEW s \in Seq(S)
    PROVE  /\ Place(s) \in 1..(Len(s) + 1)
           /\ "docker-user" \in Range(s) =>
                \E n \in DOMAIN s : s[n] = "docker-user" /\ Place(s) = n + 1
<1>1. Len(s) \in Nat /\ DOMAIN s = 1..Len(s)
  BY LenProperties
<1> DEFINE I == {i \in 1..Len(s) : s[i] = "docker-user"}
<1>2. "docker-user" \in Range(s) <=> I # {}
  BY <1>1 DEF Range
<1>3. CASE I = {}
  <2>1. Place(s) = 0 + 1
    BY <1>3 DEF Place, SelectInSeq
  <2> QED
    BY <1>1, <1>2, <1>3, <2>1
<1>4. CASE I # {}
  <2>1. PICK n \in I : \A m \in I : n <= m
    <3>1. I \in SUBSET Nat
      BY <1>1
    <3> QED
      BY <1>4, <3>1, Least
  <2>2. Min(I) \in I
    BY <2>1 DEF Min
  <2>3. Place(s) = Min(I) + 1
    BY <1>4 DEF Place, SelectInSeq
  <2>4. PICK k : k = Min(I)
    OBVIOUS
  <2>5. k \in DOMAIN s /\ s[k] = "docker-user" /\ Place(s) = k + 1
    BY <1>1, <2>2, <2>3, <2>4
  <2>6. k + 1 \in 1..(Len(s) + 1)
    BY <1>1, <2>5
  <2> QED
    BY <2>5, <2>6
<1> QED
  BY <1>3, <1>4

LEMMA RemoveAtFacts ==
    ASSUME NEW S, NEW s \in Seq(S), NEW i \in DOMAIN s
    PROVE  /\ RemoveAt(s, i) \in Seq(S)
           /\ DOMAIN RemoveAt(s, i) = 1..(Len(s) - 1)
           /\ \A n \in DOMAIN RemoveAt(s, i) :
                IF n < i THEN n \in DOMAIN s /\ RemoveAt(s, i)[n] = s[n]
                ELSE n + 1 \in DOMAIN s /\ RemoveAt(s, i)[n] = s[n + 1]
<1> DEFINE left == SubSeq(s, 1, i - 1)  right == SubSeq(s, i + 1, Len(s))
<1>1. Len(s) \in Nat /\ i \in 1..Len(s) /\ DOMAIN s = 1..Len(s)
  BY LenProperties
<1>2. \A j \in 1..Len(s) : s[j] \in S
  BY ElementOfSeq
<1>3. left \in Seq(S) /\ Len(left) = i - 1 /\ \A n \in 1..(i - 1) : left[n] = s[n]
  <2>1. \A j \in 1..(i - 1) : s[j] \in S
    BY <1>1, <1>2
  <2> QED
    BY <1>1, <2>1, SubSeqProperties
<1>4. right \in Seq(S) /\ Len(right) = Len(s) - i /\ \A n \in 1..(Len(s) - i) : right[n] = s[i + n]
  <2>1. \A j \in (i + 1)..Len(s) : s[j] \in S
    BY <1>1, <1>2
  <2>2. /\ right \in Seq(S) /\ Len(right) = IF i + 1 <= Len(s) THEN Len(s) - (i + 1) + 1 ELSE 0
        /\ \A n \in 1..(Len(s) - (i + 1) + 1) : right[n] = s[(i + 1) + n - 1]
    BY <1>1, <2>1, SubSeqProperties
  <2> QED
    BY <1>1, <2>2
<1> HIDE DEF left, right
<1>5. RemoveAt(s, i) = left \o right
  BY DEF RemoveAt, left, right
<1>6. /\ left \o right \in Seq(S) /\ Len(left \o right) = Len(s) - 1
      /\ \A n \in 1..(Len(s) - 1) :
           (left \o right)[n] = IF n <= i - 1 THEN left[n] ELSE right[n - (i - 1)]
  <2>1. /\ left \o right \in Seq(S) /\ Len(left \o right) = Len(left) + Len(right)
        /\ \A n \in 1..(Len(left) + Len(right)) :
             (left \o right)[n] = IF n <= Len(left) THEN left[n] ELSE right[n - Len(left)]
    BY <1>3, <1>4, ConcatProperties
  <2>2. Len(left) + Len(right) = Len(s) - 1
    BY <1>1, <1>3, <1>4
  <2> QED
    BY <1>3, <2>1, <2>2
<1>7. DOMAIN (left \o right) = 1..(Len(s) - 1)
  BY <1>6, LenProperties
<1>8. ASSUME NEW n \in 1..(Len(s) - 1)
      PROVE  IF n < i THEN n \in DOMAIN s /\ (left \o right)[n] = s[n]
             ELSE n + 1 \in DOMAIN s /\ (left \o right)[n] = s[n + 1]
  <2>1. CASE n < i
    BY <2>1, <1>1, <1>3, <1>6
  <2>2. CASE ~(n < i)
    <3>1. n - (i - 1) \in 1..(Len(s) - i) /\ i + (n - (i - 1)) = n + 1
      BY <2>2, <1>1
    <3>2. right[n - (i - 1)] = s[n + 1]
      BY <3>1, <1>4
    <3>3. n + 1 \in DOMAIN s /\ ~(n <= i - 1)
      BY <2>2, <1>1
    <3> QED
      BY <2>2, <3>2, <3>3, <1>6
  <2> QED
    BY <2>1, <2>2
<1> QED
  BY <1>5, <1>6, <1>7, <1>8

LEMMA PrependFacts ==
    ASSUME NEW S, NEW s \in Seq(S), NEW e \in S
    PROVE  /\ <<e>> \o s \in Seq(S)
           /\ DOMAIN (<<e>> \o s) = 1..(Len(s) + 1)
           /\ (<<e>> \o s)[1] = e
           /\ \A n \in DOMAIN s : n + 1 \in DOMAIN (<<e>> \o s) /\ (<<e>> \o s)[n + 1] = s[n]
<1>1. <<e>> \in Seq(S) /\ Len(<<e>>) = 1 /\ <<e>>[1] = e
  OBVIOUS
<1>2. Len(s) \in Nat /\ DOMAIN s = 1..Len(s)
  BY LenProperties
<1>3. /\ <<e>> \o s \in Seq(S) /\ Len(<<e>> \o s) = 1 + Len(s)
      /\ \A n \in 1..(1 + Len(s)) :
           (<<e>> \o s)[n] = IF n <= 1 THEN <<e>>[n] ELSE s[n - 1]
  BY <1>1, ConcatProperties
<1>4. DOMAIN (<<e>> \o s) = 1..(Len(s) + 1)
  BY <1>2, <1>3, LenProperties
<1> QED
  BY <1>1, <1>2, <1>3, <1>4

LEMMA InsertFacts ==
    ASSUME NEW S, NEW s \in Seq(S), NEW i \in 1..(Len(s) + 1), NEW e \in S
    PROVE  /\ InsertAt(s, i, e) \in Seq(S)
           /\ DOMAIN InsertAt(s, i, e) = 1..(Len(s) + 1)
           /\ \A n \in 1..(Len(s) + 1) :
                InsertAt(s, i, e)[n] = IF n < i THEN s[n] ELSE IF n = i THEN e ELSE s[n - 1]
<1> DEFINE left == SubSeq(s, 1, i - 1)  right == SubSeq(s, i, Len(s))
<1>1. Len(s) \in Nat /\ DOMAIN s = 1..Len(s)
  BY LenProperties
<1>2. \A j \in 1..Len(s) : s[j] \in S
  BY ElementOfSeq
<1>3. left \in Seq(S) /\ Len(left) = i - 1 /\ \A n \in 1..(i - 1) : left[n] = s[n]
  <2>1. \A j \in 1..(i - 1) : s[j] \in S
    BY <1>1, <1>2
  <2> QED
    BY <1>1, <2>1, SubSeqProperties
<1>4. /\ right \in Seq(S) /\ Len(right) = Len(s) - i + 1
      /\ \A n \in 1..(Len(s) - i + 1) : right[n] = s[i + n - 1]
  <2>1. \A j \in i..Len(s) : s[j] \in S
    BY <1>1, <1>2
  <2> QED
    BY <1>1, <2>1, SubSeqProperties
<1> HIDE DEF left, right
<1>5. InsertAt(s, i, e) = left \o <<e>> \o right
  BY DEF InsertAt, left, right
<1>6. <<e>> \in Seq(S) /\ Len(<<e>>) = 1 /\ <<e>>[1] = e
  OBVIOUS
<1> DEFINE front == left \o <<e>>
<1>7. /\ front \in Seq(S) /\ Len(front) = i
      /\ \A n \in 1..i : front[n] = IF n < i THEN s[n] ELSE e
  <2>1. /\ front \in Seq(S) /\ Len(front) = Len(left) + 1
        /\ \A n \in 1..(Len(left) + 1) :
             front[n] = IF n <= Len(left) THEN left[n] ELSE <<e>>[n - Len(left)]
    BY <1>3, <1>6, ConcatProperties
  <2> QED
    BY <1>1, <1>3, <1>6, <2>1
<1> HIDE DEF front
<1>8. /\ front \o right \in Seq(S) /\ Len(front \o right) = Len(s) + 1
      /\ \A n \in 1..(Len(s) + 1) :
           (front \o right)[n] = IF n <= i THEN front[n] ELSE right[n - i]
  <2>1. /\ front \o right \in Seq(S) /\ Len(front \o right) = Len(front) + Len(right)
        /\ \A n \in 1..(Len(front) + Len(right)) :
             (front \o right)[n] = IF n <= Len(front) THEN front[n] ELSE right[n - Len(front)]
    BY <1>4, <1>7, ConcatProperties
  <2>2. Len(front) = i /\ Len(front) + Len(right) = Len(s) + 1
    BY <1>1, <1>4, <1>7
  <2> QED
    BY <2>1, <2>2
<1>9. DOMAIN (front \o right) = 1..(Len(s) + 1)
  BY <1>8, LenProperties
<1>10. ASSUME NEW n \in 1..(Len(s) + 1)
       PROVE  (front \o right)[n] = IF n < i THEN s[n] ELSE IF n = i THEN e ELSE s[n - 1]
  <2>1. CASE n <= i
    BY <2>1, <1>1, <1>7, <1>8
  <2>2. CASE ~(n <= i)
    <3>1. n - i \in 1..(Len(s) - i + 1) /\ i + (n - i) - 1 = n - 1 /\ ~(n < i) /\ n # i
      BY <2>2, <1>1
    <3> QED
      BY <2>2, <3>1, <1>4, <1>8
  <2> QED
    BY <2>1, <2>2
<1>11. InsertAt(s, i, e) = front \o right
  BY <1>5 DEF front
<1> QED
  BY <1>8, <1>9, <1>10, <1>11

-----------------------------------------------------------------------------
\* What happens to a parent chain.

LEMMA RemoveKeeps ==
    ASSUME NEW s \in Seq(ParentRule), NEW i \in DOMAIN s
    PROVE  /\ OneDockerUser(s) => OneDockerUser(RemoveAt(s, i))
           /\ s[i] # "jump" /\ Once(s) => Once(RemoveAt(s, i))
           /\ s[i] # "jump" /\ "jump" \in Range(s) => "jump" \in Range(RemoveAt(s, i))
           /\ s[i] = "docker-user" /\ OneDockerUser(s) => "docker-user" \notin Range(RemoveAt(s, i))
<1> DEFINE t == RemoveAt(s, i)
<1>1. Len(s) \in Nat /\ DOMAIN s = 1..Len(s) /\ i \in 1..Len(s)
  BY LenProperties
<1>2. /\ DOMAIN t = 1..(Len(s) - 1)
      /\ \A n \in DOMAIN t : IF n < i THEN n \in DOMAIN s /\ t[n] = s[n]
                             ELSE n + 1 \in DOMAIN s /\ t[n] = s[n + 1]
  BY RemoveAtFacts
<1> HIDE DEF t
<1>3. ASSUME NEW n \in DOMAIN t, NEW m \in DOMAIN t
      PROVE  \E k, l \in DOMAIN s :
                t[n] = s[k] /\ t[m] = s[l] /\ k # i /\ (k = l => n = m)
  <2> DEFINE k == IF n < i THEN n ELSE n + 1  l == IF m < i THEN m ELSE m + 1
  <2>1. k \in DOMAIN s /\ l \in DOMAIN s /\ t[n] = s[k] /\ t[m] = s[l]
    BY <1>2, <1>3
  <2>2. k # i /\ (k = l => n = m)
    BY <1>1, <1>2, <1>3
  <2> QED
    BY <2>1, <2>2
<1>4. ASSUME OneDockerUser(s) PROVE OneDockerUser(t)
  BY <1>3, <1>4 DEF OneDockerUser
<1>5. ASSUME s[i] # "jump", Once(s) PROVE Once(t)
  <2>1. PICK k \in DOMAIN s : \A m \in DOMAIN s : s[m] = "jump" <=> m = k
    BY <1>5 DEF Once
  <2> DEFINE n == IF k < i THEN k ELSE k - 1
  <2>2. k # i
    BY <1>5, <2>1
  <2>3. n \in DOMAIN t /\ t[n] = "jump"
    <3>1. n \in 1..(Len(s) - 1)
      BY <1>1, <2>2
    <3>2. t[n] = s[k]
      BY <1>1, <1>2, <2>2, <3>1
    <3> QED
      BY <1>2, <2>1, <3>1, <3>2
  <2>4. ASSUME NEW m \in DOMAIN t, t[m] = "jump" PROVE m = n
    <3>1. PICK a, b \in DOMAIN s : t[n] = s[a] /\ t[m] = s[b] /\ (a = b => n = m)
      BY <1>3, <2>3, <2>4
    <3> QED
      BY <2>1, <2>3, <2>4, <3>1
  <2> HIDE DEF n
  <2> QED
    BY <2>3, <2>4 DEF Once
<1>6. ASSUME s[i] = "docker-user", OneDockerUser(s), NEW n \in DOMAIN t PROVE t[n] # "docker-user"
  BY <1>3, <1>6 DEF OneDockerUser
<1>7. s[i] = "docker-user" /\ OneDockerUser(s) => "docker-user" \notin Range(t)
  BY <1>6 DEF Range
<1>8. ASSUME s[i] # "jump", "jump" \in Range(s) PROVE "jump" \in Range(t)
  <2>1. PICK k \in DOMAIN s : s[k] = "jump"
    BY <1>8 DEF Range
  <2>2. CASE k < i
    <3>1. k \in DOMAIN t /\ t[k] = "jump"
      BY <1>1, <1>2, <2>1, <2>2
    <3> QED
      BY <3>1 DEF Range
  <2>3. CASE ~(k < i)
    <3>1. k - 1 \in DOMAIN t /\ ~(k - 1 < i) /\ (k - 1) + 1 = k
      BY <1>1, <1>2, <1>8, <2>1, <2>3
    <3>2. t[k - 1] = "jump"
      BY <1>2, <2>1, <3>1
    <3> QED
      BY <3>1, <3>2 DEF Range
  <2> QED
    BY <2>2, <2>3
<1> QED
  BY <1>4, <1>5, <1>7, <1>8 DEF t

LEMMA PrependKeeps ==
    ASSUME NEW s \in Seq(ParentRule), NEW e \in {"docker-user", "other"},
           e = "docker-user" => "docker-user" \notin Range(s)
    PROVE  /\ OneDockerUser(s) => OneDockerUser(<<e>> \o s)
           /\ Once(s) => Once(<<e>> \o s)
           /\ "jump" \in Range(s) => "jump" \in Range(<<e>> \o s)
           /\ Behind(s) \/ e = "docker-user" => Behind(<<e>> \o s)
<1> DEFINE t == <<e>> \o s
<1>1. Len(s) \in Nat /\ DOMAIN s = 1..Len(s)
  BY LenProperties
<1>2. /\ DOMAIN t = 1..(Len(s) + 1) /\ t[1] = e
      /\ \A n \in DOMAIN s : n + 1 \in DOMAIN t /\ t[n + 1] = s[n]
  BY PrependFacts DEF ParentRule
<1> HIDE DEF t
<1>3. ASSUME NEW n \in DOMAIN t, n # 1 PROVE n - 1 \in DOMAIN s /\ t[n] = s[n - 1]
  <2>1. n - 1 \in DOMAIN s /\ (n - 1) + 1 = n
    BY <1>1, <1>2, <1>3
  <2> QED
    BY <1>2, <2>1
<1>4. ASSUME OneDockerUser(s) PROVE OneDockerUser(t)
  <2> SUFFICES ASSUME NEW n \in DOMAIN t, NEW m \in DOMAIN t,
                      t[n] = "docker-user", t[m] = "docker-user"
               PROVE  n = m
    BY DEF OneDockerUser
  <2>1. CASE n # 1 /\ m # 1
    <3>1. n - 1 = m - 1
      BY <1>3, <1>4, <2>1 DEF OneDockerUser
    <3> QED
      BY <1>1, <1>2, <3>1
  <2>2. CASE n = 1 /\ m # 1
    BY <1>2, <1>3, <2>2 DEF Range
  <2>3. CASE n # 1 /\ m = 1
    BY <1>2, <1>3, <2>3 DEF Range
  <2> QED
    BY <2>1, <2>2, <2>3
<1>5. ASSUME Once(s) PROVE Once(t)
  <2>1. PICK k \in DOMAIN s : \A m \in DOMAIN s : s[m] = "jump" <=> m = k
    BY <1>5 DEF Once
  <2>2. k + 1 \in DOMAIN t /\ t[k + 1] = "jump"
    BY <1>2, <2>1
  <2>3. ASSUME NEW m \in DOMAIN t, t[m] = "jump" PROVE m = k + 1
    <3>1. m # 1
      BY <1>2, <2>3
    <3>2. m - 1 = k
      BY <1>3, <2>1, <2>3, <3>1
    <3> QED
      BY <1>1, <1>2, <3>2
  <2> QED
    BY <2>2, <2>3 DEF Once
<1>6. ASSUME Behind(s) \/ e = "docker-user" PROVE Behind(t)
  <2> SUFFICES ASSUME NEW n \in DOMAIN t, NEW m \in DOMAIN t,
                      t[n] = "docker-user", t[m] = "jump"
               PROVE  n < m
    BY DEF Behind
  <2>1. m # 1 /\ m - 1 \in DOMAIN s /\ s[m - 1] = "jump"
    BY <1>2, <1>3
  <2>2. CASE n = 1
    BY <1>1, <2>1, <2>2
  <2>3. CASE n # 1
    <3>1. n - 1 \in DOMAIN s /\ s[n - 1] = "docker-user"
      BY <1>3, <2>3
    <3>2. e # "docker-user"
      BY <3>1 DEF Range
    <3>3. n - 1 < m - 1
      BY <1>6, <2>1, <3>1, <3>2 DEF Behind
    <3> QED
      BY <1>1, <1>2, <3>3
  <2> QED
    BY <2>2, <2>3
<1>7. ASSUME "jump" \in Range(s) PROVE "jump" \in Range(t)
  <2>1. PICK k \in DOMAIN s : s[k] = "jump"
    BY <1>7 DEF Range
  <2>2. k + 1 \in DOMAIN t /\ t[k + 1] = "jump"
    BY <1>2, <2>1
  <2> QED
    BY <2>2 DEF Range
<1> QED
  BY <1>4, <1>5, <1>6, <1>7 DEF t

LEMMA DockerKeeps ==
    ASSUME NEW s \in Seq(ParentRule), OneDockerUser(s),
           NEW t, t = <<"docker-user">> \o RemoveFirst(s, "docker-user")
    PROVE  /\ t \in Seq(ParentRule) /\ OneDockerUser(t) /\ Behind(t)
           /\ Once(s) => Once(t)
           /\ "jump" \in Range(s) => "jump" \in Range(t)
<1> DEFINE r == RemoveFirst(s, "docker-user")
<1>1. r \in Seq(ParentRule) /\ OneDockerUser(r) /\ "docker-user" \notin Range(r) /\ (Once(s) => Once(r))
      /\ ("jump" \in Range(s) => "jump" \in Range(r))
  <2>1. CASE "docker-user" \in Range(s)
    <3>1. PICK i \in DOMAIN s : s[i] = "docker-user" /\ r = RemoveAt(s, i)
      BY <2>1, FirstFacts
    <3> QED
      BY <3>1, RemoveKeeps, RemoveAtFacts
  <2>2. CASE "docker-user" \notin Range(s)
    BY <2>2, FirstFacts
  <2> QED
    BY <2>1, <2>2
<1> HIDE DEF r
<1>2. t = <<"docker-user">> \o r
  BY DEF r
<1>3. "docker-user" \in ParentRule
  BY DEF ParentRule
<1>4. <<"docker-user">> \o r \in Seq(ParentRule)
  BY <1>1, <1>3, PrependFacts
<1>5. /\ OneDockerUser(r) => OneDockerUser(<<"docker-user">> \o r)
      /\ Once(r) => Once(<<"docker-user">> \o r)
      /\ "jump" \in Range(r) => "jump" \in Range(<<"docker-user">> \o r)
      /\ Behind(<<"docker-user">> \o r)
  <2>1. \A e \in {"docker-user", "other"} : (e = "docker-user" => "docker-user" \notin Range(r)) =>
            /\ OneDockerUser(r) => OneDockerUser(<<e>> \o r)
            /\ Once(r) => Once(<<e>> \o r)
            /\ "jump" \in Range(r) => "jump" \in Range(<<e>> \o r)
            /\ Behind(r) \/ e = "docker-user" => Behind(<<e>> \o r)
    BY <1>1, PrependKeeps
  <2> QED
    BY <1>1, <2>1
<1> QED
  BY <1>1, <1>2, <1>4, <1>5

LEMMA InsertKeeps ==
    ASSUME NEW s \in Seq(ParentRule), NEW i \in 1..(Len(s) + 1),
           NEW t, t = InsertAt(s, i, "jump")
    PROVE  /\ t \in Seq(ParentRule)
           /\ OneDockerUser(s) => OneDockerUser(t)
           /\ "jump" \in Range(t)
           /\ "jump" \notin Range(s) =>
                /\ Once(t)
                /\ (\A n \in DOMAIN s : s[n] = "docker-user" => n < i) => Behind(t)
<1>1. Len(s) \in Nat /\ DOMAIN s = 1..Len(s)
  BY LenProperties
<1>2. /\ t \in Seq(ParentRule) /\ DOMAIN t = 1..(Len(s) + 1)
      /\ \A n \in 1..(Len(s) + 1) :
           t[n] = IF n < i THEN s[n] ELSE IF n = i THEN "jump" ELSE s[n - 1]
  BY InsertFacts DEF ParentRule
<1>3. ASSUME "jump" \notin Range(s), NEW n \in DOMAIN s PROVE s[n] # "jump"
  BY <1>3 DEF Range
<1>4. ASSUME NEW n \in DOMAIN t, n # i
      PROVE  \E k \in DOMAIN s : t[n] = s[k] /\ (n < i => k = n) /\ (n > i => k = n - 1)
  <2>1. CASE n < i
    BY <1>1, <1>2, <2>1
  <2>2. CASE n > i
    <3>1. n - 1 \in DOMAIN s /\ t[n] = s[n - 1]
      BY <1>1, <1>2, <2>2
    <3> QED
      BY <1>1, <1>2, <2>2, <3>1
  <2> QED
    BY <1>1, <1>2, <1>4, <2>1, <2>2
<1>5. i \in DOMAIN t /\ t[i] = "jump"
  BY <1>1, <1>2
<1>6. "jump" \notin Range(s) => \A n \in DOMAIN t : t[n] = "jump" <=> n = i
  BY <1>3, <1>4, <1>5
<1>7. "jump" \notin Range(s) => Once(t)
  BY <1>5, <1>6 DEF Once
<1>8. ASSUME OneDockerUser(s) PROVE OneDockerUser(t)
  <2> SUFFICES ASSUME NEW n \in DOMAIN t, NEW m \in DOMAIN t,
                      t[n] = "docker-user", t[m] = "docker-user"
               PROVE  n = m
    BY DEF OneDockerUser
  <2>1. n # i /\ m # i
    BY <1>5
  <2>2. PICK k \in DOMAIN s : t[n] = s[k] /\ (n < i => k = n) /\ (n > i => k = n - 1)
    BY <1>4, <2>1
  <2>3. PICK l \in DOMAIN s : t[m] = s[l] /\ (m < i => l = m) /\ (m > i => l = m - 1)
    BY <1>4, <2>1
  <2>4. k = l
    BY <1>8, <2>2, <2>3 DEF OneDockerUser
  <2> QED
    BY <1>1, <1>2, <2>1, <2>2, <2>3, <2>4
<1>9. ASSUME "jump" \notin Range(s), \A n \in DOMAIN s : s[n] = "docker-user" => n < i
      PROVE  Behind(t)
  <2> SUFFICES ASSUME NEW n \in DOMAIN t, t[n] = "docker-user" PROVE n < i
    BY <1>6, <1>9 DEF Behind
  <2>1. n # i
    BY <1>5
  <2>2. PICK k \in DOMAIN s : t[n] = s[k] /\ (n < i => k = n) /\ (n > i => k = n - 1)
    BY <1>4, <2>1
  <2>3. k < i
    BY <1>9, <2>2
  <2> QED
    BY <1>1, <1>2, <2>1, <2>2, <2>3
<1>10. "jump" \in Range(t)
  BY <1>5 DEF Range
<1> QED
  BY <1>2, <1>7, <1>8, <1>9, <1>10

-----------------------------------------------------------------------------
\* What sequences of commands decide, and the elements they have.

Speaks(cs, h, i, s, d) == ~Silent(cs, Len(cs), h, i, s, d)
Says(cs, h, i, s, d, v) == Settles(cs, Len(cs), h, i, s, d, v)

LEMMA ConcatFacts ==
    ASSUME NEW C, NEW a \in Seq(C), NEW b \in Seq(C), NEW h, NEW i, NEW s, NEW d
    PROVE  /\ a \o b \in Seq(C)
           /\ ~Speaks(a, h, i, s, d) /\ ~Speaks(b, h, i, s, d) => ~Speaks(a \o b, h, i, s, d)
           /\ \A v : Says(a, h, i, s, d, v) => Says(a \o b, h, i, s, d, v)
           /\ \A v : ~Speaks(a, h, i, s, d) /\ Says(b, h, i, s, d, v) => Says(a \o b, h, i, s, d, v)
           /\ Range(a) \subseteq Range(a \o b) /\ Range(b) \subseteq Range(a \o b)
<1> DEFINE t == a \o b
<1>1. /\ t \in Seq(C) /\ Len(t) = Len(a) + Len(b) /\ Len(a) \in Nat /\ Len(b) \in Nat
      /\ DOMAIN a = 1..Len(a) /\ DOMAIN b = 1..Len(b) /\ DOMAIN t = 1..(Len(a) + Len(b))
  BY ConcatProperties, LenProperties
<1>2. \A k \in 1..(Len(a) + Len(b)) : t[k] = IF k <= Len(a) THEN a[k] ELSE b[k - Len(a)]
  BY ConcatProperties
<1> HIDE DEF t
<1>3. \A k \in 1..Len(a) : k \in 1..Len(t) /\ t[k] = a[k]
  BY <1>1, <1>2
<1>4. ASSUME NEW k \in 1..Len(b) PROVE k + Len(a) \in 1..Len(t) /\ t[k + Len(a)] = b[k]
  <2>1. k + Len(a) \in 1..Len(t) /\ ~(k + Len(a) <= Len(a)) /\ (k + Len(a)) - Len(a) = k
    BY <1>1
  <2> QED
    BY <1>1, <1>2, <2>1
<1>5. ASSUME NEW k \in 1..Len(t), k \notin 1..Len(a)
      PROVE  k - Len(a) \in 1..Len(b) /\ t[k] = b[k - Len(a)]
  BY <1>1, <1>2, <1>5
<1>6. ASSUME ~Speaks(a, h, i, s, d), ~Speaks(b, h, i, s, d) PROVE ~Speaks(t, h, i, s, d)
  BY <1>3, <1>5, <1>6 DEF Speaks, Silent
<1>7. ASSUME NEW v, Says(a, h, i, s, d, v) PROVE Says(t, h, i, s, d, v)
  <2>1. PICK k \in 1..Len(a) : /\ Hits(a[k], h, i, s, d) /\ a[k].rule.verdict = v
                               /\ \A l \in 1..(k - 1) : ~Hits(a[l], h, i, s, d)
    BY <1>7 DEF Says, Settles
  <2>2. ASSUME NEW l \in 1..(k - 1) PROVE ~Hits(t[l], h, i, s, d)
    BY <1>1, <1>3, <2>1
  <2> QED
    BY <1>3, <2>1, <2>2 DEF Says, Settles
<1>8. ASSUME NEW v, ~Speaks(a, h, i, s, d), Says(b, h, i, s, d, v) PROVE Says(t, h, i, s, d, v)
  <2>1. PICK k \in 1..Len(b) : /\ Hits(b[k], h, i, s, d) /\ b[k].rule.verdict = v
                               /\ \A l \in 1..(k - 1) : ~Hits(b[l], h, i, s, d)
    BY <1>8 DEF Says, Settles
  <2>2. ASSUME NEW l \in 1..((k + Len(a)) - 1) PROVE ~Hits(t[l], h, i, s, d)
    <3>1. CASE l \in 1..Len(a)
      BY <1>3, <1>8, <3>1 DEF Speaks, Silent
    <3>2. CASE l \notin 1..Len(a)
      <4>1. l - Len(a) \in 1..(k - 1) /\ l \in 1..Len(t)
        BY <1>1, <3>2
      <4> QED
        BY <1>5, <2>1, <3>2, <4>1
    <3> QED
      BY <3>1, <3>2
  <2>3. k + Len(a) \in 1..Len(t) /\ t[k + Len(a)] = b[k]
    BY <1>4
  <2> QED
    BY <2>1, <2>2, <2>3 DEF Says, Settles
<1>9. Range(a) \subseteq Range(t) /\ Range(b) \subseteq Range(t)
  BY <1>1, <1>3, <1>4 DEF Range
<1> QED
  BY <1>1, <1>6, <1>7, <1>8, <1>9 DEF t

\* The first k sequences one behind the other.
Joined(seqs, k, f) ==
    f = [n \in 1..k |-> IF n = 1 THEN seqs[n] ELSE f[n - 1] \o seqs[n]]

LEMMA JoinedExists ==
    ASSUME NEW seqs, NEW max \in Nat \ {0}
    PROVE  \E f : Joined(seqs, max, f)
<1> DEFINE S == {k \in Nat \ {0} : ~\E f : Joined(seqs, k, f)}
<1> SUFFICES ASSUME S # {} PROVE FALSE
  OBVIOUS
<1>1. PICK k \in S : \A m \in S : k <= m
  <2>1. S \in SUBSET Nat
    OBVIOUS
  <2> QED
    BY <2>1, Least
<1>2. k \in Nat \ {0} /\ ~\E f : Joined(seqs, k, f)
  OBVIOUS
<1>3. k # 1
  <2> DEFINE f == [n \in 1..1 |-> seqs[n]]
  <2>1. Joined(seqs, 1, f)
    BY DEF Joined
  <2> QED
    BY <1>2, <2>1
<1>4. k - 1 \in Nat \ {0} /\ k - 1 \notin S
  BY <1>1, <1>2, <1>3
<1>5. PICK g : Joined(seqs, k - 1, g)
  BY <1>4
<1> DEFINE f == [n \in 1..k |-> IF n < k THEN g[n] ELSE g[k - 1] \o seqs[k]]
           e == [n \in 1..k |-> IF n = 1 THEN seqs[n] ELSE f[n - 1] \o seqs[n]]
<1>6. ASSUME NEW n \in 1..k PROVE f[n] = e[n]
  <2>1. CASE n = k
    <3>1. k - 1 \in 1..k /\ k - 1 < k /\ k \in 1..k /\ ~(k < k)
      BY <1>2, <1>4
    <3>2. f[k - 1] = g[k - 1] /\ f[k] = g[k - 1] \o seqs[k]
      BY <3>1
    <3> QED
      BY <1>3, <2>1, <3>1, <3>2
  <2>2. CASE n # k
    <3>1. n \in 1..(k - 1) /\ n < k
      BY <1>2, <2>2
    <3>2. g[n] = IF n = 1 THEN seqs[n] ELSE g[n - 1] \o seqs[n]
      BY <1>5, <3>1 DEF Joined
    <3>3. n # 1 => n - 1 \in 1..k /\ n - 1 < k
      BY <1>2, <3>1
    <3>4. n # 1 => f[n - 1] = g[n - 1]
      BY <3>3
    <3> QED
      BY <3>1, <3>2, <3>4
  <2> QED
    BY <2>1, <2>2
<1>7. f = e
  BY <1>6
<1>8. Joined(seqs, k, f)
  BY <1>7 DEF Joined
<1> QED
  BY <1>2, <1>8

LEMMA FlattenIs ==
    ASSUME NEW S, NEW seqs \in Seq(S), seqs # <<>>
    PROVE  \E f : Joined(seqs, Len(seqs), f) /\ FlattenSeq(seqs) = f[Len(seqs)]
<1>1. Len(seqs) \in Nat \ {0}
  BY EmptySeq
<1> DEFINE f == CHOOSE g : Joined(seqs, Len(seqs), g)
<1>2. Joined(seqs, Len(seqs), f)
  BY <1>1, JoinedExists
<1>3. FlattenSeq(seqs) = f[Len(seqs)]
  BY <1>1 DEF FlattenSeq, Joined
<1> QED
  BY <1>2, <1>3

\* FlattenSeq decides what the first of its parts that decides anything does.
LEMMA FlattenFacts ==
    ASSUME NEW C, NEW seqs \in Seq(Seq(C)), NEW h, NEW i, NEW s, NEW d
    PROVE  /\ FlattenSeq(seqs) \in Seq(C)
           /\ (\A n \in DOMAIN seqs : ~Speaks(seqs[n], h, i, s, d)) =>
                ~Speaks(FlattenSeq(seqs), h, i, s, d)
           /\ \A v, n : /\ n \in DOMAIN seqs /\ Says(seqs[n], h, i, s, d, v)
                        /\ \A m \in 1..(n - 1) : ~Speaks(seqs[m], h, i, s, d)
                        => Says(FlattenSeq(seqs), h, i, s, d, v)
           /\ \A n \in DOMAIN seqs : Range(seqs[n]) \subseteq Range(FlattenSeq(seqs))
<1>1. Len(seqs) \in Nat /\ DOMAIN seqs = 1..Len(seqs)
  BY LenProperties
<1>2. CASE seqs = <<>>
  <2>1. FlattenSeq(seqs) = <<>> /\ DOMAIN seqs = {} /\ Len(<<>>) = 0
    BY <1>2 DEF FlattenSeq
  <2>2. <<>> \in Seq(C) /\ ~Speaks(<<>>, h, i, s, d)
    BY EmptySeq DEF Speaks, Silent
  <2> QED
    BY <2>1, <2>2
<1>3. CASE seqs # <<>>
  <2>1. PICK f : Joined(seqs, Len(seqs), f) /\ FlattenSeq(seqs) = f[Len(seqs)]
    BY <1>3, FlattenIs
  <2>2. Len(seqs) \in Nat \ {0}
    BY <1>3, EmptySeq
  <2> DEFINE Good(k) ==
        /\ f[k] \in Seq(C)
        /\ (\A n \in 1..k : ~Speaks(seqs[n], h, i, s, d)) => ~Speaks(f[k], h, i, s, d)
        /\ \A v, n : /\ n \in 1..k /\ Says(seqs[n], h, i, s, d, v)
                     /\ \A m \in 1..(n - 1) : ~Speaks(seqs[m], h, i, s, d)
                     => Says(f[k], h, i, s, d, v)
        /\ \A n \in 1..k : Range(seqs[n]) \subseteq Range(f[k])
  <2>3. Good(1)
    <3>1. f[1] = seqs[1] /\ 1 \in 1..Len(seqs)
      BY <2>1, <2>2 DEF Joined
    <3>2. seqs[1] \in Seq(C)
      BY <3>1, ElementOfSeq
    <3>3. \A n : n \in 1..1 <=> n = 1
      OBVIOUS
    <3> QED
      BY <3>1, <3>2, <3>3
  <2>4. ASSUME NEW k \in 1..Len(seqs), k # 1, Good(k - 1) PROVE Good(k)
    <3>1. f[k] = f[k - 1] \o seqs[k]
      BY <2>1, <2>4 DEF Joined
    <3>2. seqs[k] \in Seq(C) /\ f[k - 1] \in Seq(C)
      BY <2>4, ElementOfSeq
    <3>3. /\ f[k] \in Seq(C)
          /\ ~Speaks(f[k - 1], h, i, s, d) /\ ~Speaks(seqs[k], h, i, s, d) => ~Speaks(f[k], h, i, s, d)
          /\ \A v : Says(f[k - 1], h, i, s, d, v) => Says(f[k], h, i, s, d, v)
          /\ \A v : ~Speaks(f[k - 1], h, i, s, d) /\ Says(seqs[k], h, i, s, d, v) => Says(f[k], h, i, s, d, v)
          /\ Range(f[k - 1]) \subseteq Range(f[k]) /\ Range(seqs[k]) \subseteq Range(f[k])
      BY <3>1, <3>2, ConcatFacts
    <3>4. \A n : n \in 1..k <=> (n \in 1..(k - 1) \/ n = k)
      BY <2>2, <2>4
    <3>5. ASSUME \A n \in 1..k : ~Speaks(seqs[n], h, i, s, d) PROVE ~Speaks(f[k], h, i, s, d)
      BY <2>4, <3>3, <3>4, <3>5
    <3>6. ASSUME NEW v, NEW n \in 1..k, Says(seqs[n], h, i, s, d, v),
                 \A m \in 1..(n - 1) : ~Speaks(seqs[m], h, i, s, d)
          PROVE  Says(f[k], h, i, s, d, v)
      <4>1. CASE n = k
        <5>1. ~Speaks(f[k - 1], h, i, s, d)
          BY <2>4, <3>6, <4>1
        <5> QED
          BY <3>3, <3>6, <4>1, <5>1
      <4>2. CASE n # k
        <5>1. n \in 1..(k - 1)
          BY <3>4, <4>2
        <5>2. Says(f[k - 1], h, i, s, d, v)
          BY <2>4, <3>6, <5>1
        <5> QED
          BY <3>3, <5>2
      <4> QED
        BY <4>1, <4>2
    <3>7. \A n \in 1..k : Range(seqs[n]) \subseteq Range(f[k])
      BY <2>4, <3>3, <3>4
    <3> QED
      BY <3>3, <3>5, <3>6, <3>7
  <2> DEFINE S == {k \in 1..Len(seqs) : ~Good(k)}
  <2>5. ASSUME S # {} PROVE FALSE
    <3>1. PICK k \in S : \A m \in S : k <= m
      <4>1. S \in SUBSET Nat
        BY <2>2
      <4> QED
        BY <2>5, <4>1, Least
    <3>2. k \in 1..Len(seqs) /\ ~Good(k)
      OBVIOUS
    <3> HIDE DEF Good
    <3>3. k # 1
      BY <2>3, <3>2
    <3>4. k - 1 \in 1..Len(seqs) /\ ~(k <= k - 1)
      BY <2>2, <3>2, <3>3
    <3>5. Good(k - 1)
      BY <3>1, <3>4
    <3> QED
      BY <2>4, <3>2, <3>3, <3>5
  <2>6. Good(Len(seqs))
    <3> HIDE DEF Good
    <3>1. Len(seqs) \in 1..Len(seqs)
      BY <2>2
    <3> QED
      BY <2>5, <3>1
  <2> QED
    BY <1>1, <2>1, <2>6
<1> QED
  BY <1>2, <1>3

-----------------------------------------------------------------------------
\* The orders of the jumps and of the flushes name every hook.

LEMMA FamiliesFacts ==
    /\ Len(Families) \in Nat \ {0} /\ DOMAIN Families = 1..Len(Families)
    /\ \A n \in 1..Len(Families) : Families[n] \in Range(Families)
    /\ \A n, m \in 1..Len(Families) : Families[n] = Families[m] => n = m
    /\ \A f \in Range(Families) : \E n \in 1..Len(Families) : f = Families[n]
<1>1. Families \in Seq({4, 6}) /\ Families # <<>> /\ IsInjective(Families)
  BY PoliciesAssumption
<1>2. Len(Families) \in Nat \ {0} /\ DOMAIN Families = 1..Len(Families)
  BY <1>1, EmptySeq, LenProperties
<1> QED
  BY <1>1, <1>2 DEF IsInjective, Range

LEMMA HooksOfFacts ==
    ASSUME NEW t \in {"raw", "forward", "nat"}
    PROVE  /\ HooksOf(t) \in Seq(Hooks) /\ Len(HooksOf(t)) = Len(Families)
           /\ \A n \in 1..Len(Families) : HooksOf(t)[n] = Hook(t, Families[n])
<1>1. HooksOf(t) = [n \in 1..Len(Families) |-> Hook(t, Families[n])]
  BY FamiliesFacts DEF HooksOf
<1>2. \A n \in 1..Len(Families) : Hook(t, Families[n]) \in Hooks
  BY FamiliesFacts DEF Hooks
<1>3. Len(Families) \in Nat
  BY FamiliesFacts
<1> QED
  BY <1>1, <1>2, <1>3

LEMMA ConcatElements ==
    ASSUME NEW C, NEW a \in Seq(C), NEW b \in Seq(C), NEW n, NEW m, Len(a) = n, Len(b) = m
    PROVE  /\ a \o b \in Seq(C) /\ Len(a \o b) = n + m
           /\ \A k \in 1..(n + m) : (a \o b)[k] = IF k <= n THEN a[k] ELSE b[k - n]
BY ConcatProperties

LEMMA JumpOrderFacts ==
    /\ JumpOrder \in Seq(Hooks) /\ Len(JumpOrder) \in Nat \ {0}
    /\ DOMAIN JumpOrder = 1..Len(JumpOrder)
    /\ \A k, l \in DOMAIN JumpOrder : JumpOrder[k] = JumpOrder[l] => k = l
    /\ \A h \in Hooks : \E k \in DOMAIN JumpOrder : JumpOrder[k] = h
<1> DEFINE N == Len(Families)  a == HooksOf("raw") \o HooksOf("forward")
<1>1. N \in Nat \ {0}
  BY FamiliesFacts
<1>2. /\ HooksOf("raw") \in Seq(Hooks) /\ Len(HooksOf("raw")) = N
      /\ HooksOf("forward") \in Seq(Hooks) /\ Len(HooksOf("forward")) = N
      /\ HooksOf("nat") \in Seq(Hooks) /\ Len(HooksOf("nat")) = N
  BY HooksOfFacts
<1>3. /\ a \in Seq(Hooks) /\ Len(a) = N + N
      /\ \A k \in 1..(N + N) : a[k] = IF k <= N THEN HooksOf("raw")[k] ELSE HooksOf("forward")[k - N]
  BY <1>2, ConcatElements
<1>4. /\ JumpOrder \in Seq(Hooks) /\ Len(JumpOrder) = (N + N) + N
      /\ \A k \in 1..((N + N) + N) :
           JumpOrder[k] = IF k <= N + N THEN a[k] ELSE HooksOf("nat")[k - (N + N)]
  <2> HIDE DEF a
  <2>1. JumpOrder = a \o HooksOf("nat")
    BY DEF JumpOrder, a
  <2> HIDE DEF N
  <2>2. /\ a \o HooksOf("nat") \in Seq(Hooks) /\ Len(a \o HooksOf("nat")) = (N + N) + N
        /\ \A k \in 1..((N + N) + N) :
             (a \o HooksOf("nat"))[k] = IF k <= N + N THEN a[k] ELSE HooksOf("nat")[k - (N + N)]
    <3>1. a \in Seq(Hooks) /\ HooksOf("nat") \in Seq(Hooks) /\ Len(a) = N + N /\ Len(HooksOf("nat")) = N
      BY <1>2, <1>3
    <3> QED
      BY <3>1, ConcatElements
  <2> QED
    BY <2>1, <2>2
<1>5. DOMAIN JumpOrder = 1..((N + N) + N)
  BY <1>4, LenProperties
<1> HIDE DEF N, a
<1>6. \A n \in 1..N : /\ HooksOf("raw")[n] = Hook("raw", Families[n])
                      /\ HooksOf("forward")[n] = Hook("forward", Families[n])
                      /\ HooksOf("nat")[n] = Hook("nat", Families[n])
  BY HooksOfFacts DEF N
<1>7. ASSUME NEW n \in 1..N
      PROVE  /\ n \in DOMAIN JumpOrder /\ JumpOrder[n] = Hook("raw", Families[n])
             /\ n + N \in DOMAIN JumpOrder /\ JumpOrder[n + N] = Hook("forward", Families[n])
             /\ n + (N + N) \in DOMAIN JumpOrder
             /\ JumpOrder[n + (N + N)] = Hook("nat", Families[n])
  <2>1. /\ n \in 1..((N + N) + N) /\ n \in 1..(N + N) /\ n <= N + N /\ n <= N
        /\ n + N \in 1..((N + N) + N) /\ n + N \in 1..(N + N) /\ n + N <= N + N
        /\ ~(n + N <= N) /\ (n + N) - N = n
        /\ n + (N + N) \in 1..((N + N) + N) /\ ~(n + (N + N) <= N + N)
        /\ (n + (N + N)) - (N + N) = n
    BY <1>1
  <2>2. JumpOrder[n] = Hook("raw", Families[n])
    BY <1>3, <1>4, <1>6, <2>1
  <2>3. JumpOrder[n + N] = Hook("forward", Families[n])
    BY <1>3, <1>4, <1>6, <2>1
  <2>4. JumpOrder[n + (N + N)] = Hook("nat", Families[n])
    BY <1>4, <1>6, <2>1
  <2> QED
    BY <1>5, <2>1, <2>2, <2>3, <2>4
<1>8. ASSUME NEW k \in DOMAIN JumpOrder
      PROVE  \E n \in 1..N : \/ k = n /\ JumpOrder[k] = Hook("raw", Families[n])
                             \/ k = n + N /\ JumpOrder[k] = Hook("forward", Families[n])
                             \/ k = n + (N + N) /\ JumpOrder[k] = Hook("nat", Families[n])
  <2>1. k \in 1..N \/ k - N \in 1..N \/ k - (N + N) \in 1..N
    BY <1>1, <1>5
  <2>2. k \in 1..((N + N) + N)
    BY <1>5
  <2>3. CASE k \in 1..N
    BY <1>7, <2>3
  <2>4. CASE k - N \in 1..N
    <3>1. k = (k - N) + N
      BY <1>1, <2>2
    <3>2. JumpOrder[(k - N) + N] = Hook("forward", Families[k - N])
      BY <1>7, <2>4
    <3> QED
      BY <2>4, <3>1, <3>2
  <2>5. CASE k - (N + N) \in 1..N
    <3>1. k = (k - (N + N)) + (N + N)
      BY <1>1, <2>2
    <3>2. JumpOrder[(k - (N + N)) + (N + N)] = Hook("nat", Families[k - (N + N)])
      BY <1>7, <2>5
    <3> QED
      BY <2>5, <3>1, <3>2
  <2> QED
    BY <2>1, <2>3, <2>4, <2>5
<1>9. ASSUME NEW k \in DOMAIN JumpOrder, NEW l \in DOMAIN JumpOrder, JumpOrder[k] = JumpOrder[l]
      PROVE  k = l
  <2>1. PICK n \in 1..N : \/ k = n /\ JumpOrder[k] = Hook("raw", Families[n])
                          \/ k = n + N /\ JumpOrder[k] = Hook("forward", Families[n])
                          \/ k = n + (N + N) /\ JumpOrder[k] = Hook("nat", Families[n])
    BY <1>8
  <2>2. PICK m \in 1..N : \/ l = m /\ JumpOrder[l] = Hook("raw", Families[m])
                          \/ l = m + N /\ JumpOrder[l] = Hook("forward", Families[m])
                          \/ l = m + (N + N) /\ JumpOrder[l] = Hook("nat", Families[m])
    BY <1>8
  <2>3. JumpOrder[k].family = Families[n] /\ JumpOrder[l].family = Families[m]
    BY <2>1, <2>2 DEF Hook
  <2>4. n = m
    BY <1>9, <2>3, FamiliesFacts DEF N
  <2>5. \/ k = n /\ JumpOrder[k].table = "raw"
        \/ k = n + N /\ JumpOrder[k].table = "forward"
        \/ k = n + (N + N) /\ JumpOrder[k].table = "nat"
    BY <2>1 DEF Hook
  <2>6. \/ l = n /\ JumpOrder[l].table = "raw"
        \/ l = n + N /\ JumpOrder[l].table = "forward"
        \/ l = n + (N + N) /\ JumpOrder[l].table = "nat"
    BY <2>2, <2>4 DEF Hook
  <2> QED
    BY <1>9, <2>5, <2>6
<1>10. ASSUME NEW h \in Hooks PROVE \E k \in DOMAIN JumpOrder : JumpOrder[k] = h
  <2>1. PICK t \in {"raw", "forward", "nat"}, f \in Range(Families) : h = Hook(t, f)
    BY DEF Hooks
  <2>2. PICK n \in 1..N : f = Families[n]
    BY FamiliesFacts DEF N
  <2> QED
    BY <1>7, <2>1, <2>2
<1>11. Len(JumpOrder) \in Nat \ {0} /\ DOMAIN JumpOrder = 1..Len(JumpOrder)
  BY <1>1, <1>4, <1>5
<1> QED
  BY <1>4, <1>9, <1>10, <1>11

LEMMA FlushOrderFacts ==
    /\ FlushOrder \in Seq(Hooks) /\ Len(FlushOrder) \in Nat \ {0}
    /\ DOMAIN FlushOrder = 1..Len(FlushOrder)
    /\ \A h \in Hooks : \E k \in DOMAIN FlushOrder : FlushOrder[k] = h
<1> DEFINE Tables(n) == IF Families[n] = 4 THEN <<"forward", "nat", "raw">> ELSE <<"forward", "raw", "nat">>
           Part(n) == [k \in 1..3 |-> Hook(Tables(n)[k], Families[n])]
           parts == [n \in DOMAIN Families |-> Part(n)]
<1>1. ASSUME NEW n \in 1..Len(Families)
      PROVE  /\ Part(n) \in Seq(Hooks)
             /\ \A t \in {"raw", "forward", "nat"} : Hook(t, Families[n]) \in Range(Part(n))
  <2>1. \A k \in 1..3 : Tables(n)[k] \in {"raw", "forward", "nat"}
    OBVIOUS
  <2>2. \A t \in {"raw", "forward", "nat"} : \E k \in 1..3 : Tables(n)[k] = t
    <3>1. Tables(n)[1] = "forward" /\ {Tables(n)[2], Tables(n)[3]} = {"nat", "raw"}
      OBVIOUS
    <3> QED
      BY <3>1
  <2> HIDE DEF Tables
  <2>3. \A k \in 1..3 : Hook(Tables(n)[k], Families[n]) \in Hooks
    BY <2>1, FamiliesFacts DEF Hooks
  <2>4. Part(n) \in Seq(Hooks)
    BY <2>3
  <2> QED
    BY <2>2, <2>4 DEF Range
<1> HIDE DEF Part
<1>2. parts \in Seq(Seq(Hooks)) /\ DOMAIN parts = 1..Len(Families)
  BY <1>1, FamiliesFacts
<1>3. FlushOrder = FlattenSeq(parts)
  BY DEF FlushOrder, Part
<1>4. /\ FlushOrder \in Seq(Hooks)
      /\ \A n \in DOMAIN parts : Range(parts[n]) \subseteq Range(FlushOrder)
  <2> HIDE DEF parts
  <2>1. \A h, i, s, d : /\ FlattenSeq(parts) \in Seq(Hooks)
                        /\ \A n \in DOMAIN parts : Range(parts[n]) \subseteq Range(FlattenSeq(parts))
    BY <1>2, FlattenFacts
  <2> QED
    BY <1>3, <2>1
<1>5. DOMAIN FlushOrder = 1..Len(FlushOrder) /\ Len(FlushOrder) \in Nat
  BY <1>4, LenProperties
<1>6. ASSUME NEW h \in Hooks PROVE \E k \in DOMAIN FlushOrder : FlushOrder[k] = h
  <2>1. PICK t \in {"raw", "forward", "nat"}, f \in Range(Families) : h = Hook(t, f)
    BY DEF Hooks
  <2>2. PICK n \in 1..Len(Families) : f = Families[n]
    BY FamiliesFacts
  <2>3. h \in Range(parts[n])
    BY <1>1, <1>2, <2>1, <2>2
  <2>4. h \in Range(FlushOrder)
    BY <1>2, <1>4, <2>3
  <2> QED
    BY <2>4 DEF Range
<1>7. Len(FlushOrder) # 0
  <2>1. Hook("raw", Families[1]) \in Hooks
    BY FamiliesFacts DEF Hooks
  <2>2. PICK k \in DOMAIN FlushOrder : FlushOrder[k] = Hook("raw", Families[1])
    BY <1>6, <2>1
  <2> QED
    BY <1>5, <2>2
<1> QED
  BY <1>4, <1>5, <1>6, <1>7

-----------------------------------------------------------------------------
\* What the commands of a rendering decide.

Command == [hook : Hooks \cup {None}, rule : Rule]

\* A command, or a sequence of commands, gives a verdict or none.
Answer(c, h, i, s, d) == IF Hits(c, h, i, s, d) THEN c.rule.verdict ELSE "none"
Gives(cs, h, i, s, d, x) ==
    IF x = "none" THEN ~Speaks(cs, h, i, s, d) ELSE Says(cs, h, i, s, d, x)
Or(x, y) == IF x = "none" THEN y ELSE x

LEMMA ConcatGives ==
    ASSUME NEW C, NEW a \in Seq(C), NEW b \in Seq(C), NEW h, NEW i, NEW s, NEW d,
           NEW x, NEW y, Gives(a, h, i, s, d, x), Gives(b, h, i, s, d, y)
    PROVE  a \o b \in Seq(C) /\ Gives(a \o b, h, i, s, d, Or(x, y))
<1>1. /\ a \o b \in Seq(C)
      /\ ~Speaks(a, h, i, s, d) /\ ~Speaks(b, h, i, s, d) => ~Speaks(a \o b, h, i, s, d)
      /\ \A v : Says(a, h, i, s, d, v) => Says(a \o b, h, i, s, d, v)
      /\ \A v : ~Speaks(a, h, i, s, d) /\ Says(b, h, i, s, d, v) => Says(a \o b, h, i, s, d, v)
  BY ConcatFacts
<1>2. CASE x = "none" /\ y = "none"
  BY <1>1, <1>2 DEF Gives, Or
<1>3. CASE x = "none" /\ y # "none"
  BY <1>1, <1>3 DEF Gives, Or
<1>4. CASE x # "none"
  BY <1>1, <1>4 DEF Gives, Or
<1> QED
  BY <1>1, <1>2, <1>3, <1>4

LEMMA FlattenGives ==
    ASSUME NEW C, NEW seqs \in Seq(Seq(C)), NEW h, NEW i, NEW s, NEW d, NEW x,
           NEW m \in DOMAIN seqs, Gives(seqs[m], h, i, s, d, x),
           \A n \in DOMAIN seqs : n # m => Gives(seqs[n], h, i, s, d, "none")
    PROVE  Gives(FlattenSeq(seqs), h, i, s, d, x)
<1>1. /\ (\A n \in DOMAIN seqs : ~Speaks(seqs[n], h, i, s, d)) =>
           ~Speaks(FlattenSeq(seqs), h, i, s, d)
      /\ \A v, n : /\ n \in DOMAIN seqs /\ Says(seqs[n], h, i, s, d, v)
                   /\ \A l \in 1..(n - 1) : ~Speaks(seqs[l], h, i, s, d)
                   => Says(FlattenSeq(seqs), h, i, s, d, v)
  BY FlattenFacts
<1>2. \A n \in DOMAIN seqs : n # m => ~Speaks(seqs[n], h, i, s, d)
  BY DEF Gives
<1>3. CASE x = "none"
  BY <1>1, <1>2, <1>3 DEF Gives
<1>4. CASE x # "none"
  <2>1. Says(seqs[m], h, i, s, d, x)
    BY <1>4 DEF Gives
  <2>2. \A l \in 1..(m - 1) : l \in DOMAIN seqs /\ l # m
    BY LenProperties
  <2>3. Says(FlattenSeq(seqs), h, i, s, d, x)
    BY <1>1, <1>2, <2>1, <2>2
  <2> QED
    BY <1>4, <2>3 DEF Gives
<1> QED
  BY <1>3, <1>4

LEMMA FlattenSilent ==
    ASSUME NEW C, NEW seqs \in Seq(Seq(C)), NEW h, NEW i, NEW s, NEW d,
           \A n \in DOMAIN seqs : Gives(seqs[n], h, i, s, d, "none")
    PROVE  Gives(FlattenSeq(seqs), h, i, s, d, "none")
BY FlattenFacts DEF Gives

LEMMA FlattenType ==
    ASSUME NEW C, NEW seqs \in Seq(Seq(C))
    PROVE  /\ FlattenSeq(seqs) \in Seq(C)
           /\ \A n \in DOMAIN seqs : Range(seqs[n]) \subseteq Range(FlattenSeq(seqs))
<1>1. \A h, i, s, d : /\ FlattenSeq(seqs) \in Seq(C)
                      /\ \A n \in DOMAIN seqs : Range(seqs[n]) \subseteq Range(FlattenSeq(seqs))
  BY FlattenFacts
<1> QED
  BY <1>1

LEMMA NoneGives ==
    ASSUME NEW h, NEW i, NEW s, NEW d
    PROVE  Gives(<<>>, h, i, s, d, "none")
BY DEF Gives, Speaks, Silent

LEMMA OneGives ==
    ASSUME NEW c \in Command, NEW h, NEW i, NEW s, NEW d
    PROVE  <<c>> \in Seq(Command) /\ Gives(<<c>>, h, i, s, d, Answer(c, h, i, s, d))
<1>1. c.rule.verdict # "none"
  BY DEF Command, Rule
<1>2. <<c>> \in Seq(Command) /\ Len(<<c>>) = 1 /\ <<c>>[1] = c /\ 1..1 = {1}
  OBVIOUS
<1>3. CASE Hits(c, h, i, s, d)
  <2>1. \A l \in 1..(1 - 1) : ~Hits(<<c>>[l], h, i, s, d)
    OBVIOUS
  <2>2. Says(<<c>>, h, i, s, d, c.rule.verdict)
    BY <1>2, <1>3, <2>1 DEF Says, Settles
  <2> QED
    BY <1>1, <1>2, <1>3, <2>2 DEF Gives, Answer
<1>4. CASE ~Hits(c, h, i, s, d)
  BY <1>2, <1>4 DEF Gives, Answer, Speaks, Silent
<1> QED
  BY <1>3, <1>4

LEMMA TwoGive ==
    ASSUME NEW a \in Command, NEW b \in Command, NEW h, NEW i, NEW s, NEW d
    PROVE  /\ <<a, b>> \in Seq(Command)
           /\ Gives(<<a, b>>, h, i, s, d, Or(Answer(a, h, i, s, d), Answer(b, h, i, s, d)))
<1>1. <<a>> \in Seq(Command) /\ Gives(<<a>>, h, i, s, d, Answer(a, h, i, s, d))
  BY OneGives
<1>2. <<b>> \in Seq(Command) /\ Gives(<<b>>, h, i, s, d, Answer(b, h, i, s, d))
  BY OneGives
<1>3. /\ <<a>> \o <<b>> \in Seq(Command)
      /\ Gives(<<a>> \o <<b>>, h, i, s, d, Or(Answer(a, h, i, s, d), Answer(b, h, i, s, d)))
  BY <1>1, <1>2, ConcatGives
<1>4. <<a, b>> = <<a>> \o <<b>>
  <2> DEFINE t == <<a>> \o <<b>>
  <2>1. Len(<<a>>) = 1 /\ Len(<<b>>) = 1 /\ <<a>>[1] = a /\ <<b>>[1] = b
    OBVIOUS
  <2>2. t \in Seq(Command) /\ Len(t) = 2 /\ t[1] = a /\ t[2] = b
    BY <1>1, <1>2, <2>1, ConcatProperties
  <2>3. <<a, b>> \in Seq(Command) /\ Len(<<a, b>>) = 2 /\ <<a, b>>[1] = a /\ <<a, b>>[2] = b
    OBVIOUS
  <2> HIDE DEF t
  <2>4. \A k \in 1..2 : <<a, b>>[k] = t[k]
    BY <2>2, <2>3
  <2>5. <<a, b>> = t
    BY <2>2, <2>3, <2>4, SeqEqual
  <2> QED
    BY <2>5 DEF t
<1> QED
  BY <1>3, <1>4

LEMMA ThreeGive ==
    ASSUME NEW a \in Command, NEW b \in Command, NEW c \in Command, NEW h, NEW i, NEW s, NEW d
    PROVE  /\ <<a, b, c>> \in Seq(Command)
           /\ Gives(<<a, b, c>>, h, i, s, d,
                    Or(Or(Answer(a, h, i, s, d), Answer(b, h, i, s, d)), Answer(c, h, i, s, d)))
<1> DEFINE x == Or(Answer(a, h, i, s, d), Answer(b, h, i, s, d))
<1>1. <<a, b>> \in Seq(Command) /\ Gives(<<a, b>>, h, i, s, d, x)
  BY TwoGive
<1>2. <<c>> \in Seq(Command) /\ Gives(<<c>>, h, i, s, d, Answer(c, h, i, s, d))
  BY OneGives
<1>3. <<a, b, c>> = <<a, b>> \o <<c>>
  OBVIOUS
<1> HIDE DEF x
<1>4. /\ <<a, b>> \o <<c>> \in Seq(Command)
      /\ Gives(<<a, b>> \o <<c>>, h, i, s, d, Or(x, Answer(c, h, i, s, d)))
  BY <1>1, <1>2, ConcatGives
<1> QED
  BY <1>3, <1>4 DEF x

LEMMA AppendAnswers ==
    ASSUME NEW t \in {"raw", "forward", "nat"}, NEW f \in Range(Families), NEW v \in Verdicts,
           NEW i \in Names \cup {None}, NEW from \in SUBSET Sources, NEW to \in SUBSET Destinations
    PROVE  /\ Append1(t, f, v, i, from, to) \in Command
           /\ \A u, g, j, s, d :
                Answer(Append1(t, f, v, i, from, to), Hook(u, g), j, s, d) =
                    IF /\ t = u /\ f = g
                       /\ v = "return" \/ (v # "established" /\ i = j /\ s \in from /\ d \in to)
                    THEN v ELSE "none"
<1>1. Append1(t, f, v, i, from, to) \in Command
  BY DEF Append1, Command, Rule, Hooks, Verdicts
<1>2. ASSUME NEW u, NEW g PROVE Hook(t, f) = Hook(u, g) <=> t = u /\ f = g
  <2>1. Hook(t, f).table = t /\ Hook(t, f).family = f /\ Hook(u, g).table = u /\ Hook(u, g).family = g
    BY DEF Hook
  <2> QED
    BY <2>1
<1>3. /\ Append1(t, f, v, i, from, to).hook = Hook(t, f)
      /\ Append1(t, f, v, i, from, to).rule.verdict = v
      /\ Append1(t, f, v, i, from, to).rule.iface = i
      /\ Append1(t, f, v, i, from, to).rule.from = from
      /\ Append1(t, f, v, i, from, to).rule.to = to
  BY DEF Append1
<1> QED
  BY <1>1, <1>2, <1>3 DEF Answer, Hits, Matches

LEMMA ClientGives ==
    ASSUME NEW i \in Names, NEW p \in Policy, NEW f \in Range(Families),
           NEW u \in {"raw", "forward"}, NEW g, NEW j, NEW s, NEW d,
           NEW cs, cs = << Append1("raw", f, "accept", i, {Client}, p.docker),
                           Append1("forward", f, "accept", i, {Client}, p.docker \cup p.lan) >>
    PROVE  /\ cs \in Seq(Command)
           /\ Gives(cs, Hook(u, g), j, s, d,
                    IF /\ j = i /\ g = f /\ s = Client
                       /\ d \in IF u = "raw" THEN p.docker ELSE p.docker \cup p.lan
                    THEN "accept" ELSE "none")
<1> DEFINE a == Append1("raw", f, "accept", i, {Client}, p.docker)
           b == Append1("forward", f, "accept", i, {Client}, p.docker \cup p.lan)
           h == Hook(u, g)
<1>1. {Client} \in SUBSET Sources /\ p.docker \in SUBSET Destinations
      /\ p.docker \cup p.lan \in SUBSET Destinations /\ "accept" \in Verdicts
  BY DEF Sources, Destinations, Policy, Verdicts
<1>2. /\ a \in Command
      /\ Answer(a, h, j, s, d) = IF "raw" = u /\ f = g /\ i = j /\ s \in {Client} /\ d \in p.docker
                                 THEN "accept" ELSE "none"
  BY <1>1, AppendAnswers
<1>3. /\ b \in Command
      /\ Answer(b, h, j, s, d) =
           IF "forward" = u /\ f = g /\ i = j /\ s \in {Client} /\ d \in p.docker \cup p.lan
           THEN "accept" ELSE "none"
  BY <1>1, AppendAnswers
<1> HIDE DEF a, b, h
<1>4. cs = <<a, b>>
  BY DEF a, b
<1>5. cs \in Seq(Command) /\ Gives(cs, h, j, s, d, Or(Answer(a, h, j, s, d), Answer(b, h, j, s, d)))
  BY <1>2, <1>3, <1>4, TwoGive
<1>6. Or(Answer(a, h, j, s, d), Answer(b, h, j, s, d)) =
        IF /\ j = i /\ g = f /\ s = Client
           /\ d \in IF u = "raw" THEN p.docker ELSE p.docker \cup p.lan
        THEN "accept" ELSE "none"
  BY <1>2, <1>3 DEF Or
<1> QED
  BY <1>5, <1>6 DEF h

LEMMA InternetGives ==
    ASSUME NEW i \in Names, NEW p \in Policy, NEW f \in Range(Families),
           NEW u \in {"raw", "forward"}, NEW g, NEW j, NEW s, NEW d,
           NEW cs, cs = InternetCommands(i, p, f)
    PROVE  /\ cs \in Seq(Command)
           /\ Throw1 \notin Range(cs) =>
                Gives(cs, Hook(u, g), j, s, d,
                      IF /\ j = i /\ g = f /\ s = Client
                         /\ u = "forward" /\ f \in p.internet /\ d = Internet
                      THEN "accept" ELSE "none")
<1> DEFINE a == Append1("forward", f, "accept", i, {Client}, {Internet})
           b == Append1("nat", f, "masquerade", i, {Client}, {Internet})
           h == Hook(u, g)
<1>1. {Client} \in SUBSET Sources /\ {Internet} \in SUBSET Destinations
      /\ "accept" \in Verdicts /\ "masquerade" \in Verdicts
  BY DEF Sources, Destinations, Verdicts
<1>2. /\ a \in Command
      /\ Answer(a, h, j, s, d) =
           IF "forward" = u /\ f = g /\ i = j /\ s \in {Client} /\ d \in {Internet}
           THEN "accept" ELSE "none"
  BY <1>1, AppendAnswers
<1>3. b \in Command /\ Answer(b, h, j, s, d) = "none"
  BY <1>1, AppendAnswers
<1> HIDE DEF a, b, h
<1>4. CASE f \notin p.internet
  <2>1. cs = <<>>
    BY <1>4 DEF InternetCommands
  <2> QED
    BY <1>4, <2>1, NoneGives, EmptySeq DEF h
<1>5. CASE f \in p.internet /\ f \notin p.wan
  <2>1. cs = <<Throw1>>
    BY <1>5 DEF InternetCommands
  <2>2. Throw1 \in Command
    BY DEF Throw1, Command, Rule
  <2>3. <<Throw1>> \in Seq(Command) /\ Throw1 \in Range(<<Throw1>>)
    BY <2>2 DEF Range
  <2> QED
    BY <2>1, <2>3
<1>6. CASE f \in p.internet /\ f \in p.wan
  <2> DEFINE rest == IF f \in p.nat THEN <<b>> ELSE <<>>
  <2>1. cs = <<a>> \o rest
    BY <1>6 DEF InternetCommands, a, b
  <2>2. <<a>> \in Seq(Command) /\ Gives(<<a>>, h, j, s, d, Answer(a, h, j, s, d))
    BY <1>2, OneGives
  <2>3. rest \in Seq(Command) /\ Gives(rest, h, j, s, d, "none")
    <3>1. <<b>> \in Seq(Command) /\ Gives(<<b>>, h, j, s, d, Answer(b, h, j, s, d))
      BY <1>3, OneGives
    <3>2. <<>> \in Seq(Command) /\ Gives(<<>>, h, j, s, d, "none")
      BY NoneGives, EmptySeq
    <3> QED
      BY <1>3, <3>1, <3>2
  <2> HIDE DEF rest
  <2>4. cs \in Seq(Command) /\ Gives(cs, h, j, s, d, Or(Answer(a, h, j, s, d), "none"))
    <3>1. ASSUME NEW y, Gives(rest, h, j, s, d, y)
          PROVE  /\ <<a>> \o rest \in Seq(Command)
                 /\ Gives(<<a>> \o rest, h, j, s, d, Or(Answer(a, h, j, s, d), y))
      BY <2>2, <2>3, <3>1, ConcatGives
    <3> QED
      BY <2>1, <2>3, <3>1
  <2>5. Or(Answer(a, h, j, s, d), "none") =
          IF /\ j = i /\ g = f /\ s = Client
             /\ u = "forward" /\ f \in p.internet /\ d = Internet
          THEN "accept" ELSE "none"
    BY <1>2, <1>6 DEF Or
  <2> QED
    BY <2>4, <2>5 DEF h
<1> QED
  BY <1>4, <1>5, <1>6

\* SetToSeq puts the elements of a finite set in an order.
LEMMA SetToSeqFacts ==
    ASSUME NEW S, IsFiniteSet(S)
    PROVE  /\ SetToSeq(S) \in Seq(S)
           /\ \A n, m \in DOMAIN SetToSeq(S) : SetToSeq(S)[n] = SetToSeq(S)[m] => n = m
           /\ \A x \in S : \E n \in DOMAIN SetToSeq(S) : SetToSeq(S)[n] = x
<1> DEFINE N == Cardinality(S)
<1>1. N \in Nat /\ ExistsBijection(1..N, S)
  BY FS_CardinalityType
<1>2. PICK g : g \in Bijection(1..N, S)
  BY <1>1 DEF ExistsBijection
<1>3. g \in [1..N -> S] /\ IsInjective(g)
  BY <1>2 DEF Bijection, Injection, Surjection
<1> DEFINE f == SetToSeq(S)
<1>4. f \in [1..N -> S] /\ IsInjective(f)
  BY <1>3 DEF SetToSeq
<1> HIDE DEF f
<1>5. IsFiniteSet(1..N) /\ Cardinality(1..N) = N
  BY <1>1, FS_Interval
<1>6. f \in Injection(1..N, S)
  BY <1>4 DEF Injection
<1>7. f \in Surjection(1..N, S)
  BY <1>5, <1>6, FS_Injection
<1>8. \A x \in S : \E n \in 1..N : f[n] = x
  BY <1>7 DEF Surjection
<1>9. f \in Seq(S) /\ DOMAIN f = 1..N
  BY <1>1, <1>4
<1> QED
  BY <1>4, <1>8, <1>9 DEF f, IsInjective

LEMMA SiteGives ==
    ASSUME NEW i \in Names, NEW p \in Policy, NEW f \in Range(Families),
           NEW u \in {"raw", "forward"}, NEW g, NEW j, NEW s, NEW d \in Destinations,
           NEW cs, cs = SiteCommands(i, p, f)
    PROVE  /\ cs \in Seq(Command)
           /\ Gives(cs, Hook(u, g), j, s, d,
                    IF j = i /\ g = f /\ s \in p.sites
                    THEN IF d \in p.docker \/ (u = "forward" /\ d \in p.lan) THEN "accept"
                         ELSE IF u = "forward" THEN "drop" ELSE "none"
                    ELSE "none")
<1> DEFINE list == SetToSeq(p.sites)
           h == Hook(u, g)
           a(n) == Append1("raw", f, "accept", i, {list[n]}, p.docker)
           b(n) == Append1("forward", f, "accept", i, {list[n]}, p.docker \cup p.lan)
           c(n) == Append1("forward", f, "drop", i, {list[n]}, Destinations)
           parts == [n \in DOMAIN list |-> <<a(n), b(n), c(n)>>]
           Wanted == IF d \in p.docker \/ (u = "forward" /\ d \in p.lan) THEN "accept"
                     ELSE IF u = "forward" THEN "drop" ELSE "none"
<1>1. p.sites \in SUBSET Sites /\ IsFiniteSet(p.sites)
  <2>1. p.sites \in SUBSET Sites /\ IsFiniteSet(Sites)
    BY PoliciesAssumption DEF Policy
  <2> QED
    BY <2>1, FS_Subset
<1>2. /\ list \in Seq(p.sites) /\ DOMAIN list = 1..Len(list) /\ Len(list) \in Nat
      /\ \A n, m \in DOMAIN list : list[n] = list[m] => n = m
      /\ \A x \in p.sites : \E n \in DOMAIN list : list[n] = x
      /\ \A n \in DOMAIN list : list[n] \in p.sites
  BY <1>1, SetToSeqFacts, LenProperties, ElementOfSeq
<1> HIDE DEF list
<1>3. ASSUME NEW n \in DOMAIN list
      PROVE  /\ <<a(n), b(n), c(n)>> \in Seq(Command)
             /\ Gives(<<a(n), b(n), c(n)>>, h, j, s, d,
                      IF j = i /\ g = f /\ s = list[n] THEN Wanted ELSE "none")
  <2>1. /\ {list[n]} \in SUBSET Sources /\ p.docker \in SUBSET Destinations
        /\ p.docker \cup p.lan \in SUBSET Destinations /\ Destinations \in SUBSET Destinations
        /\ "accept" \in Verdicts /\ "drop" \in Verdicts
    BY <1>1, <1>2 DEF Sources, Destinations, Policy, Verdicts
  <2>2. /\ a(n) \in Command
        /\ Answer(a(n), h, j, s, d) =
             IF "raw" = u /\ f = g /\ i = j /\ s \in {list[n]} /\ d \in p.docker
             THEN "accept" ELSE "none"
    BY <2>1, AppendAnswers
  <2>3. /\ b(n) \in Command
        /\ Answer(b(n), h, j, s, d) =
             IF "forward" = u /\ f = g /\ i = j /\ s \in {list[n]} /\ d \in p.docker \cup p.lan
             THEN "accept" ELSE "none"
    <3>1. ASSUME NEW to \in SUBSET Destinations
          PROVE  /\ Append1("forward", f, "accept", i, {list[n]}, to) \in Command
                 /\ Answer(Append1("forward", f, "accept", i, {list[n]}, to), h, j, s, d) =
                      IF "forward" = u /\ f = g /\ i = j /\ s \in {list[n]} /\ d \in to
                      THEN "accept" ELSE "none"
      BY <2>1, AppendAnswers
    <3> QED
      BY <2>1, <3>1
  <2>4. /\ c(n) \in Command
        /\ Answer(c(n), h, j, s, d) =
             IF "forward" = u /\ f = g /\ i = j /\ s \in {list[n]} /\ d \in Destinations
             THEN "drop" ELSE "none"
    BY <2>1, AppendAnswers
  <2> HIDE DEF a, b, c, h
  <2>5. /\ <<a(n), b(n), c(n)>> \in Seq(Command)
        /\ Gives(<<a(n), b(n), c(n)>>, h, j, s, d,
                 Or(Or(Answer(a(n), h, j, s, d), Answer(b(n), h, j, s, d)), Answer(c(n), h, j, s, d)))
    BY <2>2, <2>3, <2>4, ThreeGive
  <2>6. Or(Or(Answer(a(n), h, j, s, d), Answer(b(n), h, j, s, d)), Answer(c(n), h, j, s, d))
          = IF j = i /\ g = f /\ s = list[n] THEN Wanted ELSE "none"
    BY <2>2, <2>3, <2>4 DEF Or
  <2> QED
    BY <2>5, <2>6
<1>4. cs = FlattenSeq(parts)
  BY DEF SiteCommands, list
<1> HIDE DEF a, b, c, Wanted
<1>5. parts \in Seq(Seq(Command)) /\ DOMAIN parts = DOMAIN list
  <2>1. parts = [n \in 1..Len(list) |-> <<a(n), b(n), c(n)>>]
    BY <1>2
  <2>2. \A n \in 1..Len(list) : <<a(n), b(n), c(n)>> \in Seq(Command)
    BY <1>2, <1>3
  <2>3. parts \in Seq(Seq(Command))
    BY <1>2, <2>1, <2>2
  <2> QED
    BY <2>3
<1>6. \A n \in DOMAIN list :
        Gives(parts[n], h, j, s, d, IF j = i /\ g = f /\ s = list[n] THEN Wanted ELSE "none")
  BY <1>3
<1> HIDE DEF parts, h
<1>7. cs \in Seq(Command)
  BY <1>4, <1>5, FlattenType
<1>8. CASE j = i /\ g = f /\ s \in p.sites
  <2>1. PICK m \in DOMAIN list : list[m] = s
    BY <1>2, <1>8
  <2>2. m \in DOMAIN parts /\ Gives(parts[m], h, j, s, d, Wanted)
    BY <1>5, <1>6, <1>8, <2>1
  <2>3. \A n \in DOMAIN parts : n # m => Gives(parts[n], h, j, s, d, "none")
    <3>1. \A n \in DOMAIN parts : n # m => s # list[n]
      BY <1>2, <1>5, <2>1
    <3> QED
      BY <1>5, <1>6, <3>1
  <2>4. Gives(cs, h, j, s, d, Wanted)
    BY <1>4, <1>5, <2>2, <2>3, FlattenGives
  <2> QED
    BY <1>7, <1>8, <2>4 DEF Wanted, h
<1>9. CASE ~(j = i /\ g = f /\ s \in p.sites)
  <2>1. \A n \in DOMAIN parts : Gives(parts[n], h, j, s, d, "none")
    BY <1>2, <1>5, <1>6, <1>9
  <2>2. Gives(cs, h, j, s, d, "none")
    BY <1>4, <1>5, <2>1, FlattenSilent
  <2> QED
    BY <1>7, <1>9, <2>2 DEF h
<1> QED
  BY <1>8, <1>9

\* What the commands for one interface and family decide in the forward chain.
Wish(p, f, s, d) ==
    IF s \notin p.sites \cup {Client} THEN "none"
    ELSE IF Selected(p, f, s, d) THEN "accept" ELSE "drop"

\* And in the raw chain.
Bypass(p, s, d) == IF s \in p.sites \cup {Client} /\ d \in p.docker THEN "accept" ELSE "none"

Share(p, f, u, s, d) == IF u = "forward" THEN Wish(p, f, s, d) ELSE Bypass(p, s, d)

LEMMA InterfaceGives ==
    ASSUME NEW i \in Names, NEW p \in Policy, NEW f \in Range(Families),
           NEW u \in {"raw", "forward"}, NEW g, NEW j,
           NEW s \in Sources, NEW d \in Destinations,
           NEW cs, cs = InterfaceCommands(i, p, f)
    PROVE  /\ cs \in Seq(Command)
           /\ Throw1 \notin Range(cs) =>
                Gives(cs, Hook(u, g), j, s, d,
                      IF j = i /\ g = f THEN Share(p, f, u, s, d) ELSE "none")
<1> DEFINE h == Hook(u, g)
           client == << Append1("raw", f, "accept", i, {Client}, p.docker),
                        Append1("forward", f, "accept", i, {Client}, p.docker \cup p.lan) >>
           net == InternetCommands(i, p, f)
           site == SiteCommands(i, p, f)
           c == Append1("forward", f, "drop", i, {Client}, Destinations)
           w == IF /\ j = i /\ g = f /\ s = Client
                   /\ d \in IF u = "raw" THEN p.docker ELSE p.docker \cup p.lan
                THEN "accept" ELSE "none"
           x == IF /\ j = i /\ g = f /\ s = Client
                   /\ u = "forward" /\ f \in p.internet /\ d = Internet
                THEN "accept" ELSE "none"
           y == IF j = i /\ g = f /\ s \in p.sites
                THEN IF d \in p.docker \/ (u = "forward" /\ d \in p.lan) THEN "accept"
                     ELSE IF u = "forward" THEN "drop" ELSE "none"
                ELSE "none"
           z == IF j = i /\ g = f /\ s = Client /\ u = "forward" THEN "drop" ELSE "none"
<1>1. client \in Seq(Command) /\ Gives(client, h, j, s, d, w)
  <2>1. \A q : q = client => q \in Seq(Command) /\ Gives(q, h, j, s, d, w)
    BY Zenon, ClientGives
  <2> QED
    BY <2>1
<1>2. net \in Seq(Command) /\ (Throw1 \notin Range(net) => Gives(net, h, j, s, d, x))
  BY InternetGives
<1>3. site \in Seq(Command) /\ Gives(site, h, j, s, d, y)
  <2>1. \A q : q = site => q \in Seq(Command) /\ Gives(q, h, j, s, d, y)
    BY Zenon, SiteGives
  <2> QED
    BY <2>1
<1>4. <<c>> \in Seq(Command) /\ Gives(<<c>>, h, j, s, d, z)
  <2>1. {Client} \in SUBSET Sources /\ Destinations \in SUBSET Destinations /\ "drop" \in Verdicts
    BY DEF Sources, Verdicts
  <2>2. c \in Command /\ Answer(c, h, j, s, d) =
          IF "forward" = u /\ f = g /\ i = j /\ s \in {Client} /\ d \in Destinations
          THEN "drop" ELSE "none"
    BY <2>1, AppendAnswers
  <2>3. Answer(c, h, j, s, d) = z
    BY <2>2
  <2> HIDE DEF c, z, h
  <2> QED
    BY <2>2, <2>3, OneGives
<1>5. cs = ((client \o net) \o site) \o <<c>>
  BY DEF InterfaceCommands
<1>6. /\ client \o net \in Seq(Command) /\ (client \o net) \o site \in Seq(Command)
      /\ cs \in Seq(Command)
  <2> HIDE DEF client, net, site, c
  <2>1. client \o net \in Seq(Command)
    BY <1>1, <1>2, ConcatProperties
  <2>2. (client \o net) \o site \in Seq(Command)
    BY <1>3, <2>1, ConcatProperties
  <2> QED
    BY <1>4, <1>5, <2>1, <2>2, ConcatProperties
<1>7. ASSUME Throw1 \notin Range(cs)
      PROVE  Gives(cs, h, j, s, d, Or(Or(Or(w, x), y), z))
  <2> HIDE DEF client, net, site, c, w, x, y, z, h
  <2>1. Range(net) \subseteq Range(client \o net)
    BY <1>1, <1>2, ConcatFacts
  <2>2. Range(client \o net) \subseteq Range((client \o net) \o site)
    BY <1>3, <1>6, ConcatFacts
  <2>3. Range((client \o net) \o site) \subseteq Range(cs)
    BY <1>4, <1>5, <1>6, ConcatFacts
  <2>4. Gives(net, h, j, s, d, x)
    BY <1>2, <1>7, <2>1, <2>2, <2>3
  <2>5. Gives(client \o net, h, j, s, d, Or(w, x))
    BY <1>1, <1>2, <2>4, ConcatGives
  <2>6. Gives((client \o net) \o site, h, j, s, d, Or(Or(w, x), y))
    BY <1>3, <1>6, <2>5, ConcatGives
  <2>7. Gives(((client \o net) \o site) \o <<c>>, h, j, s, d, Or(Or(Or(w, x), y), z))
    BY <1>4, <1>6, <2>6, ConcatGives
  <2> QED
    BY <1>5, <2>7
<1>8. Or(Or(Or(w, x), y), z) = IF j = i /\ g = f THEN Share(p, f, u, s, d) ELSE "none"
  <2>1. p.sites \subseteq Sites /\ p.docker \cup p.lan \subseteq Resources
    BY DEF Policy
  <2>2. Client \notin p.sites /\ Internet \notin p.docker /\ Internet \notin p.lan
    BY <2>1, PoliciesAssumption
  <2>3. CASE ~(j = i /\ g = f)
    BY <2>3 DEF Or
  <2>4. CASE j = i /\ g = f /\ u = "raw"
    BY <2>2, <2>4 DEF Or, Share, Bypass
  <2>5. CASE j = i /\ g = f /\ u = "forward"
    BY <2>2, <2>5 DEF Or, Share, Wish, Selected
  <2> QED
    BY <2>3, <2>4, <2>5
<1> QED
  BY <1>6, <1>7, <1>8

LEMMA EveryoneGives ==
    ASSUME NEW t \in {"raw", "forward"}, NEW v \in {"established", "return"},
           NEW u \in {"raw", "forward"}, NEW g \in Range(Families), NEW j, NEW s, NEW d,
           NEW cs, cs = Everyone(t, v)
    PROVE  /\ cs \in Seq(Command) /\ Len(cs) = Len(Families)
           /\ Gives(cs, Hook(u, g), j, s, d, IF v = "return" /\ t = u THEN "return" ELSE "none")
<1> DEFINE c(n) == Append1(t, Families[n], v, None, {}, {})
           h == Hook(u, g)
<1>1. ASSUME NEW n \in 1..Len(Families)
      PROVE  /\ c(n) \in Command
             /\ Answer(c(n), h, j, s, d) =
                  IF t = u /\ Families[n] = g /\ v = "return" THEN v ELSE "none"
  <2>1. {} \in SUBSET Sources /\ {} \in SUBSET Destinations /\ v \in Verdicts
    BY DEF Verdicts
  <2>2. Families[n] \in Range(Families)
    BY FamiliesFacts
  <2>3. /\ c(n) \in Command
        /\ Answer(c(n), h, j, s, d) =
             IF /\ t = u /\ Families[n] = g
                /\ v = "return" \/ (v # "established" /\ None = j /\ s \in {} /\ d \in {})
             THEN v ELSE "none"
    <3>1. ASSUME NEW from \in SUBSET Sources, NEW to \in SUBSET Destinations, NEW f, f = Families[n]
          PROVE
            /\ Append1(t, f, v, None, from, to) \in Command
            /\ Answer(Append1(t, f, v, None, from, to), h, j, s, d) =
                 IF /\ t = u /\ f = g
                    /\ v = "return" \/ (v # "established" /\ None = j /\ s \in from /\ d \in to)
                 THEN v ELSE "none"
      <4>1. t \in {"raw", "forward", "nat"} /\ None \in Names \cup {None}
        OBVIOUS
      <4>2. f \in Range(Families)
        BY <2>2, <3>1
      <4> QED
        BY <2>1, <4>1, <4>2, AppendAnswers
    <3> QED
      BY <2>1, <3>1
  <2> QED
    BY <2>3
<1>2. cs = [n \in 1..Len(Families) |-> c(n)] /\ Len(Families) \in Nat
  BY FamiliesFacts DEF Everyone
<1> HIDE DEF c, h
<1>3. cs \in Seq(Command) /\ Len(cs) = Len(Families) /\ \A n \in 1..Len(Families) : cs[n] = c(n)
  BY <1>1, <1>2
<1>4. \A n \in 1..Len(Families) :
        Hits(c(n), h, j, s, d) <=> t = u /\ Families[n] = g /\ v = "return"
  <2>1. ASSUME NEW n \in 1..Len(Families)
        PROVE  Hits(c(n), h, j, s, d) <=> t = u /\ Families[n] = g /\ v = "return"
    <3>1. c(n).rule.verdict = v
      BY DEF c, Append1
    <3> QED
      BY <1>1, <3>1 DEF Answer
  <2> QED
    BY <2>1
<1>5. CASE v = "return" /\ t = u
  <2>1. PICK n \in 1..Len(Families) : g = Families[n]
    BY FamiliesFacts
  <2>2. Hits(cs[n], h, j, s, d) /\ cs[n].rule.verdict = "return"
    <3>1. c(n).rule.verdict = v
      BY DEF c, Append1
    <3> QED
      BY <1>3, <1>4, <1>5, <2>1, <3>1
  <2>3. ASSUME NEW l \in 1..(n - 1) PROVE ~Hits(cs[l], h, j, s, d)
    <3>1. l \in 1..Len(Families) /\ l # n
      BY <1>2
    <3>2. Families[l] # g
      BY <2>1, <3>1, FamiliesFacts
    <3> QED
      BY <1>3, <1>4, <3>1, <3>2
  <2>4. Says(cs, h, j, s, d, "return")
    BY <1>3, <2>2, <2>3 DEF Says, Settles
  <2> QED
    BY <1>3, <1>5, <2>4 DEF Gives, h
<1>6. CASE ~(v = "return" /\ t = u)
  <2>1. ~Speaks(cs, h, j, s, d)
    BY <1>3, <1>4, <1>6 DEF Speaks, Silent
  <2> QED
    BY <1>3, <1>6, <2>1 DEF Gives, h
<1> QED
  BY <1>5, <1>6

LEMMA RenderingIs ==
    ASSUME NEW conf \in Config
    PROVE  Rendering(conf) = Commands(conf)
<1> DEFINE r == CHOOSE q \in Renderings : q[1] = conf
<1>1. <<conf, Commands(conf)>> \in Renderings /\ <<conf, Commands(conf)>>[1] = conf
  BY DEF Renderings
<1>2. r \in Renderings /\ r[1] = conf
  BY <1>1
<1> HIDE DEF r
<1>3. PICK other \in Config : r = <<other, Commands(other)>>
  BY <1>2 DEF Renderings
<1>4. other = conf
  BY <1>2, <1>3
<1>5. r[2] = Commands(conf)
  BY <1>3, <1>4
<1> QED
  BY <1>5 DEF Rendering, r

LEMMA InterfacesFacts ==
    /\ Len(Interfaces) \in Nat /\ DOMAIN Interfaces = 1..Len(Interfaces)
    /\ \A n \in 1..Len(Interfaces) : Interfaces[n] \in Names
    /\ \A n, m \in 1..Len(Interfaces) : Interfaces[n] = Interfaces[m] => n = m
    /\ \A i \in Names : \E n \in 1..Len(Interfaces) : i = Interfaces[n]
<1>1. Interfaces \in Seq(Names) /\ IsInjective(Interfaces)
  BY PoliciesAssumption
<1>2. Len(Interfaces) \in Nat /\ DOMAIN Interfaces = 1..Len(Interfaces)
  BY <1>1, LenProperties
<1> QED
  BY <1>1, <1>2 DEF IsInjective, Range, Names

LEMMA ServedPolicy ==
    ASSUME NEW conf \in Config, NEW i \in Names, NEW f, Serves(conf, i, f)
    PROVE  conf[i] \in Policy
<1>1. conf[i] \in Policies \cup {None} /\ conf[i] # None
  BY DEF Config, Serves, Active
<1> QED
  BY <1>1, PoliciesAssumption

\* What a rendering decides, if no policy makes it fail.
Decision(conf, u, i, f, s, d) ==
    Or(IF Serves(conf, i, f) THEN Share(conf[i], f, u, s, d) ELSE "none", "return")

LEMMA CommandsGive ==
    ASSUME NEW conf \in Config, NEW u \in {"raw", "forward"}, NEW g \in Range(Families),
           NEW j, NEW s \in Sources, NEW d \in Destinations
    PROVE  /\ Commands(conf) \in Seq(Command) /\ Commands(conf) # <<>>
           /\ j \in Names /\ Throw1 \notin Range(Commands(conf)) =>
                Gives(Commands(conf), Hook(u, g), j, s, d, Decision(conf, u, j, g, s, d))
<1> DEFINE h == Hook(u, g)
           Cell(n, k) == IF Serves(conf, Interfaces[n], Families[k])
                         THEN InterfaceCommands(Interfaces[n], conf[Interfaces[n]], Families[k])
                         ELSE <<>>
           row(n) == [k \in DOMAIN Families |-> Cell(n, k)]
           table == [n \in DOMAIN Interfaces |-> FlattenSeq(row(n))]
           middle == FlattenSeq(table)
           x == IF Serves(conf, j, g) THEN Share(conf[j], g, u, s, d) ELSE "none"
           start == Everyone("forward", "established")
           raw == Everyone("raw", "return")
           forward == Everyone("forward", "return")
<1>1. Commands(conf) = ((start \o middle) \o raw) \o forward
  BY DEF Commands
<1>2. ASSUME NEW n \in 1..Len(Interfaces), NEW k \in 1..Len(Families)
      PROVE  /\ Cell(n, k) \in Seq(Command)
             /\ Throw1 \notin Range(Cell(n, k)) =>
                  Gives(Cell(n, k), h, j, s, d,
                        IF j = Interfaces[n] /\ g = Families[k] THEN x ELSE "none")
  <2> DEFINE i == Interfaces[n]  f == Families[k]
  <2>1. i \in Names /\ f \in Range(Families)
    BY FamiliesFacts, InterfacesFacts
  <2> HIDE DEF i, f
  <2>2. CASE Serves(conf, i, f)
    <3>1. conf[i] \in Policy
      BY <2>1, <2>2, ServedPolicy
    <3>2. Cell(n, k) = InterfaceCommands(i, conf[i], f)
      BY <2>2 DEF i, f
    <3> HIDE DEF Cell, h, x
    <3>3. /\ Cell(n, k) \in Seq(Command)
          /\ Throw1 \notin Range(Cell(n, k)) =>
                Gives(Cell(n, k), Hook(u, g), j, s, d,
                      IF j = i /\ g = f THEN Share(conf[i], f, u, s, d) ELSE "none")
      BY <2>1, <3>1, <3>2, InterfaceGives
    <3>4. (IF j = i /\ g = f THEN Share(conf[i], f, u, s, d) ELSE "none")
            = IF j = i /\ g = f THEN x ELSE "none"
      BY <2>2 DEF x
    <3> QED
      BY <3>3, <3>4 DEF h, i, f
  <2>3. CASE ~Serves(conf, i, f)
    <3>1. Cell(n, k) = <<>>
      BY <2>3 DEF i, f
    <3>2. (IF j = i /\ g = f THEN x ELSE "none") = "none"
      BY <2>3
    <3> HIDE DEF Cell, h, x
    <3> QED
      BY <3>1, <3>2, NoneGives, EmptySeq DEF i, f
  <2> QED
    BY <2>2, <2>3
<1> HIDE DEF Cell
<1>3. ASSUME NEW n \in 1..Len(Interfaces)
      PROVE  /\ row(n) \in Seq(Seq(Command)) /\ DOMAIN row(n) = 1..Len(Families)
             /\ \A k \in 1..Len(Families) : row(n)[k] = Cell(n, k)
             /\ FlattenSeq(row(n)) \in Seq(Command)
  <2>1. row(n) = [k \in 1..Len(Families) |-> Cell(n, k)] /\ Len(Families) \in Nat
    BY FamiliesFacts
  <2>2. \A k \in 1..Len(Families) : Cell(n, k) \in Seq(Command)
    BY <1>2
  <2> HIDE DEF row
  <2>3. row(n) \in Seq(Seq(Command)) /\ DOMAIN row(n) = 1..Len(Families)
    BY <2>1, <2>2
  <2> QED
    BY <2>1, <2>3, FlattenType
<1> HIDE DEF row
<1>4. /\ table \in Seq(Seq(Command)) /\ DOMAIN table = 1..Len(Interfaces)
      /\ \A n \in 1..Len(Interfaces) : table[n] = FlattenSeq(row(n))
      /\ middle \in Seq(Command)
  <2>1. table = [n \in 1..Len(Interfaces) |-> FlattenSeq(row(n))] /\ Len(Interfaces) \in Nat
    BY InterfacesFacts
  <2>2. \A n \in 1..Len(Interfaces) : FlattenSeq(row(n)) \in Seq(Command)
    BY <1>3
  <2> HIDE DEF table
  <2>3. table \in Seq(Seq(Command)) /\ DOMAIN table = 1..Len(Interfaces)
    BY <2>1, <2>2
  <2> QED
    BY <2>1, <2>3, FlattenType
<1> HIDE DEF table
<1>5. /\ start \in Seq(Command) /\ Len(start) = Len(Families) /\ Gives(start, h, j, s, d, "none")
      /\ raw \in Seq(Command)
      /\ Gives(raw, h, j, s, d, IF u = "raw" THEN "return" ELSE "none")
      /\ forward \in Seq(Command)
      /\ Gives(forward, h, j, s, d, IF u = "forward" THEN "return" ELSE "none")
  <2>1. \A t \in {"raw", "forward"}, v \in {"established", "return"} :
          /\ Everyone(t, v) \in Seq(Command) /\ Len(Everyone(t, v)) = Len(Families)
          /\ Gives(Everyone(t, v), h, j, s, d, IF v = "return" /\ t = u THEN "return" ELSE "none")
    BY EveryoneGives
  <2> HIDE DEF h
  <2>2. /\ start \in Seq(Command) /\ Len(start) = Len(Families)
        /\ Gives(start, h, j, s, d, IF "established" = "return" /\ "forward" = u THEN "return" ELSE "none")
    BY <2>1
  <2>3. raw \in Seq(Command) /\ Gives(raw, h, j, s, d, IF "return" = "return" /\ "raw" = u THEN "return" ELSE "none")
    BY <2>1
  <2>4. forward \in Seq(Command) /\ Gives(forward, h, j, s, d, IF "return" = "return" /\ "forward" = u THEN "return" ELSE "none")
    BY <2>1
  <2> QED
    BY <2>2, <2>3, <2>4
<1> HIDE DEF middle, start, raw, forward
<1>6. /\ start \o middle \in Seq(Command) /\ (start \o middle) \o raw \in Seq(Command)
      /\ Commands(conf) \in Seq(Command) /\ Len(Commands(conf)) # 0
  <2>1. start \o middle \in Seq(Command) /\ Len(start \o middle) = Len(start) + Len(middle)
    BY <1>4, <1>5, ConcatProperties
  <2>2. /\ (start \o middle) \o raw \in Seq(Command)
        /\ Len((start \o middle) \o raw) = (Len(start) + Len(middle)) + Len(raw)
    <3> DEFINE front == start \o middle
    <3>1. front \in Seq(Command) /\ Len(front) = Len(start) + Len(middle)
      BY <2>1
    <3> HIDE DEF front
    <3>2. front \o raw \in Seq(Command) /\ Len(front \o raw) = Len(front) + Len(raw)
      BY <1>5, <3>1, ConcatProperties
    <3> QED
      BY <3>1, <3>2 DEF front
  <2>3. /\ Commands(conf) \in Seq(Command)
        /\ Len(Commands(conf)) = ((Len(start) + Len(middle)) + Len(raw)) + Len(forward)
    <3> DEFINE front == (start \o middle) \o raw
    <3>1. front \in Seq(Command) /\ Len(front) = (Len(start) + Len(middle)) + Len(raw)
      BY <2>2
    <3>2. Commands(conf) = front \o forward
      BY <1>1
    <3> HIDE DEF front
    <3>3. front \o forward \in Seq(Command) /\ Len(front \o forward) = Len(front) + Len(forward)
      BY <1>5, <3>1, ConcatProperties
    <3> QED
      BY <3>1, <3>2, <3>3
  <2>4. Len(start) \in Nat \ {0} /\ Len(middle) \in Nat /\ Len(raw) \in Nat /\ Len(forward) \in Nat
    BY <1>4, <1>5, FamiliesFacts, LenProperties
  <2> QED
    BY <2>1, <2>2, <2>3, <2>4
<1>7. Commands(conf) # <<>>
  BY <1>6, EmptySeq
<1>8. ASSUME j \in Names, Throw1 \notin Range(Commands(conf))
      PROVE  Gives(Commands(conf), h, j, s, d, Decision(conf, u, j, g, s, d))
  <2> HIDE DEF h, x
  <2>1. Range(middle) \subseteq Range(Commands(conf))
    <3>1. Range(middle) \subseteq Range(start \o middle)
      BY <1>4, <1>5, ConcatFacts
    <3>2. Range(start \o middle) \subseteq Range((start \o middle) \o raw)
      BY <1>5, <1>6, ConcatFacts
    <3>3. Range((start \o middle) \o raw) \subseteq Range(Commands(conf))
      BY <1>1, <1>5, <1>6, ConcatFacts
    <3> QED
      BY <3>1, <3>2, <3>3
  <2>2. ASSUME NEW n \in 1..Len(Interfaces), NEW k \in 1..Len(Families)
        PROVE  Gives(Cell(n, k), h, j, s, d,
                     IF j = Interfaces[n] /\ g = Families[k] THEN x ELSE "none")
    <3>1. Range(Cell(n, k)) \subseteq Range(FlattenSeq(row(n)))
      BY <1>3, FlattenType
    <3>2. Range(FlattenSeq(row(n))) \subseteq Range(middle)
      BY <1>4, FlattenType DEF middle
    <3> QED
      BY <1>2, <1>8, <2>1, <3>1, <3>2
  <2>3. ASSUME NEW n \in 1..Len(Interfaces)
        PROVE  Gives(FlattenSeq(row(n)), h, j, s, d, IF j = Interfaces[n] THEN x ELSE "none")
    <3>1. PICK m \in 1..Len(Families) : g = Families[m]
      BY FamiliesFacts
    <3>2. row(n) \in Seq(Seq(Command)) /\ m \in DOMAIN row(n)
      BY <1>3
    <3>3. Gives(row(n)[m], h, j, s, d, IF j = Interfaces[n] THEN x ELSE "none")
      BY <1>3, <2>2, <3>1
    <3>4. ASSUME NEW k \in DOMAIN row(n), k # m PROVE Gives(row(n)[k], h, j, s, d, "none")
      <4>1. k \in 1..Len(Families) /\ row(n)[k] = Cell(n, k)
        BY <1>3, <3>4
      <4>2. g # Families[k]
        BY <3>1, <3>4, <4>1, FamiliesFacts
      <4>3. (IF j = Interfaces[n] /\ g = Families[k] THEN x ELSE "none") = "none"
        BY <4>2
      <4> QED
        BY <2>2, <4>1, <4>3
    <3> QED
      BY <3>2, <3>3, <3>4, FlattenGives
  <2>4. Gives(middle, h, j, s, d, x)
    <3>1. PICK m \in 1..Len(Interfaces) : j = Interfaces[m]
      BY <1>8, InterfacesFacts
    <3>2. m \in DOMAIN table /\ Gives(table[m], h, j, s, d, x)
      BY <1>4, <2>3, <3>1
    <3>3. ASSUME NEW n \in DOMAIN table, n # m PROVE Gives(table[n], h, j, s, d, "none")
      <4>1. n \in 1..Len(Interfaces) /\ table[n] = FlattenSeq(row(n))
        BY <1>4, <3>3
      <4>2. j # Interfaces[n]
        BY <3>1, <3>3, <4>1, InterfacesFacts
      <4>3. (IF j = Interfaces[n] THEN x ELSE "none") = "none"
        BY <4>2
      <4> QED
        BY <2>3, <4>1, <4>3
    <3> QED
      BY <1>4, <3>2, <3>3, FlattenGives DEF middle
  <2> DEFINE y == IF u = "raw" THEN "return" ELSE "none"
             z == IF u = "forward" THEN "return" ELSE "none"
  <2>5. Gives(raw, h, j, s, d, y) /\ Gives(forward, h, j, s, d, z)
    BY <1>5
  <2>6. Decision(conf, u, j, g, s, d) = Or(Or(Or("none", x), y), z)
    BY DEF Decision, Or, x
  <2> HIDE DEF y, z
  <2>7. \A w : Gives(start, h, j, s, d, w) => Gives(start \o middle, h, j, s, d, Or(w, x))
    BY <1>4, <1>5, <2>4, ConcatGives
  <2> DEFINE v == Or("none", x)
  <2>8. Gives(start \o middle, h, j, s, d, v)
    BY <1>5, <2>7
  <2> HIDE DEF v
  <2>9. Gives((start \o middle) \o raw, h, j, s, d, Or(v, y))
    BY <1>5, <1>6, <2>5, <2>8, ConcatGives
  <2>10. Gives(((start \o middle) \o raw) \o forward, h, j, s, d, Or(Or(v, y), z))
    BY <1>5, <1>6, <2>5, <2>9, ConcatGives
  <2> QED
    BY <1>1, <2>6, <2>10 DEF v
<1> QED
  BY <1>6, <1>7, <1>8 DEF h

LEMMA RenderingFacts ==
    ASSUME NEW conf \in Config
    PROVE  /\ Rendering(conf) \in Seq(Command) /\ Len(Rendering(conf)) \in Nat \ {0}
           /\ DOMAIN Rendering(conf) = 1..Len(Rendering(conf))
           /\ \A n \in 1..Len(Rendering(conf)) : Rendering(conf)[n] \in Command
<1>1. Families[1] \in Range(Families) /\ Client \in Sources /\ Internet \in Destinations
  BY FamiliesFacts DEF Sources, Destinations
<1>2. \A u \in {"raw", "forward"}, g \in Range(Families), s \in Sources, d \in Destinations :
        Commands(conf) \in Seq(Command) /\ Commands(conf) # <<>>
  BY CommandsGive
<1>3. Commands(conf) \in Seq(Command) /\ Commands(conf) # <<>>
  BY <1>1, <1>2
<1>4. Rendering(conf) = Commands(conf)
  BY RenderingIs
<1> QED
  BY <1>3, <1>4, LenProperties, EmptySeq, ElementOfSeq

-----------------------------------------------------------------------------
\* The types.

Control ==
    /\ pc \in [Processes -> Steps]
    /\ job \in [Processes -> Job]
    /\ \A p \in Processes : PosOK(pc[p], job[p])

LEMMA GotoTypes ==
    ASSUME Control, NEW p \in Processes, NEW step \in Steps, NEW j \in Job, PosOK(step, j),
           Goto(p, step), job' = [job EXCEPT ![p] = j]
    PROVE  Control'
<1>1. pc' \in [Processes -> Steps] /\ job' \in [Processes -> Job]
  BY DEF Control, Goto
<1>2. ASSUME NEW q \in Processes PROVE PosOK(pc'[q], job'[q])
  <2>1. CASE q = p
    BY <2>1 DEF Control, Goto
  <2>2. CASE q # p
    <3>1. pc'[q] = pc[q] /\ job'[q] = job[q]
      BY <2>2 DEF Control, Goto
    <3> QED
      BY <3>1 DEF Control
  <2> QED
    BY <2>1, <2>2
<1> QED
  BY <1>1, <1>2 DEF Control

LEMMA SetTypes ==
    ASSUME Control, NEW p \in Processes, NEW at \in Nat \ {0}, NEW place \in Nat \ {0}, NEW step \in Steps,
           \A j : j.at = at /\ j.target = job[p].target => PosOK(step, j),
           Set(p, at, place), Goto(p, step)
    PROVE  Control'
<1> DEFINE j == [job[p] EXCEPT !.at = at, !.place = place]
<1>1. job[p] \in Job
  BY DEF Control
<1>2. j \in Job /\ j.at = at /\ j.target = job[p].target
  BY <1>1 DEF Job
<1>3. job' = [job EXCEPT ![p] = j]
  BY DEF Set
<1> HIDE DEF j
<1>4. \E k \in Job : k.at = at /\ k.target = job[p].target /\ job' = [job EXCEPT ![p] = k]
  BY <1>2, <1>3
<1> QED
  BY <1>4, GotoTypes

LEMMA NextTypes ==
    ASSUME Control, NEW p \in Processes, NEW last \in Nat, job[p].at \in 1..last,
           NEW again \in Steps, NEW after \in Steps,
           \A j : j.at \in 1..last => PosOK(again, j),
           \A j : j.at = 1 => PosOK(after, j),
           Next1(p, last, again, after)
    PROVE  Control'
<1>1. CASE job[p].at < last
  <2>1. Set(p, job[p].at + 1, 1) /\ Goto(p, again)
    BY <1>1 DEF Next1
  <2>2. job[p].at + 1 \in 1..last /\ job[p].at + 1 \in Nat \ {0}
    BY <1>1
  <2>3. \E at \in 1..last : at \in Nat \ {0} /\ Set(p, at, 1)
    BY <2>1, <2>2
  <2> QED
    BY <2>1, <2>3, SetTypes
<1>2. CASE ~(job[p].at < last)
  <2>1. Set(p, 1, 1) /\ Goto(p, after)
    BY <1>2 DEF Next1
  <2> QED
    BY <2>1, SetTypes
<1> QED
  BY <1>1, <1>2

LEMMA FinishTypes ==
    ASSUME TypeInv, NEW p \in Processes, NEW result \in {"error", "saved", "done"}, Finish(p, result)
    PROVE  /\ Control' /\ undisturbed' \in [Processes -> BOOLEAN]
           /\ swallowed' \subseteq {"delete", "list"}
           /\ outcome' \in {"unknown", "error", "saved", "done"} /\ granted' \subseteq Names
<1>1. Control /\ job[p] \in Job
  BY DEF TypeInv, TypeOK, Control
<1>2. NoJob \in Job /\ PosOK("idle", NoJob) /\ "idle" \in Steps
  BY DEF NoJob, Job, PosOK, Steps, NoInterfaces, Config
<1>3. Control'
  BY <1>1, <1>2, GotoTypes DEF Finish
<1>4. job[p].iface \in Names \cup {None}
  BY <1>1 DEF Job
<1> QED
  BY <1>3, <1>4 DEF Finish, TypeInv, TypeOK

LEMMA BeginTypes ==
    ASSUME TypeInv, NEW p \in Processes, NEW step \in Steps, NEW j \in Job, PosOK(step, j), Begin(p, step, j)
    PROVE  /\ Control' /\ undisturbed' \in [Processes -> BOOLEAN]
           /\ swallowed' \subseteq {"delete", "list"}
           /\ outcome' \in {"unknown", "error", "saved", "done"} /\ granted' \subseteq Names
           /\ budget' \in 0..MaxDisturbances
<1>1. Control'
  BY GotoTypes DEF TypeInv, TypeOK, Control, Begin
<1>2. undisturbed' \in [Processes -> BOOLEAN]
  BY DEF Begin
<1>3. swallowed' = {} /\ outcome' = "unknown" /\ granted' \subseteq Names
  BY DEF Begin, TypeInv, TypeOK
<1>4. budget' \in 0..MaxDisturbances
  BY AccessAssumption DEF Begin, Disturb, TypeInv, TypeOK
<1> QED
  BY <1>1, <1>2, <1>3, <1>4

LEMMA OrderPositions ==
    /\ \A j : j.at = 1 => PosOK("jump", j) /\ PosOK("insert", j) /\ PosOK("flush", j)
                          /\ PosOK("truncate", j) /\ PosOK("idle", j)
    /\ \A j : j.at \in 1..Len(JumpOrder) => PosOK("jump", j) /\ PosOK("insert", j)
    /\ \A j : j.at \in 1..Len(FlushOrder) => PosOK("flush", j)
    /\ \A j : j.at = 1 /\ j.target \in Config => PosOK("append", j)
BY JumpOrderFacts, FlushOrderFacts, RenderingFacts DEF PosOK

LEMMA InitTypes ==
    ASSUME Init
    PROVE  TypeInv
<1>1. /\ policies \in Config /\ started \in BOOLEAN
      /\ undisturbed \in [Processes -> BOOLEAN] /\ outcome \in {"unknown", "error", "saved", "done"}
      /\ swallowed \subseteq {"delete", "list"} /\ granted \subseteq Names /\ budget \in 0..MaxDisturbances
  <2>1. policies \in Config
    BY DEF Init, NoInterfaces, Config
  <2>2. undisturbed \in [Processes -> BOOLEAN]
    BY DEF Init
  <2>3. budget \in 0..MaxDisturbances
    BY AccessAssumption DEF Init
  <2> QED
    BY <2>1, <2>2, <2>3 DEF Init
<1>2. parent \in [Hooks -> Seq(ParentRule)]
  <2>1. <<"docker-user">> \in Seq(ParentRule) /\ <<>> \in Seq(ParentRule)
    BY DEF ParentRule
  <2>2. \A h \in Hooks : ParentAtStart(h) \in Seq(ParentRule)
    BY <2>1 DEF ParentAtStart
  <2> QED
    BY <2>2 DEF Init
<1>3. chain \in [Hooks -> Seq(Rule)]
  BY DEF Init
<1>4. NoJob \in Job /\ PosOK("idle", NoJob) /\ "idle" \in Steps
  BY DEF NoJob, Job, PosOK, Steps, NoInterfaces, Config
<1>5. Control
  BY <1>4 DEF Init, Control
<1> QED
  BY <1>1, <1>2, <1>3, <1>5 DEF TypeInv, TypeOK, Control

LEMMA NextTypeInv ==
    ASSUME TypeInv, [Next]_vars
    PROVE  TypeInv'
<1> USE DEF TypeInv
<1> DEFINE Rest == /\ policies \in Config /\ parent \in [Hooks -> Seq(ParentRule)]
                   /\ chain \in [Hooks -> Seq(Rule)] /\ started \in BOOLEAN
           Ghosts == /\ undisturbed \in [Processes -> BOOLEAN] /\ swallowed \subseteq {"delete", "list"}
                     /\ outcome \in {"unknown", "error", "saved", "done"} /\ granted \subseteq Names
           Bound == budget \in 0..MaxDisturbances
<1>1. Rest /\ Ghosts /\ Bound /\ Control
  BY DEF TypeOK, Control
<1>2. Rest' /\ Ghosts' /\ Bound' /\ Control' => TypeInv'
  BY DEF TypeOK, Control
<1>3. \A kind : Disturb(kind) => Bound'
  BY <1>1, AccessAssumption DEF Disturb
<1>4. NoJob \in Job /\ \A op \in {"create", "change", "boot"}, i \in Names \cup {None}, t \in Config :
        /\ [NoJob EXCEPT !.op = op, !.iface = i, !.target = t] \in Job
        /\ [NoJob EXCEPT !.op = op, !.iface = i, !.target = t].at = 1
  <2>1. NoJob \in Job
    BY DEF NoJob, Job, NoInterfaces, Config
  <2>2. ASSUME NEW op \in {"create", "change", "boot"}, NEW i \in Names \cup {None}, NEW t \in Config
        PROVE  /\ [NoJob EXCEPT !.op = op, !.iface = i, !.target = t] \in Job
               /\ [NoJob EXCEPT !.op = op, !.iface = i, !.target = t].at = 1
    <3>1. ASSUME NEW j \in Job, j.at = 1
          PROVE  /\ [j EXCEPT !.op = op, !.iface = i, !.target = t] \in Job
                 /\ [j EXCEPT !.op = op, !.iface = i, !.target = t].at = 1
      BY <3>1 DEF Job
    <3>2. NoJob.at = 1
      BY DEF NoJob
    <3> QED
      BY <2>1, <3>1, <3>2
  <2> QED
    BY <2>1, <2>2
<1>5. \A i \in Names, q \in Policies \cup {None} : [policies EXCEPT ![i] = q] \in Config
  BY <1>1 DEF Config
<1>6. \A r \in Requests : r \in Processes
  BY DEF Processes
<1>7. ASSUME NEW r \in Requests, StartCreate(r) PROVE TypeInv'
  <2>1. PICK j \in Job : j.at = 1 /\ Begin(r, "truncate", j)
    BY <1>4, <1>5, <1>7 DEF StartCreate
  <2>2. PosOK("truncate", j) /\ "truncate" \in Steps
    BY <2>1, OrderPositions DEF Steps
  <2>3. Control' /\ Ghosts' /\ Bound'
    BY <1>6, <2>1, <2>2, BeginTypes
  <2>4. Rest'
    BY <1>1, <1>7 DEF StartCreate, kernel
  <2> QED
    BY <1>2, <2>3, <2>4
<1>8. ASSUME NEW r \in Requests, StartChange(r) PROVE TypeInv'
  <2>1. PICK j \in Job : j.at = 1 /\ Begin(r, "truncate", j)
    BY <1>4, <1>5, <1>8 DEF StartChange
  <2>2. PosOK("truncate", j) /\ "truncate" \in Steps
    BY <2>1, OrderPositions DEF Steps
  <2>3. Control' /\ Ghosts' /\ Bound'
    BY <1>6, <2>1, <2>2, BeginTypes
  <2>4. Rest'
    BY <1>1, <1>8 DEF StartChange, kernel
  <2> QED
    BY <1>2, <2>3, <2>4
<1>9. CASE StartBoot
  <2>1. PICK j \in Job : j.at = 1 /\ Begin(Boot, "jump", j)
    <3>1. ASSUME NEW j \in Job, j.at = 1
          PROVE  /\ [j EXCEPT !.op = "boot", !.target = policies] \in Job
                 /\ [j EXCEPT !.op = "boot", !.target = policies].at = 1
      BY <1>1, <3>1 DEF Job
    <3>2. /\ [NoJob EXCEPT !.op = "boot", !.target = policies] \in Job
          /\ [NoJob EXCEPT !.op = "boot", !.target = policies].at = 1
      <4>1. NoJob.at = 1
        BY DEF NoJob
      <4> QED
        BY <1>4, <3>1, <4>1
    <3> QED
      BY <1>9, <3>2 DEF StartBoot
  <2>2. PosOK("jump", j) /\ "jump" \in Steps /\ Boot \in Processes
    BY <2>1, OrderPositions DEF Steps, Processes
  <2>3. Control' /\ Ghosts' /\ Bound'
    BY <2>1, <2>2, BeginTypes
  <2>4. Rest'
    BY <1>1, <1>9 DEF StartBoot, kernel
  <2> QED
    BY <1>2, <2>3, <2>4
<1>10. ASSUME NEW r \in Requests, Truncate(r) PROVE TypeInv'
  <2>1. PosOK("truncate", job[r]) /\ job[r] \in Job
    BY <1>1, <1>6, <1>10 DEF Truncate, Control
  <2>2. PosOK("write", job[r]) /\ "write" \in Steps
    BY <2>1 DEF PosOK, Steps
  <2>3. Control'
    <3>1. job' = [job EXCEPT ![r] = job[r]] /\ Goto(r, "write")
      BY <1>1, <1>10 DEF Truncate, Control
    <3> QED
      BY <1>1, <1>6, <2>1, <2>2, <3>1, GotoTypes
  <2>4. Rest'
    BY <1>1, <1>10 DEF Truncate, kernel, NoInterfaces, Config
  <2> QED
    BY <1>1, <1>2, <1>10, <2>3, <2>4 DEF Truncate, ghost
<1>11. ASSUME NEW r \in Requests, Write(r) PROVE TypeInv'
  <2>1. PosOK("write", job[r]) /\ job[r] \in Job
    BY <1>1, <1>6, <1>11 DEF Write, Control
  <2>2. Rest' /\ Bound'
    BY <1>1, <1>11, <2>1 DEF Write, kernel, Job
  <2>3. CASE Finish(r, "saved")
    BY <1>2, <1>6, <2>2, <2>3, FinishTypes
  <2>4. CASE Goto(r, "jump") /\ UNCHANGED <<job, ghost>>
    <3>1. job[r].at = 1
      BY <2>1 DEF PosOK
    <3>2. PosOK("jump", job[r]) /\ "jump" \in Steps
      BY <3>1, OrderPositions DEF Steps
    <3>3. job' = [job EXCEPT ![r] = job[r]]
      BY <1>1, <2>4 DEF Control
    <3>4. Control'
      BY <1>1, <1>6, <2>1, <2>4, <3>2, <3>3, GotoTypes
    <3> QED
      BY <1>1, <1>2, <2>2, <2>4, <3>4 DEF ghost
  <2> QED
    BY <1>11, <2>3, <2>4 DEF Write
<1>12. ASSUME NEW p \in Processes, Next1(p, Len(JumpOrder), "jump", "flush"), pc[p] \in {"jump", "insert"}
       PROVE  Control'
  <2>1. job[p].at \in 1..Len(JumpOrder)
    BY <1>1, <1>12, JumpOrderFacts DEF Control, PosOK
  <2>2. Len(JumpOrder) \in Nat /\ "jump" \in Steps /\ "flush" \in Steps
    BY JumpOrderFacts DEF Steps
  <2> QED
    BY <1>1, <1>12, <2>1, <2>2, OrderPositions, NextTypes
<1>13. ASSUME NEW p \in Processes, NEW place \in Nat \ {0}, pc[p] = "jump",
              Set(p, job[p].at, place), Goto(p, "insert")
       PROVE  Control'
  <2>1. job[p].at \in 1..Len(JumpOrder) /\ job[p].at \in Nat \ {0}
    BY <1>1, <1>13, JumpOrderFacts DEF Control, PosOK
  <2>2. \E at \in Nat \ {0} : at \in 1..Len(JumpOrder) /\ Set(p, at, place)
    BY <1>13, <2>1
  <2>3. "insert" \in Steps
    BY DEF Steps
  <2> QED
    BY <1>1, <1>13, <2>2, <2>3, OrderPositions, SetTypes
<1>14. ASSUME NEW p \in Processes, Jump(p) PROVE TypeInv'
  <2> DEFINE h == JumpOrder[job[p].at]
  <2>1. h \in Hooks
    BY <1>1, <1>14, JumpOrderFacts, ElementOfSeq DEF Jump, Control, PosOK
  <2>2. parent[h] \in Seq(ParentRule)
    BY <1>1, <2>1
  <2> HIDE DEF h
  <2>3. Ghosts' /\ Bound'
    BY <1>1, <1>14 DEF Jump, ghost
  <2>4. CASE Next1(p, Len(JumpOrder), "jump", "flush") /\ UNCHANGED parent
    <3>1. Control'
      BY <1>12, <1>14, <2>4 DEF Jump
    <3> QED
      BY <1>1, <1>2, <1>14, <2>3, <2>4, <3>1 DEF Jump
  <2>5. CASE "jump" \in Range(parent[h]) /\ parent' = [parent EXCEPT ![h] = RemoveFirst(@, "jump")] /\ UNCHANGED control
    <3>1. RemoveFirst(parent[h], "jump") \in Seq(ParentRule)
      BY <2>2, <2>5, FirstFacts, RemoveAtFacts
    <3>2. parent' \in [Hooks -> Seq(ParentRule)]
      BY <1>1, <2>5, <3>1
    <3>3. Control'
      BY <1>1, <2>5 DEF Control, control
    <3> QED
      BY <1>1, <1>2, <1>14, <2>3, <3>2, <3>3 DEF Jump
  <2>6. CASE /\ Set(p, job[p].at, IF h.table = "forward" THEN Place(parent[h]) ELSE 1)
             /\ Goto(p, "insert") /\ UNCHANGED parent
    <3>1. Place(parent[h]) \in Nat \ {0}
      BY <2>2, PlaceFacts, LenProperties
    <3>2. \E place \in Nat \ {0} : Set(p, job[p].at, place)
      BY <2>6, <3>1
    <3>3. Control'
      BY <1>13, <1>14, <2>6, <3>2 DEF Jump
    <3> QED
      BY <1>1, <1>2, <1>14, <2>3, <2>6, <3>3 DEF Jump
  <2> QED
    BY <1>14, <2>4, <2>5, <2>6 DEF Jump, h
<1>15. ASSUME NEW p \in Processes, Insert(p) PROVE TypeInv'
  <2> DEFINE h == JumpOrder[job[p].at]
  <2>1. h \in Hooks
    BY <1>1, <1>15, JumpOrderFacts, ElementOfSeq DEF Insert, Control, PosOK
  <2>2. parent[h] \in Seq(ParentRule) /\ job[p] \in Job
    BY <1>1, <2>1 DEF Control
  <2> HIDE DEF h
  <2>3. Bound'
    BY <1>1, <1>15 DEF Insert
  <2>4. CASE /\ job[p].place <= Len(parent[h]) + 1
             /\ parent' = [parent EXCEPT ![h] = InsertAt(@, job[p].place, "jump")]
             /\ Next1(p, Len(JumpOrder), "jump", "flush") /\ UNCHANGED ghost
    <3>1. job[p].place \in 1..(Len(parent[h]) + 1)
      BY <2>2, <2>4, LenProperties DEF Job
    <3>2. InsertAt(parent[h], job[p].place, "jump") \in Seq(ParentRule)
      BY <2>2, <3>1, InsertFacts DEF ParentRule
    <3>3. parent' \in [Hooks -> Seq(ParentRule)]
      BY <1>1, <2>4, <3>2
    <3>4. Control'
      BY <1>12, <1>15, <2>4 DEF Insert
    <3> QED
      BY <1>1, <1>2, <1>15, <2>3, <2>4, <3>3, <3>4 DEF Insert, ghost
  <2>5. CASE Finish(p, "error") /\ UNCHANGED parent
    BY <1>1, <1>2, <1>15, <2>3, <2>5, FinishTypes DEF Insert
  <2> QED
    BY <1>15, <2>4, <2>5 DEF Insert, h
<1>16. ASSUME NEW p \in Processes, pc[p] = "flush", Next1(p, Len(FlushOrder), "flush", "append")
       PROVE  Control'
  <2>1. job[p].at \in 1..Len(FlushOrder) /\ job[p] \in Job
    BY <1>1, <1>16, FlushOrderFacts DEF Control, PosOK
  <2>2. Len(FlushOrder) \in Nat /\ "flush" \in Steps /\ "append" \in Steps
    BY FlushOrderFacts DEF Steps
  <2>3. CASE job[p].at < Len(FlushOrder)
    <3>1. job[p].at + 1 \in 1..Len(FlushOrder) /\ job[p].at + 1 \in Nat \ {0}
      BY <2>1, <2>2, <2>3
    <3>2. Set(p, job[p].at + 1, 1) /\ Goto(p, "flush")
      BY <1>16, <2>3 DEF Next1
    <3>3. \E at \in Nat \ {0} : at \in 1..Len(FlushOrder) /\ Set(p, at, 1)
      BY <3>1, <3>2
    <3> QED
      BY <1>1, <2>2, <3>2, <3>3, OrderPositions, SetTypes
  <2>4. CASE ~(job[p].at < Len(FlushOrder))
    <3>1. Set(p, 1, 1) /\ Goto(p, "append")
      BY <1>16, <2>4 DEF Next1
    <3>2. job[p].target \in Config
      BY <2>1 DEF Job
    <3>3. \A j : j.at = 1 /\ j.target = job[p].target => PosOK("append", j)
      BY <3>2, OrderPositions
    <3> QED
      BY <1>1, <2>2, <3>1, <3>3, SetTypes
  <2> QED
    BY <2>3, <2>4
<1>17. ASSUME NEW p \in Processes, Flush(p) PROVE TypeInv'
  <2>1. Control'
    BY <1>17, <1>16 DEF Flush
  <2>2. Rest'
    <3>1. <<>> \in Seq(Rule)
      OBVIOUS
    <3>2. chain' \in [Hooks -> Seq(Rule)]
      BY <1>1, <1>17, <3>1 DEF Flush
    <3> QED
      BY <1>1, <1>17, <3>2 DEF Flush
  <2> QED
    BY <1>1, <1>2, <1>17, <2>1, <2>2 DEF Flush, ghost
<1>18. ASSUME NEW p \in Processes, AppendRule(p) PROVE TypeInv'
  <2> DEFINE cs == Rendering(job[p].target)
             c == cs[job[p].at]
  <2>1. job[p].target \in Config /\ job[p].at \in DOMAIN cs /\ job[p].at \in Nat \ {0}
    BY <1>1, <1>18 DEF AppendRule, Control, PosOK, Job
  <2>2. c \in Command /\ Len(cs) \in Nat /\ DOMAIN cs = 1..Len(cs)
    BY <2>1, RenderingFacts
  <2> HIDE DEF cs, c
  <2>3. Bound'
    BY <1>1, <1>18 DEF AppendRule
  <2>4. CASE Finish(p, "error") /\ UNCHANGED chain
    BY <1>1, <1>2, <1>18, <2>3, <2>4, FinishTypes DEF AppendRule
  <2>5. CASE /\ c.hook # None /\ chain' = [chain EXCEPT ![c.hook] = Append(@, c.rule)]
             /\ IF job[p].at < Len(cs)
                THEN Set(p, job[p].at + 1, 1) /\ UNCHANGED <<pc, ghost>>
                ELSE Finish(p, "done")
    <3>1. c.hook \in Hooks /\ c.rule \in Rule
      BY <2>2, <2>5 DEF Command
    <3>2. chain' \in [Hooks -> Seq(Rule)]
      <4>1. Append(chain[c.hook], c.rule) \in Seq(Rule)
        BY <1>1, <3>1, AppendProperties
      <4> QED
        BY <1>1, <2>5, <4>1
    <3>3. Rest'
      BY <1>1, <1>18, <3>2 DEF AppendRule
    <3>4. CASE job[p].at < Len(cs)
      <4>1. job[p].at + 1 \in DOMAIN cs /\ job[p].at + 1 \in Nat \ {0}
        BY <2>1, <2>2, <3>4
      <4>2. \A j : j.at = job[p].at + 1 /\ j.target = job[p].target => PosOK("append", j)
        BY <4>1 DEF PosOK, cs
      <4>3. pc' = [pc EXCEPT ![p] = "append"]
        BY <1>1, <1>18, <2>5, <3>4 DEF AppendRule, Control
      <4>4. Set(p, job[p].at + 1, 1) /\ Goto(p, "append") /\ "append" \in Steps
        BY <2>5, <3>4, <4>3 DEF Goto, Steps
      <4>5. PICK at \in Nat \ {0} :
                 /\ Set(p, at, 1)
                 /\ \A j : j.at = at /\ j.target = job[p].target => PosOK("append", j)
        BY <4>1, <4>2, <4>4
      <4>6. Control'
        <5>1. Control
          BY <1>1
        <5> HIDE DEF TypeInv, Control
        <5> QED
          BY <4>4, <4>5, <5>1, SetTypes
      <4> QED
        BY <1>1, <1>2, <2>3, <2>5, <3>3, <3>4, <4>6 DEF ghost
    <3>5. CASE ~(job[p].at < Len(cs))
      BY <1>2, <2>3, <2>5, <3>3, <3>5, FinishTypes
    <3> QED
      BY <3>4, <3>5
  <2> QED
    BY <1>18, <2>4, <2>5 DEF AppendRule, c, cs
<1>19. ASSUME NEW p \in Processes, CommandFails(p) PROVE TypeInv'
  BY <1>1, <1>2, <1>3, <1>19, FinishTypes DEF CommandFails, kernel
<1>20. ASSUME NEW p \in Processes, ListFails(p) PROVE TypeInv'
  <2>1. Control'
    BY <1>13, <1>20 DEF ListFails
  <2>2. Bound' /\ Rest'
    BY <1>1, <1>3, <1>20 DEF ListFails, kernel
  <2>3. Ghosts'
    BY <1>1, <1>20 DEF ListFails
  <2> QED
    BY <1>2, <2>1, <2>2, <2>3
<1>21. ASSUME NEW p \in Processes, JumpMissed(p) PROVE TypeInv'
  <2> DEFINE h == JumpOrder[job[p].at]
  <2>1. h \in Hooks
    BY <1>1, <1>21, JumpOrderFacts, ElementOfSeq DEF JumpMissed, Control, PosOK
  <2>2. parent[h] \in Seq(ParentRule)
    BY <1>1, <2>1
  <2>3. Place(parent[h]) \in Nat \ {0}
    BY <2>2, PlaceFacts, LenProperties
  <2>4. \E place \in Nat \ {0} : Set(p, job[p].at, place)
    BY <1>21, <2>3 DEF JumpMissed
  <2>5. Control'
    BY <1>13, <1>21, <2>4 DEF JumpMissed
  <2>6. Rest'
    BY <1>1, <1>21 DEF JumpMissed, kernel
  <2>7. Ghosts' /\ Bound'
    BY <1>1, <1>3, <1>21 DEF JumpMissed
  <2> QED
    BY <1>2, <2>5, <2>6, <2>7
<1>22. ASSUME NEW p \in Processes, NatFails(p) PROVE TypeInv'
  <2>1. Control'
    BY <1>12, <1>16, <1>22 DEF NatFails, Optional
  <2>2. Rest' /\ Ghosts' /\ Bound'
    BY <1>1, <1>3, <1>22 DEF NatFails, kernel, ghost
  <2> QED
    BY <1>2, <2>1, <2>2
<1>23. ASSUME NEW r \in Requests, SaveFails(r) PROVE TypeInv'
  BY <1>1, <1>2, <1>3, <1>6, <1>23, FinishTypes DEF SaveFails, kernel
<1>24. ASSUME Stop PROVE Control' /\ started' \in BOOLEAN /\ undisturbed' \in [Processes -> BOOLEAN]
                         /\ swallowed' \subseteq {"delete", "list"} /\ outcome' \in {"unknown", "error", "saved", "done"}
  <2>1. PosOK("idle", NoJob) /\ "idle" \in Steps
    BY DEF NoJob, PosOK, Steps
  <2> QED
    BY <1>4, <1>24, <2>1 DEF Stop, Control
<1>25. CASE Crash
  BY <1>1, <1>2, <1>3, <1>24, <1>25 DEF Crash, kernel
<1>26. CASE Reboot
  <2>1. <<"docker-user">> \in Seq(ParentRule) /\ <<>> \in Seq(ParentRule)
    BY DEF ParentRule
  <2>2. \A h \in Hooks : ParentAtStart(h) \in Seq(ParentRule)
    BY <2>1 DEF ParentAtStart
  <2>3. parent' \in [Hooks -> Seq(ParentRule)] /\ chain' \in [Hooks -> Seq(Rule)]
    BY <1>26, <2>2 DEF Reboot
  <2> QED
    BY <1>1, <1>2, <1>3, <1>24, <1>26, <2>3 DEF Reboot
<1>27. ASSUME Intervene PROVE Control' /\ Ghosts' /\ (parent' \in [Hooks -> Seq(ParentRule)] => Rest')
  BY <1>1, <1>27 DEF Intervene, Control, control
<1>28. ASSUME NEW f \in Range(Families), DockerRestart(f) PROVE TypeInv'
  <2> DEFINE h == Hook("forward", f)
             t == RemoveFirst(parent[h], "docker-user")
  <2>1. h \in Hooks
    BY DEF Hooks
  <2>2. parent[h] \in Seq(ParentRule)
    BY <1>1, <2>1
  <2>3. t \in Seq(ParentRule)
    BY <2>2, FirstFacts, RemoveAtFacts
  <2> HIDE DEF t
  <2>4. <<"docker-user">> \o t \in Seq(ParentRule)
    <3>1. "docker-user" \in ParentRule
      BY DEF ParentRule
    <3> QED
      BY <2>3, <3>1, PrependFacts
  <2> HIDE DEF h
  <2>5. parent' = [parent EXCEPT ![h] = <<"docker-user">> \o t]
    BY <1>28 DEF DockerRestart, h, t
  <2>6. parent' \in [Hooks -> Seq(ParentRule)]
    BY <1>1, <2>1, <2>4, <2>5
  <2> QED
    BY <1>2, <1>3, <1>27, <1>28, <2>6 DEF DockerRestart
<1>29. ASSUME NEW h \in Hooks, ForeignInsert(h) PROVE TypeInv'
  <2>1. "other" \in ParentRule /\ parent[h] \in Seq(ParentRule)
    BY <1>1 DEF ParentRule
  <2>2. <<"other">> \o parent[h] \in Seq(ParentRule)
    BY <2>1, PrependFacts
  <2>3. parent' \in [Hooks -> Seq(ParentRule)]
    BY <1>1, <1>29, <2>2 DEF ForeignInsert
  <2> QED
    BY <1>2, <1>3, <1>27, <1>29, <2>3 DEF ForeignInsert
<1>30. CASE UNCHANGED vars
  BY <1>1, <1>2, <1>30 DEF vars, kernel, control, ghost, Control
<1> QED
  BY <1>7, <1>8, <1>9, <1>10, <1>11, <1>14, <1>15, <1>17, <1>18, <1>19, <1>20, <1>23,
     <1>25, <1>26, <1>28, <1>29, <1>30, <1>21, <1>22 DEF Next

\* The variables keep their types (and the place in its list that a process has
\* reached exists): an interface, a hook or a command out of range is never read.
THEOREM AccessTypes == Spec => []TypeOK
<1>1. TypeInv => TypeOK
  BY DEF TypeInv
<1> QED
  BY <1>1, InitTypes, NextTypeInv, PTL DEF Spec

-----------------------------------------------------------------------------
\* The invariant.

\* The steps of a process when no operation comes between them.
LEMMA ActorAlone ==
    ASSUME Alone, NEW p \in Processes, Busy(p)
    PROVE  outcome = "unknown" /\ \A q \in Processes : q # p => ~undisturbed[q]
BY DEF Alone

LEMMA Goes ==
    ASSUME TypeInv, AccessInv, NEW p \in Processes, Busy(p),
           NEW step \in Steps \ {"idle"}, Goto(p, step),
           \A q \in Processes : undisturbed'[q] => undisturbed[q], UNCHANGED outcome,
           \A h \in Hooks : OneDockerUser(parent[h])',
           undisturbed'[p] => Stage(pc[p], job[p])'
    PROVE  AccessInv'
<1>1. outcome = "unknown" /\ \A q \in Processes : q # p => ~undisturbed[q]
  BY ActorAlone DEF AccessInv
<1>2. \A q \in Processes : Busy(q)' <=> Busy(q)
  BY DEF Goto, Busy, TypeInv, TypeOK
<1>3. Alone'
  BY <1>1, <1>2 DEF Alone, AccessInv
<1>4. ASSUME NEW q \in Processes, undisturbed'[q] PROVE Stage(pc[q], job[q])'
  <2>1. q = p
    BY <1>1, <1>4
  <2> QED
    BY <1>4, <2>1
<1> QED
  BY <1>1, <1>3, <1>4 DEF AccessInv

LEMMA Ends ==
    ASSUME TypeInv, AccessInv, NEW p \in Processes, Busy(p),
           NEW result \in {"error", "saved", "done"}, Finish(p, result),
           \A h \in Hooks : OneDockerUser(parent[h])',
           undisturbed[p] /\ result = "done" => AllJumped' /\ AllBuilt(policies)'
    PROVE  AccessInv'
<1>1. outcome = "unknown" /\ \A q \in Processes : q # p => ~undisturbed[q]
  BY ActorAlone DEF AccessInv
<1>2. \A q \in Processes : ~undisturbed'[q]
  BY <1>1 DEF Finish, TypeInv, TypeOK
<1>3. Alone'
  <2>1. ASSUME outcome' # "unknown" PROVE \A q \in Processes : ~Busy(q)'
    <3>1. undisturbed[p]
      BY <2>1 DEF Finish
    <3>2. \A q \in Processes : q # p => ~Busy(q)
      BY <3>1 DEF AccessInv, Alone
    <3> QED
      BY <3>2 DEF Finish, Goto, Busy, TypeInv, TypeOK
  <2> QED
    BY <1>2, <2>1 DEF Alone
<1>4. ASSUME outcome' = "done" PROVE AllJumped' /\ AllBuilt(policies)'
  <2>1. undisturbed[p] /\ result = "done"
    BY <1>4 DEF Finish
  <2> QED
    BY <2>1
<1> QED
  BY <1>2, <1>3, <1>4 DEF AccessInv

LEMMA Begins ==
    ASSUME TypeInv, AccessInv, NEW p \in Processes, NEW step \in Steps \ {"idle"}, NEW j,
           Begin(p, step, j), UNCHANGED parent, Stage(step, j)'
    PROVE  AccessInv'
<1>1. /\ pc' = [pc EXCEPT ![p] = step] /\ job' = [job EXCEPT ![p] = j] /\ outcome' = "unknown"
      /\ undisturbed' = [q \in Processes |-> q = p /\ \A r \in Processes : ~Busy(r)]
  BY DEF Begin, Goto
<1>2. pc'[p] = step /\ job'[p] = j /\ \A q \in Processes : q # p => pc'[q] = pc[q]
  BY <1>1 DEF TypeInv, TypeOK
<1>3. ASSUME NEW q \in Processes, undisturbed'[q] PROVE q = p /\ \A r \in Processes : ~Busy(r)
  BY <1>1, <1>3
<1>4. Alone'
  <2>1. ASSUME NEW q \in Processes, undisturbed'[q]
        PROVE  Busy(q)' /\ \A r \in Processes : r # q => ~Busy(r)'
    BY <1>2, <1>3, <2>1 DEF Busy
  <2> QED
    BY <1>1, <2>1 DEF Alone
<1>5. ASSUME NEW q \in Processes, undisturbed'[q] PROVE Stage(pc[q], job[q])'
  <2>1. q = p
    BY <1>3, <1>5
  <2> QED
    BY <1>2, <2>1
<1>6. \A h \in Hooks : OneDockerUser(parent[h])'
  BY DEF AccessInv
<1> QED
  BY <1>1, <1>4, <1>5, <1>6 DEF AccessInv

\* A parent chain changes between the steps of a process.
LEMMA Intervenes ==
    ASSUME TypeInv, AccessInv, Intervene,
           \A h \in Hooks : OneDockerUser(parent[h])' /\ (Jumped(h) => Jumped(h)')
    PROVE  AccessInv'
<1>1. /\ UNCHANGED <<policies, chain, pc, job, swallowed, outcome>>
      /\ \A p \in Processes : undisturbed'[p] <=> undisturbed[p] /\ pc[p] # "insert"
  BY DEF Intervene, control, TypeInv, TypeOK
<1>2. Alone'
  BY <1>1 DEF Alone, AccessInv, Busy
<1>3. AllJumped => AllJumped'
  BY DEF AllJumped
<1>4. \A at : JumpedBefore(at) => JumpedBefore(at)'
  <2>1. \A k \in DOMAIN JumpOrder : JumpOrder[k] \in Hooks
    BY JumpOrderFacts, ElementOfSeq
  <2> QED
    BY <2>1 DEF JumpedBefore
<1>5. \A cs, n : Built(cs, n) => Built(cs, n)'
  BY <1>1 DEF Built
<1>6. ASSUME NEW p \in Processes, undisturbed'[p] PROVE Stage(pc[p], job[p])'
  <2>1. Stage(pc[p], job[p]) /\ pc[p] # "insert"
    BY <1>1, <1>6 DEF AccessInv
  <2>2. \A step, j : step # "insert" /\ Stage(step, j) => Stage(step, j)'
    BY <1>1, <1>3, <1>4, <1>5 DEF Stage
  <2> QED
    BY <1>1, <2>1, <2>2
<1>7. AllBuilt(policies) => AllBuilt(policies)'
  BY <1>1, <1>5 DEF AllBuilt
<1> QED
  BY <1>1, <1>2, <1>3, <1>6, <1>7 DEF AccessInv

\* What a command does to a chain.
LEMMA BuiltNext ==
    ASSUME TypeInv, NEW cs \in Seq(Command), NEW n \in Nat, n + 1 \in 1..Len(cs), Built(cs, n),
           NEW c, c = cs[n + 1], c.hook # None,
           chain' = [chain EXCEPT ![c.hook] = Append(@, c.rule)]
    PROVE  Built(cs, n + 1)'
<1>1. c \in Command
  BY ElementOfSeq
<1>2. c.hook \in Hooks /\ c.rule \in Rule /\ c.rule.verdict \in Verdicts
  BY <1>1 DEF Command, Rule, Verdicts
<1>3. \A k \in 1..(n + 1) : k \in 1..n \/ k = n + 1
  OBVIOUS
<1>4. \A k \in 1..(n + 1) : cs[k].hook # None
  BY <1>3 DEF Built
<1>5. ASSUME NEW h \in Hooks, h.table # "nat", NEW i \in Names, NEW s \in Sources, NEW d \in Destinations
      PROVE  /\ Silent(cs, n + 1, h, i, s, d) => Undecided(chain'[h], i, s, d)
             /\ \A v \in Verdicts :
                  Settles(cs, n + 1, h, i, s, d, v) => Decides(chain'[h], i, s, d, v)
  <2> DEFINE old == chain[h]  new == chain'[h]
  <2>1. old \in Seq(Rule) /\ Len(old) \in Nat /\ DOMAIN old = 1..Len(old)
    BY LenProperties DEF TypeInv, TypeOK
  <2>2. /\ Silent(cs, n, h, i, s, d) => Undecided(old, i, s, d)
        /\ \A v \in Verdicts : Settles(cs, n, h, i, s, d, v) => Decides(old, i, s, d, v)
    BY <1>5 DEF Built
  <2>3. c.hook # h => new = old
    BY <1>2 DEF TypeInv, TypeOK
  <2>4. c.hook = h => /\ DOMAIN new = 1..(Len(old) + 1) /\ new[Len(old) + 1] = c.rule
                      /\ \A k \in 1..Len(old) : new[k] = old[k]
    <3>1. c.hook = h => new = Append(old, c.rule)
      BY <1>2 DEF TypeInv, TypeOK
    <3>2. /\ DOMAIN Append(old, c.rule) = 1..(Len(old) + 1)
          /\ Append(old, c.rule)[Len(old) + 1] = c.rule
          /\ \A k \in 1..Len(old) : Append(old, c.rule)[k] = old[k]
      BY <1>2, <2>1, AppendProperties, LenProperties
    <3> QED
      BY <3>1, <3>2
  <2> HIDE DEF old, new
  <2>5. ASSUME Silent(cs, n + 1, h, i, s, d) PROVE Undecided(new, i, s, d)
    <3>1. Silent(cs, n, h, i, s, d) /\ ~Hits(c, h, i, s, d)
      BY <2>5 DEF Silent
    <3>2. Undecided(old, i, s, d)
      BY <2>2, <3>1
    <3>3. CASE c.hook # h
      BY <2>3, <3>2, <3>3
    <3>4. CASE c.hook = h
      <4>1. ~Matches(c.rule, i, s, d)
        BY <3>1, <3>4 DEF Hits
      <4> QED
        BY <2>1, <2>4, <3>2, <3>4, <4>1 DEF Undecided
    <3> QED
      BY <3>3, <3>4
  <2>6. ASSUME NEW v \in Verdicts, Decides(old, i, s, d, v) PROVE Decides(new, i, s, d, v)
    <3>1. CASE c.hook # h
      BY <2>3, <2>6, <3>1
    <3>2. CASE c.hook = h
      <4>1. PICK k \in DOMAIN old : /\ Matches(old[k], i, s, d) /\ old[k].verdict = v
                                    /\ \A l \in 1..(k - 1) : ~Matches(old[l], i, s, d)
        BY <2>6 DEF Decides
      <4>2. k \in DOMAIN new /\ new[k] = old[k] /\ \A l \in 1..(k - 1) : new[l] = old[l]
        BY <2>1, <2>4, <3>2
      <4> QED
        BY <4>1, <4>2 DEF Decides
    <3> QED
      BY <3>1, <3>2
  <2>7. ASSUME NEW v \in Verdicts, Settles(cs, n + 1, h, i, s, d, v) PROVE Decides(new, i, s, d, v)
    <3>1. PICK k \in 1..(n + 1) : /\ Hits(cs[k], h, i, s, d) /\ cs[k].rule.verdict = v
                                  /\ \A l \in 1..(k - 1) : ~Hits(cs[l], h, i, s, d)
      BY <2>7 DEF Settles
    <3>2. CASE k \in 1..n
      <4>1. Settles(cs, n, h, i, s, d, v)
        BY <3>1, <3>2 DEF Settles
      <4> QED
        BY <2>2, <2>6, <4>1
    <3>3. CASE k = n + 1
      <4>1. Silent(cs, n, h, i, s, d)
        BY <3>1, <3>3 DEF Silent
      <4>2. Undecided(old, i, s, d)
        BY <2>2, <4>1
      <4>3. c.hook = h /\ Matches(c.rule, i, s, d) /\ c.rule.verdict = v
        BY <3>1, <3>3 DEF Hits
      <4>4. Len(old) + 1 \in DOMAIN new /\ \A l \in 1..((Len(old) + 1) - 1) : ~Matches(new[l], i, s, d)
        BY <2>1, <2>4, <4>2, <4>3 DEF Undecided
      <4> QED
        BY <2>4, <4>3, <4>4 DEF Decides
    <3> QED
      BY <1>3, <3>2, <3>3
  <2> QED
    BY <2>5, <2>7 DEF new
<1> QED
  BY <1>4, <1>5 DEF Built

\* Where a process is in the jumps.
LEMMA JumpHook ==
    ASSUME TypeInv, NEW p \in Processes, pc[p] \in {"jump", "insert"}
    PROVE  /\ job[p] \in Job /\ job[p].at \in 1..Len(JumpOrder) /\ job[p].at \in DOMAIN JumpOrder
           /\ JumpOrder[job[p].at] \in Hooks
           /\ parent[JumpOrder[job[p].at]] \in Seq(ParentRule)
<1>1. job[p] \in Job /\ job[p].at \in DOMAIN JumpOrder /\ DOMAIN JumpOrder = 1..Len(JumpOrder)
  BY JumpOrderFacts DEF TypeInv, TypeOK, PosOK
<1>2. JumpOrder[job[p].at] \in Hooks
  BY <1>1, JumpOrderFacts, ElementOfSeq
<1> QED
  BY <1>1, <1>2 DEF TypeInv, TypeOK

\* A change of the chain of one hook leaves the hooks before it alone.
LEMMA EarlierJumps ==
    ASSUME TypeInv, NEW at \in DOMAIN JumpOrder, JumpedBefore(at), swallowed \subseteq swallowed',
           \A h \in Hooks : h # JumpOrder[at] => parent'[h] = parent[h]
    PROVE  JumpedBefore(at)'
<1>1. ASSUME NEW k \in DOMAIN JumpOrder, k < at PROVE Jumped(JumpOrder[k])'
  <2>1. JumpOrder[k] # JumpOrder[at]
    BY <1>1, JumpOrderFacts
  <2>2. JumpOrder[k] \in Hooks
    BY JumpOrderFacts, ElementOfSeq
  <2>3. parent'[JumpOrder[k]] = parent[JumpOrder[k]]
    BY <2>1, <2>2
  <2>4. Jumped(JumpOrder[k])
    BY <1>1 DEF JumpedBefore
  <2>5. /\ "delete" \notin swallowed' => "delete" \notin swallowed
        /\ swallowed' = {} => swallowed = {}
    OBVIOUS
  <2> QED
    BY <2>3, <2>4, <2>5 DEF Jumped
<1> QED
  BY <1>1 DEF JumpedBefore

\* The jump of a hook is done: the next hook, or the flushes.
LEMMA NextJump ==
    ASSUME TypeInv, AccessInv, NEW p \in Processes, pc[p] \in {"jump", "insert"},
           Next1(p, Len(JumpOrder), "jump", "flush"),
           UNCHANGED <<policies, ghost>>,
           \A h \in Hooks : OneDockerUser(parent[h])',
           NEW at, at = job[p].at,
           \A h \in Hooks : h # JumpOrder[at] => parent'[h] = parent[h],
           undisturbed[p] => Jumped(JumpOrder[at])'
    PROVE  AccessInv'
<1>1. at \in 1..Len(JumpOrder) /\ at \in DOMAIN JumpOrder /\ DOMAIN JumpOrder = 1..Len(JumpOrder)
  BY JumpHook, JumpOrderFacts
<1>2. Len(JumpOrder) \in Nat \ {0}
  BY JumpOrderFacts
<1>3. Busy(p)
  BY DEF Busy
<1>4. ASSUME undisturbed[p]
      PROVE  job[p].target = policies /\ \A k \in 1..at : Jumped(JumpOrder[k])'
  <2>1. Stage(pc[p], job[p])
    BY <1>4 DEF AccessInv
  <2>2. job[p].target = policies /\ JumpedBefore(at)
    BY <2>1 DEF Stage
  <2>3. JumpedBefore(at)'
    <3>1. swallowed \subseteq swallowed'
      BY DEF ghost
    <3> QED
      BY <1>1, <2>2, <3>1, EarlierJumps
  <2>4. ASSUME NEW k \in 1..at PROVE Jumped(JumpOrder[k])'
    <3>1. k = at \/ (k \in DOMAIN JumpOrder /\ k < at)
      BY <1>1, <1>2
    <3>2. ASSUME k \in DOMAIN JumpOrder, k < at PROVE Jumped(JumpOrder[k])'
      BY <2>3, <3>2 DEF JumpedBefore
    <3>3. ASSUME k = at PROVE Jumped(JumpOrder[k])'
      BY <1>4, <3>3
    <3> QED
      BY <3>1, <3>2, <3>3
  <2> QED
    BY <2>2, <2>4
<1>5. CASE at < Len(JumpOrder)
  <2>1. Goto(p, "jump") /\ job' = [job EXCEPT ![p] = [@ EXCEPT !.at = at + 1, !.place = 1]]
    BY <1>5 DEF Next1, Set
  <2>2. job'[p].at = at + 1 /\ job'[p].target = job[p].target /\ pc'[p] = "jump"
    BY <2>1, JumpHook DEF Goto, TypeInv, TypeOK, Job
  <2>3. ASSUME undisturbed'[p] PROVE Stage(pc[p], job[p])'
    <3>1. undisturbed[p]
      BY <2>3 DEF ghost
    <3>2. JumpedBefore(job[p].at)'
      BY <1>1, <1>4, <2>2, <3>1 DEF JumpedBefore
    <3> QED
      BY <1>4, <2>2, <3>1, <3>2 DEF Stage
  <2> QED
    BY <1>3, <2>1, <2>3, Goes DEF ghost, Steps
<1>6. CASE ~(at < Len(JumpOrder))
  <2>1. Goto(p, "flush") /\ job' = [job EXCEPT ![p] = [@ EXCEPT !.at = 1, !.place = 1]]
    BY <1>6 DEF Next1, Set
  <2>2. job'[p].at = 1 /\ job'[p].target = job[p].target /\ pc'[p] = "flush"
    BY <2>1, JumpHook DEF Goto, TypeInv, TypeOK, Job
  <2>3. ASSUME undisturbed'[p] PROVE Stage(pc[p], job[p])'
    <3>1. undisturbed[p]
      BY <2>3 DEF ghost
    <3>2. AllJumped'
      <4>1. ASSUME NEW h \in Hooks PROVE Jumped(h)'
        <5>1. PICK k \in 1..Len(JumpOrder) : JumpOrder[k] = h
          BY JumpOrderFacts
        <5>2. k \in 1..at
          BY <1>1, <1>2, <1>6
        <5> QED
          BY <1>4, <3>1, <5>1, <5>2
      <4> QED
        BY <4>1 DEF AllJumped
    <3>3. \A k \in DOMAIN FlushOrder : ~(k < 1)
      BY FlushOrderFacts
    <3> QED
      BY <1>4, <2>2, <3>1, <3>2, <3>3 DEF Stage
  <2> QED
    BY <1>3, <2>1, <2>3, Goes DEF ghost, Steps
<1> QED
  BY <1>5, <1>6

LEMMA JumpKeeps ==
    ASSUME TypeInv, AccessInv, NEW p \in Processes, Jump(p)
    PROVE  AccessInv'
<1>1. PICK at \in DOMAIN JumpOrder : at = job[p].at
  BY JumpHook DEF Jump
<1>2. PICK h \in Hooks : h = JumpOrder[at] /\ parent[h] \in Seq(ParentRule)
  BY <1>1, JumpHook DEF Jump
<1>3. pc[p] = "jump" /\ Busy(p) /\ UNCHANGED <<policies, ghost, swallowed>> /\ job[p] \in Job
  BY JumpHook DEF Jump, Busy, ghost
<1>4. undisturbed[p] => job[p].target = policies /\ JumpedBefore(at)
  BY <1>1, <1>3 DEF AccessInv, Stage
<1>5. OneDockerUser(parent[h])
  BY DEF AccessInv
<1>6. CASE "jump" \in Range(parent[h]) /\ h.table = "nat"
  <2>1. Next1(p, Len(JumpOrder), "jump", "flush") /\ UNCHANGED parent
    BY <1>1, <1>2, <1>6 DEF Jump
  <2>2. Jumped(JumpOrder[at])'
    BY <1>2, <1>6 DEF Jumped
  <2>3. \A g \in Hooks : OneDockerUser(parent[g])' /\ parent'[g] = parent[g]
    BY <2>1 DEF AccessInv
  <2> QED
    BY <1>1, <1>3, <2>1, <2>2, <2>3, NextJump
<1>7. CASE "jump" \in Range(parent[h]) /\ h.table # "nat"
  <2>1. parent' = [parent EXCEPT ![h] = RemoveFirst(@, "jump")] /\ UNCHANGED <<pc, job>>
    BY <1>1, <1>2, <1>7 DEF Jump, control
  <2>2. PICK i \in DOMAIN parent[h] : RemoveFirst(parent[h], "jump") = RemoveAt(parent[h], i)
    BY <1>2, <1>7, FirstFacts
  <2>3. parent'[h] = RemoveAt(parent[h], i) /\ \A g \in Hooks : g # h => parent'[g] = parent[g]
    BY <2>1, <2>2 DEF TypeInv, TypeOK
  <2>4. OneDockerUser(parent'[h])
    BY <1>2, <1>5, <2>3, RemoveKeeps
  <2>5. \A g \in Hooks : OneDockerUser(parent[g])'
    BY <2>3, <2>4 DEF AccessInv
  <2>6. undisturbed[p] => JumpedBefore(at)'
    BY <1>2, <1>3, <1>4, <2>3, EarlierJumps
  <2>7. undisturbed'[p] => Stage(pc[p], job[p])'
    <3>1. undisturbed'[p] => undisturbed[p]
      BY <1>3 DEF ghost
    <3>2. undisturbed'[p] => JumpedBefore(job[p].at)'
      BY <1>1, <2>1, <2>6, <3>1 DEF JumpedBefore
    <3> QED
      BY <1>3, <1>4, <2>1, <3>1, <3>2 DEF Stage
  <2>8. Goto(p, "jump") /\ "jump" \in Steps \ {"idle"}
    BY <1>3, <2>1 DEF Goto, Steps, TypeInv, TypeOK
  <2> QED
    BY <1>3, <2>5, <2>7, <2>8, Goes DEF ghost
<1>8. CASE "jump" \notin Range(parent[h])
  <2> DEFINE place == IF h.table = "forward" THEN Place(parent[h]) ELSE 1
  <2>1. Set(p, at, place) /\ Goto(p, "insert") /\ UNCHANGED parent
    BY <1>1, <1>2, <1>8 DEF Jump
  <2>2. /\ job'[p].at = at /\ job'[p].place = place /\ job'[p].target = job[p].target
        /\ pc'[p] = "insert"
    BY <1>3, <2>1 DEF Set, Goto, TypeInv, TypeOK, Job
  <2>3. Len(parent[h]) \in Nat
    BY <1>2, LenProperties
  <2>4. place <= Len(parent[h]) + 1
    BY <1>2, <2>3, PlaceFacts
  <2>5. ASSUME h.table = "forward", NEW n \in DOMAIN parent[h], parent[h][n] = "docker-user"
        PROVE  n < place
    <3>1. "docker-user" \in Range(parent[h])
      BY <2>5 DEF Range
    <3>2. PICK m \in DOMAIN parent[h] : parent[h][m] = "docker-user" /\ Place(parent[h]) = m + 1
      BY <1>2, <3>1, PlaceFacts
    <3>3. n = m
      BY <1>5, <2>5, <3>2 DEF OneDockerUser
    <3>4. m \in Nat
      BY <1>2, LenProperties
    <3> QED
      BY <2>5, <3>2, <3>3, <3>4
  <2> HIDE DEF place
  <2>6. ASSUME undisturbed'[p] PROVE Stage(pc[p], job[p])'
    <3>1. undisturbed[p]
      BY <1>3, <2>6 DEF ghost
    <3>2. JumpedBefore(at)'
      BY <1>3, <1>4, <2>1, <3>1, EarlierJumps
    <3>3. JumpedBefore(job[p].at)'
      BY <2>2, <3>2 DEF JumpedBefore
    <3>4. Cleared(JumpOrder[job[p].at], job[p].place)'
      BY <1>2, <1>8, <2>1, <2>2, <2>4, <2>5 DEF Cleared
    <3> QED
      BY <1>3, <1>4, <2>2, <3>1, <3>3, <3>4 DEF Stage
  <2>7. \A g \in Hooks : OneDockerUser(parent[g])'
    BY <2>1 DEF AccessInv
  <2> QED
    BY <1>3, <2>1, <2>6, <2>7, Goes DEF ghost, Steps
<1> QED
  BY <1>6, <1>7, <1>8

LEMMA InsertKeepsInv ==
    ASSUME TypeInv, AccessInv, NEW p \in Processes, Insert(p)
    PROVE  AccessInv'
<1>1. PICK at \in DOMAIN JumpOrder : at = job[p].at
  BY JumpHook DEF Insert
<1>2. PICK h \in Hooks : h = JumpOrder[at] /\ parent[h] \in Seq(ParentRule)
  BY <1>1, JumpHook DEF Insert
<1>3. PICK place \in Nat \ {0} : place = job[p].place
  BY JumpHook DEF Insert, Job
<1>4. pc[p] = "insert" /\ Busy(p) /\ UNCHANGED policies
  BY DEF Insert, Busy
<1>5. OneDockerUser(parent[h])
  BY DEF AccessInv
<1>6. CASE place <= Len(parent[h]) + 1
  <2>1. /\ parent' = [parent EXCEPT ![h] = InsertAt(@, place, "jump")]
        /\ Next1(p, Len(JumpOrder), "jump", "flush") /\ UNCHANGED ghost
    BY <1>1, <1>2, <1>3, <1>6 DEF Insert
  <2>2. parent'[h] = InsertAt(parent[h], place, "jump") /\ \A g \in Hooks : g # h => parent'[g] = parent[g]
    BY <2>1 DEF TypeInv, TypeOK
  <2>3. place \in 1..(Len(parent[h]) + 1)
    BY <1>2, <1>6, LenProperties
  <2>4. /\ OneDockerUser(parent'[h]) /\ "jump" \in Range(parent'[h])
        /\ "jump" \notin Range(parent[h]) =>
              /\ Once(parent'[h])
              /\ (\A n \in DOMAIN parent[h] : parent[h][n] = "docker-user" => n < place) => Behind(parent'[h])
    BY <1>2, <1>5, <2>2, <2>3, InsertKeeps
  <2>5. \A g \in Hooks : OneDockerUser(parent[g])'
    BY <2>2, <2>4 DEF AccessInv
  <2>6. undisturbed[p] => Jumped(JumpOrder[at])'
    <3>1. ASSUME undisturbed[p] PROVE Cleared(h, place)
      BY <1>1, <1>2, <1>3, <1>4, <3>1 DEF AccessInv, Stage
    <3>2. swallowed' = swallowed
      BY <2>1 DEF ghost
    <3>3. ASSUME undisturbed[p]
          PROVE  /\ h.table # "nat" /\ "delete" \notin swallowed => Once(parent'[h])
                 /\ h.table = "forward" /\ swallowed = {} => Behind(parent'[h])
      BY <2>4, <3>1, <3>3 DEF Cleared
    <3> QED
      BY <1>2, <2>4, <3>2, <3>3 DEF Jumped
  <2> QED
    BY <1>1, <1>2, <1>4, <2>1, <2>2, <2>5, <2>6, NextJump
<1>7. CASE ~(place <= Len(parent[h]) + 1)
  <2>1. Finish(p, "error") /\ UNCHANGED parent
    BY <1>1, <1>2, <1>3, <1>7 DEF Insert
  <2>2. \A g \in Hooks : OneDockerUser(parent[g])'
    BY <2>1 DEF AccessInv
  <2> QED
    BY <1>4, <2>1, <2>2, Ends
<1> QED
  BY <1>6, <1>7

LEMMA FlushKeeps ==
    ASSUME TypeInv, AccessInv, NEW p \in Processes, pc[p] = "flush",
           Next1(p, Len(FlushOrder), "flush", "append"),
           UNCHANGED <<policies, parent, ghost>>,
           NEW g, g = FlushOrder[job[p].at], g.table # "nat" => chain'[g] = <<>>,
           \A h \in Hooks : h # g => chain'[h] = chain[h]
    PROVE  AccessInv'
<1>1. PICK at \in 1..Len(FlushOrder) : at = job[p].at
  BY FlushOrderFacts DEF TypeInv, PosOK
<1>2. /\ Len(FlushOrder) \in Nat /\ DOMAIN FlushOrder = 1..Len(FlushOrder)
      /\ \A k \in 1..Len(FlushOrder) : FlushOrder[k] \in Hooks
  BY FlushOrderFacts, ElementOfSeq
<1>3. Busy(p) /\ swallowed' = swallowed /\ job[p] \in Job
  BY DEF Busy, ghost, TypeInv, TypeOK
<1>4. /\ FlushOrder[at].table # "nat" => chain'[FlushOrder[at]] = <<>>
      /\ \A h \in Hooks : h # FlushOrder[at] => chain'[h] = chain[h]
  BY <1>1
<1>5. ASSUME undisturbed'[p]
      PROVE  /\ undisturbed[p] /\ job[p].target = policies' /\ AllJumped'
             /\ \A k \in 1..at : FlushOrder[k].table # "nat" => chain'[FlushOrder[k]] = <<>>
  <2>1. undisturbed[p] /\ Stage(pc[p], job[p])
    BY <1>5 DEF AccessInv, ghost
  <2>2. job[p].target = policies' /\ AllJumped'
    BY <1>3, <2>1 DEF Stage, AllJumped, Jumped
  <2>3. ASSUME NEW k \in 1..at, FlushOrder[k].table # "nat" PROVE chain'[FlushOrder[k]] = <<>>
    <3>1. k \in 1..Len(FlushOrder) /\ k \in DOMAIN FlushOrder /\ FlushOrder[k] \in Hooks
      BY <1>2
    <3>2. k # at => chain[FlushOrder[k]] = <<>>
      BY <1>1, <2>1, <2>3, <3>1 DEF Stage
    <3> QED
      BY <1>4, <2>3, <3>1, <3>2
  <2> QED
    BY <2>1, <2>2, <2>3
<1>6. \A h \in Hooks : OneDockerUser(parent[h])'
  BY DEF AccessInv
<1>7. CASE at < Len(FlushOrder)
  <2>1. Goto(p, "flush") /\ job' = [job EXCEPT ![p] = [@ EXCEPT !.at = at + 1, !.place = 1]]
    BY <1>1, <1>7 DEF Next1, Set
  <2>2. job'[p].at = at + 1 /\ job'[p].target = job[p].target /\ pc'[p] = "flush"
    BY <1>3, <2>1 DEF Goto, TypeInv, TypeOK, Job
  <2>3. ASSUME undisturbed'[p] PROVE Stage(pc[p], job[p])'
    <3>1. \A k \in DOMAIN FlushOrder :
             k < at + 1 /\ FlushOrder[k].table # "nat" => chain'[FlushOrder[k]] = <<>>
      BY <1>2, <1>5, <2>3
    <3> QED
      BY <1>5, <2>2, <2>3, <3>1 DEF Stage
  <2> QED
    BY <1>3, <1>6, <2>1, <2>3, Goes DEF ghost, Steps
<1>8. CASE ~(at < Len(FlushOrder))
  <2>1. Goto(p, "append") /\ job' = [job EXCEPT ![p] = [@ EXCEPT !.at = 1, !.place = 1]]
    BY <1>1, <1>8 DEF Next1, Set
  <2>2. job'[p].at = 1 /\ job'[p].target = job[p].target /\ pc'[p] = "append"
    BY <1>3, <2>1 DEF Goto, TypeInv, TypeOK, Job
  <2>3. ASSUME undisturbed'[p] PROVE Stage(pc[p], job[p])'
    <3>1. ASSUME NEW h \in Hooks, h.table # "nat" PROVE chain'[h] = <<>>
      <4>1. PICK k \in 1..Len(FlushOrder) : FlushOrder[k] = h
        BY FlushOrderFacts
      <4>2. k \in 1..at
        BY <1>2, <1>8
      <4> QED
        BY <1>5, <2>3, <3>1, <4>1, <4>2
    <3>2. ASSUME NEW cs PROVE Built(cs, 0)'
      <4>1. \A h \in Hooks, i \in Names, s \in Sources, d \in Destinations :
               h.table # "nat" => Undecided(chain'[h], i, s, d)
        BY <3>1 DEF Undecided
      <4>2. \A h, i, s, d, v : ~Settles(cs, 0, h, i, s, d, v)
        BY DEF Settles
      <4> QED
        BY <4>1, <4>2 DEF Built
    <3>3. Built(Rendering(job[p].target), job[p].at - 1)'
      <4>1. job'[p].at - 1 = 0
        BY <2>2
      <4> QED
        BY <3>2, <4>1 DEF Built
    <3> QED
      BY <1>5, <2>2, <2>3, <3>3 DEF Stage
  <2> QED
    BY <1>3, <1>6, <2>1, <2>3, Goes DEF ghost, Steps
<1> QED
  BY <1>7, <1>8

LEMMA AppendKeeps ==
    ASSUME TypeInv, AccessInv, NEW p \in Processes, AppendRule(p)
    PROVE  AccessInv'
<1>1. pc[p] = "append" /\ Busy(p) /\ UNCHANGED <<policies, parent, swallowed>> /\ job[p] \in Job
  <2>1. UNCHANGED swallowed
    BY DEF AppendRule, Finish, ghost
  <2> QED
    BY <2>1 DEF AppendRule, Busy, TypeInv, TypeOK
<1>2. PICK conf \in Config : conf = job[p].target
  BY <1>1 DEF Job
<1>3. PICK cs \in Seq(Command) : cs = Rendering(conf) /\ Len(cs) \in Nat /\ DOMAIN cs = 1..Len(cs)
  BY RenderingFacts
<1>4. PICK at \in 1..Len(cs) : at = job[p].at
  BY <1>1, <1>2, <1>3 DEF TypeInv, PosOK
<1>5. \A h \in Hooks : OneDockerUser(parent[h])'
  BY <1>1 DEF AccessInv
<1>6. CASE cs[at].hook = None
  <2>1. Finish(p, "error")
    BY <1>2, <1>3, <1>4, <1>6 DEF AppendRule
  <2> QED
    BY <1>1, <1>5, <2>1, Ends
<1>7. CASE cs[at].hook # None
  <2>1. /\ chain' = [chain EXCEPT ![cs[at].hook] = Append(@, cs[at].rule)]
        /\ IF at < Len(cs) THEN Set(p, at + 1, 1) /\ UNCHANGED <<pc, ghost>> ELSE Finish(p, "done")
    BY <1>2, <1>3, <1>4, <1>7 DEF AppendRule
  <2>2. ASSUME undisturbed[p]
        PROVE  conf = policies /\ AllJumped' /\ Built(cs, at)'
    <3>1. Stage(pc[p], job[p])
      BY <2>2 DEF AccessInv
    <3>2. conf = policies /\ AllJumped /\ Built(cs, at - 1)
      BY <1>1, <1>2, <1>3, <1>4, <3>1 DEF Stage
    <3>3. AllJumped'
      BY <1>1, <3>2 DEF AllJumped, Jumped
    <3>4. PICK n \in Nat : n = at - 1 /\ n + 1 = at
      BY <1>4
    <3>5. Built(cs, n) /\ n + 1 \in 1..Len(cs)
      BY <1>4, <3>2, <3>4
    <3>6. PICK c : c = cs[n + 1]
      OBVIOUS
    <3>7. Built(cs, n + 1)'
      <4>1. c.hook # None /\ chain' = [chain EXCEPT ![c.hook] = Append(@, c.rule)]
        BY <1>7, <2>1, <3>4, <3>6
      <4> QED
        BY <3>5, <3>6, <4>1, BuiltNext
    <3>8. Built(cs, at)'
      BY <3>4, <3>7
    <3> QED
      BY <3>2, <3>3, <3>8
  <2>3. CASE at < Len(cs)
    <3>1. job' = [job EXCEPT ![p] = [@ EXCEPT !.at = at + 1, !.place = 1]] /\ UNCHANGED <<pc, ghost>>
      BY <2>1, <2>3 DEF Set
    <3>2. job'[p].at = at + 1 /\ job'[p].target = conf /\ pc'[p] = "append"
      BY <1>1, <1>2, <3>1 DEF TypeInv, TypeOK, Job
    <3>3. Goto(p, "append") /\ "append" \in Steps \ {"idle"}
      BY <1>1, <3>1 DEF Goto, Steps, TypeInv, TypeOK
    <3>4. ASSUME undisturbed'[p] PROVE Stage(pc[p], job[p])'
      <4>1. undisturbed[p]
        BY <3>1, <3>4 DEF ghost
      <4>2. job'[p].at - 1 = at
        BY <1>4, <3>2
      <4>3. Built(Rendering(job[p].target), job[p].at - 1)'
        BY <1>3, <2>2, <3>2, <4>1, <4>2 DEF Built
      <4> QED
        BY <1>1, <2>2, <3>2, <4>1, <4>3 DEF Stage
    <3> QED
      BY <1>1, <1>5, <3>1, <3>3, <3>4, Goes DEF ghost
  <2>4. CASE ~(at < Len(cs))
    <3>1. Finish(p, "done") /\ at = Len(cs)
      BY <1>3, <1>4, <2>1, <2>4
    <3>2. undisturbed[p] => AllJumped' /\ AllBuilt(policies)'
      <4>1. ASSUME undisturbed[p] PROVE AllBuilt(policies)'
        <5>1. conf = policies' /\ Rendering(policies') = cs /\ Len(Rendering(policies')) = at
          BY <1>1, <1>3, <2>2, <3>1, <4>1
        <5>2. Built(Rendering(policies), Len(Rendering(policies)))'
          BY <2>2, <4>1, <5>1 DEF Built
        <5> QED
          BY <5>2 DEF AllBuilt
      <4> QED
        BY <2>2, <4>1
    <3> QED
      BY <1>1, <1>5, <3>1, <3>2, Ends
  <2> QED
    BY <2>3, <2>4
<1> QED
  BY <1>6, <1>7

LEMMA InitAccessInv ==
    ASSUME Init
    PROVE  AccessInv
<1>1. ASSUME NEW h \in Hooks PROVE OneDockerUser(parent[h])
  <2>1. parent[h] = <<"docker-user">> \/ parent[h] = <<>>
    BY DEF Init, ParentAtStart
  <2> QED
    BY <2>1 DEF OneDockerUser
<1> QED
  BY <1>1 DEF Init, AccessInv, Alone, Busy

LEMMA NextAccessInv ==
    ASSUME TypeInv, AccessInv, [Next]_vars
    PROVE  AccessInv'
<1>1. \A r \in Requests : r \in Processes
  BY DEF Processes
<1>2. UNCHANGED parent => \A h \in Hooks : OneDockerUser(parent[h])'
  BY DEF AccessInv
<1>3. ASSUME NEW r \in Requests, StartCreate(r) \/ StartChange(r) PROVE AccessInv'
  <2>1. PICK j : Begin(r, "truncate", j)
    BY <1>3 DEF StartCreate, StartChange
  <2>2. UNCHANGED parent
    BY <1>3 DEF StartCreate, StartChange, kernel
  <2>3. Stage("truncate", j)'
    BY DEF Stage
  <2>4. "truncate" \in Steps \ {"idle"}
    BY DEF Steps
  <2> QED
    BY <1>1, <2>1, <2>2, <2>3, <2>4, Begins
<1>4. CASE StartBoot
  <2>1. PICK j : Begin(Boot, "jump", j) /\ j.at = 1 /\ j.target = policies
    <3>1. [NoJob EXCEPT !.op = "boot", !.target = policies].at = 1
      BY DEF NoJob
    <3>2. [NoJob EXCEPT !.op = "boot", !.target = policies].target = policies
      BY DEF NoJob
    <3> QED
      BY <1>4, <3>1, <3>2 DEF StartBoot
  <2>2. UNCHANGED parent /\ policies' = policies
    BY <1>4 DEF StartBoot, kernel
  <2>3. Stage("jump", j)'
    <3>1. JumpedBefore(j.at)'
      BY <2>1, JumpOrderFacts DEF JumpedBefore
    <3> QED
      BY <2>1, <2>2, <3>1 DEF Stage
  <2>4. "jump" \in Steps \ {"idle"} /\ Boot \in Processes
    BY DEF Steps, Processes
  <2> QED
    BY <2>1, <2>2, <2>3, <2>4, Begins
<1>5. ASSUME NEW r \in Requests, Truncate(r) PROVE AccessInv'
  <2>1. pc'[r] = "write" /\ Goto(r, "write") /\ "write" \in Steps \ {"idle"} /\ Busy(r)
    BY <1>1, <1>5 DEF Truncate, Goto, Steps, Busy, TypeInv, TypeOK
  <2>2. Stage(pc[r], job[r])'
    BY <2>1 DEF Stage
  <2>3. UNCHANGED <<parent, undisturbed, outcome>>
    BY <1>5 DEF Truncate, kernel, ghost
  <2> QED
    BY <1>1, <1>2, <2>1, <2>2, <2>3, Goes
<1>6. ASSUME NEW r \in Requests, Write(r) PROVE AccessInv'
  <2>1. Busy(r) /\ UNCHANGED parent
    BY <1>6 DEF Write, Busy, kernel
  <2>2. CASE Finish(r, "saved")
    BY <1>1, <1>2, <2>1, <2>2, Ends
  <2>3. CASE Goto(r, "jump") /\ UNCHANGED <<job, ghost>>
    <3>1. job'[r].at = 1 /\ job'[r].target = policies' /\ pc'[r] = "jump"
      BY <1>1, <1>6, <2>3 DEF Write, Goto, TypeInv, TypeOK, PosOK
    <3>2. JumpedBefore(job[r].at)'
      BY <3>1, JumpOrderFacts DEF JumpedBefore
    <3>3. Stage(pc[r], job[r])'
      BY <3>1, <3>2 DEF Stage
    <3>4. "jump" \in Steps \ {"idle"}
      BY DEF Steps
    <3> QED
      BY <1>1, <1>2, <2>1, <2>3, <3>3, <3>4, Goes DEF ghost
  <2> QED
    BY <1>6, <2>2, <2>3 DEF Write
<1>7. ASSUME NEW p \in Processes, CommandFails(p) PROVE AccessInv'
  <2>1. Busy(p) /\ UNCHANGED parent /\ Finish(p, "error")
    BY <1>7 DEF CommandFails, Busy, kernel
  <2> QED
    BY <1>2, <2>1, Ends
<1>8. ASSUME NEW r \in Requests, SaveFails(r) PROVE AccessInv'
  <2>1. Busy(r) /\ UNCHANGED parent /\ Finish(r, "error")
    BY <1>8 DEF SaveFails, Busy, kernel
  <2> QED
    BY <1>1, <1>2, <2>1, Ends
<1>9. ASSUME NEW p \in Processes, pc[p] = "jump", Goto(p, "insert"),
              UNCHANGED <<policies, parent, undisturbed, outcome>>, swallowed \subseteq swallowed',
              NEW at \in DOMAIN JumpOrder, at = job[p].at,
              NEW place \in Nat \ {0}, Set(p, at, place), Cleared(JumpOrder[at], place)'
       PROVE  AccessInv'
  <2>1. Busy(p) /\ job[p] \in Job
    BY <1>9 DEF Busy, TypeInv, TypeOK
  <2>2. /\ job'[p].at = at /\ job'[p].place = place /\ job'[p].target = job[p].target
        /\ pc'[p] = "insert"
    BY <1>9, <2>1 DEF Set, Goto, TypeInv, TypeOK, Job
  <2>3. ASSUME undisturbed'[p] PROVE Stage(pc[p], job[p])'
    <3>1. job[p].target = policies /\ JumpedBefore(at)
      BY <1>9, <2>3 DEF AccessInv, Stage
    <3>2. JumpedBefore(at)'
      BY <1>9, <3>1, EarlierJumps
    <3>3. JumpedBefore(job[p].at)'
      BY <2>2, <3>2 DEF JumpedBefore
    <3>4. Cleared(JumpOrder[job[p].at], job[p].place)'
      BY <1>9, <2>2 DEF Cleared
    <3> QED
      BY <1>9, <2>2, <3>1, <3>3, <3>4 DEF Stage
  <2>4. "insert" \in Steps \ {"idle"}
    BY DEF Steps
  <2> QED
    BY <1>2, <1>9, <2>1, <2>3, <2>4, Goes
<1>10. ASSUME NEW p \in Processes, ListFails(p) PROVE AccessInv'
  <2>1. PICK at \in DOMAIN JumpOrder : at = job[p].at
    BY <1>10, JumpHook DEF ListFails
  <2>2. PICK h \in Hooks : h = JumpOrder[at] /\ parent[h] \in Seq(ParentRule)
    BY <1>10, <2>1, JumpHook DEF ListFails
  <2>3. /\ pc[p] = "jump" /\ Set(p, at, 1) /\ Goto(p, "insert") /\ UNCHANGED parent
        /\ swallowed' = swallowed \cup {"list"} /\ "jump" \notin Range(parent[h])
        /\ UNCHANGED <<policies, undisturbed, outcome>>
    BY <1>10, <2>1, <2>2 DEF ListFails, kernel
  <2>4. 1 <= Len(parent[h]) + 1
    BY <2>2, LenProperties
  <2>5. Cleared(h, 1)'
    BY <2>3, <2>4 DEF Cleared
  <2> QED
    BY <1>9, <2>1, <2>2, <2>3, <2>5
<1>11. ASSUME NEW p \in Processes, JumpMissed(p) PROVE AccessInv'
  <2>1. PICK at \in DOMAIN JumpOrder : at = job[p].at
    BY <1>11, JumpHook DEF JumpMissed
  <2>2. PICK h \in Hooks : h = JumpOrder[at] /\ parent[h] \in Seq(ParentRule)
    BY <1>11, <2>1, JumpHook DEF JumpMissed
  <2>3. PICK place \in {1} \cup (IF h.table = "forward" THEN {Place(parent[h])} ELSE {}) : Set(p, at, place)
    BY <1>11, <2>1, <2>2 DEF JumpMissed
  <2>4. /\ pc[p] = "jump" /\ Goto(p, "insert") /\ UNCHANGED <<policies, parent, undisturbed, outcome>>
        /\ swallowed \subseteq swallowed' /\ (h.table # "nat" => "delete" \in swallowed')
    BY <1>11, <2>1, <2>2 DEF JumpMissed, kernel
  <2>5. Len(parent[h]) \in Nat /\ Place(parent[h]) \in 1..(Len(parent[h]) + 1)
    BY <2>2, LenProperties, PlaceFacts
  <2>6. place \in Nat \ {0} /\ place <= Len(parent[h]) + 1
    BY <2>5
  <2>7. h.table = "forward" => h.table # "nat"
    OBVIOUS
  <2>8. Cleared(h, place)'
    BY <2>4, <2>6, <2>7 DEF Cleared
  <2> QED
    BY <1>9, <2>1, <2>2, <2>3, <2>4, <2>6, <2>8
<1>12. ASSUME NEW p \in Processes, NatFails(p) PROVE AccessInv'
  <2>1. /\ UNCHANGED <<policies, parent, chain, ghost>>
        /\ pc[p] = "insert" => /\ Next1(p, Len(JumpOrder), "jump", "flush")
                               /\ JumpOrder[job[p].at] = Hook("nat", 6)
        /\ pc[p] # "insert" => /\ pc[p] = "flush" /\ Next1(p, Len(FlushOrder), "flush", "append")
                               /\ FlushOrder[job[p].at] = Hook("nat", 6)
    BY <1>12 DEF NatFails, Optional, kernel
  <2>2. Hook("nat", 6).table = "nat"
    BY DEF Hook
  <2>3. CASE pc[p] = "insert"
    <3>1. PICK at : at = job[p].at
      OBVIOUS
    <3>2. JumpOrder[at].table = "nat"
      BY <2>1, <2>2, <2>3, <3>1
    <3>3. Jumped(JumpOrder[at])'
      BY <3>2 DEF Jumped
    <3>4. \A h \in Hooks : parent'[h] = parent[h]
      BY <2>1
    <3> QED
      BY <1>2, <2>1, <2>3, <3>1, <3>3, <3>4, NextJump
  <2>4. CASE pc[p] # "insert"
    BY <2>1, <2>2, <2>4, FlushKeeps
  <2> QED
    BY <2>3, <2>4
<1>13. ASSUME NEW p \in Processes, Flush(p) PROVE AccessInv'
  <2>1. PICK g \in Hooks : g = FlushOrder[job[p].at]
    BY <1>13, FlushOrderFacts, ElementOfSeq DEF Flush, TypeInv, PosOK
  <2>2. chain'[g] = <<>> /\ \A h \in Hooks : h # g => chain'[h] = chain[h]
    BY <1>13, <2>1 DEF Flush, TypeInv, TypeOK
  <2> QED
    BY <1>13, <2>1, <2>2, FlushKeeps DEF Flush
<1>14. ASSUME Stop, \A h \in Hooks : OneDockerUser(parent[h])' PROVE AccessInv'
  BY <1>14 DEF Stop, AccessInv, Alone, Busy
<1>15. CASE Crash
  BY <1>2, <1>14, <1>15 DEF Crash, kernel
<1>16. CASE Reboot
  <2>1. ASSUME NEW h \in Hooks PROVE OneDockerUser(parent'[h])
    <3>1. parent'[h] = <<"docker-user">> \/ parent'[h] = <<>>
      BY <1>16 DEF Reboot, ParentAtStart
    <3> QED
      BY <3>1 DEF OneDockerUser
  <2> QED
    BY <1>14, <1>16, <2>1 DEF Reboot
<1>17. ASSUME NEW f \in Range(Families), DockerRestart(f) PROVE AccessInv'
  <2>1. PICK h \in Hooks : h = Hook("forward", f)
    BY DEF Hooks
  <2>2. PICK t : t = <<"docker-user">> \o RemoveFirst(parent[h], "docker-user")
    OBVIOUS
  <2>3. parent'[h] = t /\ \A g \in Hooks : g # h => parent'[g] = parent[g]
    BY <1>17, <2>1, <2>2 DEF DockerRestart, TypeInv, TypeOK
  <2>4. parent[h] \in Seq(ParentRule) /\ OneDockerUser(parent[h])
    BY DEF TypeInv, TypeOK, AccessInv
  <2>5. /\ OneDockerUser(t) /\ Behind(t) /\ (Once(parent[h]) => Once(t))
        /\ ("jump" \in Range(parent[h]) => "jump" \in Range(t))
    BY <2>2, <2>4, DockerKeeps
  <2>6. swallowed' = swallowed
    BY <1>17 DEF DockerRestart, Intervene
  <2>7. ASSUME NEW g \in Hooks PROVE OneDockerUser(parent[g])' /\ (Jumped(g) => Jumped(g)')
    <3>1. CASE g = h
      BY <2>3, <2>5, <2>6, <3>1 DEF Jumped
    <3>2. CASE g # h
      BY <2>3, <2>6, <3>2 DEF Jumped, AccessInv
    <3> QED
      BY <3>1, <3>2
  <2> QED
    BY <1>17, <2>7, Intervenes DEF DockerRestart
<1>18. ASSUME NEW h \in Hooks, ForeignInsert(h) PROVE AccessInv'
  <2>1. parent'[h] = <<"other">> \o parent[h] /\ \A g \in Hooks : g # h => parent'[g] = parent[g]
    BY <1>18 DEF ForeignInsert, TypeInv, TypeOK
  <2>2. parent[h] \in Seq(ParentRule) /\ OneDockerUser(parent[h])
    BY DEF TypeInv, TypeOK, AccessInv
  <2>3. /\ OneDockerUser(parent'[h])
        /\ Once(parent[h]) => Once(parent'[h])
        /\ "jump" \in Range(parent[h]) => "jump" \in Range(parent'[h])
        /\ Behind(parent[h]) => Behind(parent'[h])
    <3>1. \A e \in {"docker-user", "other"} : (e = "docker-user" => "docker-user" \notin Range(parent[h])) =>
             /\ OneDockerUser(parent[h]) => OneDockerUser(<<e>> \o parent[h])
             /\ Once(parent[h]) => Once(<<e>> \o parent[h])
             /\ "jump" \in Range(parent[h]) => "jump" \in Range(<<e>> \o parent[h])
             /\ Behind(parent[h]) \/ e = "docker-user" => Behind(<<e>> \o parent[h])
      BY <2>2, PrependKeeps
    <3> QED
      BY <2>1, <2>2, <3>1
  <2>4. swallowed' = swallowed
    BY <1>18 DEF ForeignInsert, Intervene
  <2>5. ASSUME NEW g \in Hooks PROVE OneDockerUser(parent[g])' /\ (Jumped(g) => Jumped(g)')
    <3>1. CASE g = h
      BY <2>3, <2>4, <3>1 DEF Jumped
    <3>2. CASE g # h
      BY <2>1, <2>4, <3>2 DEF Jumped, AccessInv
    <3> QED
      BY <3>1, <3>2
  <2> QED
    BY <1>18, <2>5, Intervenes DEF ForeignInsert
<1>19. CASE UNCHANGED vars
  <2>1. UNCHANGED <<policies, parent, chain, pc, job, undisturbed, swallowed, outcome>>
    BY <1>19 DEF vars, kernel, control, ghost
  <2> QED
    BY <2>1 DEF AccessInv, Alone, Busy, AllJumped, Jumped, AllBuilt, Built, Stage, JumpedBefore, Cleared
<1> QED
  BY <1>3, <1>4, <1>5, <1>6, <1>7, <1>8, <1>10, <1>15, <1>16, <1>17, <1>18, <1>11, <1>12,
     <1>13, <1>19, JumpKeeps, InsertKeepsInv, AppendKeeps DEF Next

-----------------------------------------------------------------------------
\* What the invariant says of the system.

LEMMA VerdictIs ==
    ASSUME NEW rules \in Seq(Rule), NEW i, NEW s, NEW d, NEW v, Decides(rules, i, s, d, v)
    PROVE  Verdict(rules, i, s, d) = v
<1>1. PICK k \in DOMAIN rules : /\ Matches(rules[k], i, s, d) /\ rules[k].verdict = v
                                /\ \A l \in 1..(k - 1) : ~Matches(rules[l], i, s, d)
  BY DEF Decides
<1> DEFINE hits == {n \in DOMAIN rules : Matches(rules[n], i, s, d)}
           first == CHOOSE n \in hits : \A m \in hits : n <= m
<1>2. Len(rules) \in Nat /\ DOMAIN rules = 1..Len(rules)
  BY LenProperties
<1>3. k \in hits /\ \A m \in hits : k <= m
  BY <1>1, <1>2
<1>4. first \in hits /\ \A m \in hits : first <= m
  BY <1>3
<1>5. hits \subseteq Nat /\ hits # {}
  BY <1>2, <1>3
<1>6. Verdict(rules, i, s, d) = rules[first].verdict
  BY <1>5 DEF Verdict
<1> HIDE DEF hits, first
<1>7. first = k
  BY <1>3, <1>4, <1>5
<1> QED
  BY <1>1, <1>6, <1>7

LEMMA ChainsDecide ==
    ASSUME TypeInv, AllBuilt(policies),
           NEW u \in {"raw", "forward"}, NEW f \in Range(Families),
           NEW i \in Names, NEW s \in Sources, NEW d \in Destinations
    PROVE  Verdict(chain[Hook(u, f)], i, s, d) = Decision(policies, u, i, f, s, d)
<1> DEFINE cs == Rendering(policies)
<1>1. policies \in Config
  BY DEF TypeInv, TypeOK
<1>2. cs = Commands(policies) /\ cs \in Seq(Command) /\ DOMAIN cs = 1..Len(cs)
  BY <1>1, RenderingIs, RenderingFacts
<1>3. Built(cs, Len(cs))
  BY DEF AllBuilt
<1> HIDE DEF cs
<1>4. PICK h \in Hooks : h = Hook(u, f) /\ h.table # "nat"
  <2>1. Hook(u, f).table = u /\ Hook(u, f) \in Hooks
    BY DEF Hooks, Hook
  <2> QED
    BY <2>1
<1>5. PICK v : v = Decision(policies, u, i, f, s, d)
  OBVIOUS
<1>6. v \in Verdicts /\ v # "none"
  BY <1>5 DEF Decision, Or, Share, Wish, Bypass, Verdicts
<1>7. Throw1 \notin Range(cs)
  <2>1. Throw1.hook = None
    BY DEF Throw1
  <2>2. \A k \in DOMAIN cs : cs[k].hook # None
    BY <1>2, <1>3 DEF Built
  <2> QED
    BY <2>1, <2>2 DEF Range
<1>8. Gives(cs, h, i, s, d, v)
  <2>1. Throw1 \notin Range(Commands(policies)) =>
          Gives(Commands(policies), Hook(u, f), i, s, d, Decision(policies, u, i, f, s, d))
    BY <1>1, CommandsGive
  <2> QED
    BY <1>2, <1>4, <1>5, <1>7, <2>1
<1>9. Settles(cs, Len(cs), h, i, s, d, v)
  BY <1>6, <1>8 DEF Gives, Says
<1>10. Decides(chain[h], i, s, d, v)
  BY <1>3, <1>4, <1>6, <1>9 DEF Built
<1>11. chain[h] \in Seq(Rule)
  BY DEF TypeInv, TypeOK
<1>12. Verdict(chain[h], i, s, d) = v
  BY <1>10, <1>11, VerdictIs
<1> QED
  BY <1>4, <1>5, <1>12

LEMMA InvariantEnforces ==
    ASSUME TypeInv, AccessInv
    PROVE  PolicyEnforced
<1> SUFFICES ASSUME outcome = "done" PROVE PolicyEnforced
  BY DEF PolicyEnforced
<1>1. AllJumped /\ AllBuilt(policies)
  BY DEF AccessInv
<1>2. ASSUME NEW i \in Names, NEW f \in Range(Families), NEW s \in Sources, NEW d \in Destinations
      PROVE  /\ Verdict(chain[Hook("forward", f)], i, s, d) = Promised(i, f, s, d)
             /\ \/ Verdict(chain[Hook("raw", f)], i, s, d) = "return"
                \/ Promised(i, f, s, d) = "accept" /\ d \in policies[i].docker
             /\ Promised(i, f, s, d) = "accept" /\ d \in policies[i].docker =>
                    Verdict(chain[Hook("raw", f)], i, s, d) = "accept"
  <2>1. /\ Verdict(chain[Hook("forward", f)], i, s, d) = Decision(policies, "forward", i, f, s, d)
        /\ Verdict(chain[Hook("raw", f)], i, s, d) = Decision(policies, "raw", i, f, s, d)
    BY <1>1, ChainsDecide
  <2>2. Decision(policies, "forward", i, f, s, d) = Promised(i, f, s, d)
    BY DEF Decision, Or, Share, Wish, Promised
  <2>3. Decision(policies, "raw", i, f, s, d) =
          IF Promised(i, f, s, d) = "accept" /\ d \in policies[i].docker THEN "accept" ELSE "return"
    BY DEF Decision, Or, Share, Bypass, Promised, Selected
  <2> QED
    BY <2>1, <2>2, <2>3
<1>3. ASSUME NEW h \in Hooks, h.table # "nat" PROVE "jump" \in Range(parent[h])
  BY <1>1, <1>3 DEF AllJumped, Jumped
<1>4. ASSUME NEW h \in Hooks, h.table # "nat", "delete" \notin swallowed PROVE JumpedOnce(h)
  <2>1. PICK n \in DOMAIN parent[h] : \A m \in DOMAIN parent[h] : parent[h][m] = "jump" <=> m = n
    BY <1>1, <1>4 DEF AllJumped, Jumped, Once
  <2>2. {m \in DOMAIN parent[h] : parent[h][m] = "jump"} = {n}
    BY <2>1
  <2> QED
    BY <2>2, FS_Singleton DEF JumpedOnce
<1> QED
  BY <1>2, <1>4, <1>3 DEF PolicyEnforced

LEMMA InvariantOrders ==
    ASSUME AccessInv
    PROVE  DockerUserFirst
<1> SUFFICES ASSUME outcome = "done", swallowed = {}, NEW f \in Range(Families)
             PROVE  Behind(parent[Hook("forward", f)])
  BY DEF DockerUserFirst, Behind
<1>1. Hook("forward", f) \in Hooks /\ Hook("forward", f).table = "forward"
  BY DEF Hooks, Hook
<1> QED
  BY <1>1 DEF AccessInv, AllJumped, Jumped

\* The policies that are enforced: after an operation that was reported as done,
\* and that no other has overlapped, the forward and raw chains decide for every
\* interface, source and destination what the policies in state.json promise, and
\* each parent chain sends the packets there: once, unless this very operation has
\* passed over the failing deletion of a jump. For any policies, whatever had
\* failed, crashed or overlapped before it, and whatever has failed silently in it.
THEOREM PoliciesAreEnforced == Spec => []PolicyEnforced
<1>1. Init => TypeInv /\ AccessInv
  BY InitTypes, InitAccessInv
<1>2. TypeInv /\ AccessInv /\ [Next]_vars => TypeInv' /\ AccessInv'
  BY NextTypeInv, NextAccessInv
<1>3. TypeInv /\ AccessInv => PolicyEnforced
  BY InvariantEnforces
<1> QED
  BY <1>1, <1>2, <1>3, PTL DEF Spec

\* The jump to the forward chain of WireGuard stays behind the one to DOCKER-USER,
\* where the rules of the firewall are, from the moment an operation is reported
\* as done until the next one begins or the process ends: also when Docker is
\* restarted, or another program inserts a rule. Excepted is the operation that
\* has passed over the failing deletion of a jump or the failing listing of FORWARD.
THEOREM DockerUserIsFirst == Spec => []DockerUserFirst
<1>1. Init => TypeInv /\ AccessInv
  BY InitTypes, InitAccessInv
<1>2. TypeInv /\ AccessInv /\ [Next]_vars => TypeInv' /\ AccessInv'
  BY NextTypeInv, NextAccessInv
<1>3. AccessInv => DockerUserFirst
  BY InvariantOrders
<1> QED
  BY <1>1, <1>2, <1>3, PTL DEF Spec
=============================================================================
