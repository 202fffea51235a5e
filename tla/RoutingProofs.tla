----------------------------- MODULE RoutingProofs -----------------------------
(***************************************************************************)
(* Proofs about Routing, for any requests, routes and disturbances:        *)
(* RoutingTypes, InstalledCorrect and NothingLeftCorrect at the end.        *)
(*                                                                         *)
(* The lists of routes come first, as far as the code changes them; then    *)
(* TypeInv, what a request has in its locals by its step; OneEach, that a   *)
(* destination has one route; and InstalledInv and NothingInv, what the     *)
(* table has at least and at most when one process does something.          *)
(***************************************************************************)
EXTENDS Routing, TLAPS, SequenceTheorems

-----------------------------------------------------------------------------
\* Lists of routes. No two of a list have the same identifier.
DistinctIds(s) == \A i, j \in DOMAIN s : s[i].id = s[j].id => i = j

LEMMA ListFacts ==
    ASSUME NEW s \in Seq(Route)
    PROVE  /\ Len(s) \in Nat /\ DOMAIN s = 1..Len(s)
           /\ \A i \in DOMAIN s : s[i] \in Range(s)
           /\ \A x \in Range(s) : x \in Route /\ \E i \in DOMAIN s : x = s[i]
<1>1. Len(s) \in Nat /\ DOMAIN s = 1..Len(s) /\ \A i \in 1..Len(s) : s[i] \in Route
  BY LenProperties, ElementOfSeq
<1> QED
  BY <1>1 DEF Range

LEMMA EmptyList == <<>> \in Seq(Route) /\ Range(<<>>) = {} /\ DistinctIds(<<>>)
BY DEF Range, DistinctIds

\* push
LEMMA AppendList ==
    ASSUME NEW s \in Seq(Route), NEW x \in Route
    PROVE  /\ Append(s, x) \in Seq(Route)
           /\ Range(Append(s, x)) = Range(s) \cup {x}
           /\ DistinctIds(s) /\ (\A y \in Range(s) : y.id # x.id) => DistinctIds(Append(s, x))
<1> DEFINE t == Append(s, x)
<1>1. /\ t \in Seq(Route) /\ Len(t) = Len(s) + 1
      /\ \A i \in 1..Len(s) : t[i] = s[i]
      /\ t[Len(s) + 1] = x
  BY AppendProperties
<1> HIDE DEF t
<1>2. /\ Len(s) \in Nat /\ DOMAIN s = 1..Len(s) /\ DOMAIN t = 1..(Len(s) + 1)
      /\ \A i \in DOMAIN t : i \in DOMAIN s \/ i = Len(s) + 1
      /\ \A i \in DOMAIN s : i \in DOMAIN t
      /\ Len(s) + 1 \in DOMAIN t
  BY <1>1, LenProperties
<1>3. \A i \in DOMAIN s : t[i] = s[i]
  BY <1>1, <1>2
<1>4. Range(t) = Range(s) \cup {x}
  BY <1>1, <1>2, <1>3, Zenon DEF Range
<1>5. ASSUME DistinctIds(s), \A y \in Range(s) : y.id # x.id PROVE DistinctIds(t)
  <2>1. \A i \in DOMAIN s : s[i].id # x.id
    BY <1>5, ListFacts
  <2> QED
    BY <1>1, <1>2, <1>3, <1>5, <2>1 DEF DistinctIds
<1> QED
  BY <1>1, <1>4, <1>5 DEF t

\* routes[index] = updated
LEMMA ReplaceList ==
    ASSUME NEW s \in Seq(Route), NEW i \in DOMAIN s, NEW x \in Route, x.id = s[i].id
    PROVE  /\ ReplaceAt(s, i, x) \in Seq(Route)
           /\ DistinctIds(s) =>
                /\ Range(ReplaceAt(s, i, x)) = {y \in Range(s) : y.id # s[i].id} \cup {x}
                /\ DistinctIds(ReplaceAt(s, i, x))
<1> DEFINE t == ReplaceAt(s, i, x)
<1>1. DOMAIN s = 1..Len(s)
  BY ListFacts
<1>2. t \in Seq(Route) /\ Len(t) = Len(s)
  BY <1>1, ExceptSeq DEF ReplaceAt
<1>3. DOMAIN t = DOMAIN s /\ \A j \in DOMAIN s : t[j] = IF j = i THEN x ELSE s[j]
  BY DEF ReplaceAt
<1> HIDE DEF t
<1>4. ASSUME DistinctIds(s) PROVE Range(t) = {y \in Range(s) : y.id # s[i].id} \cup {x}
  <2>1. ASSUME NEW y \in Range(t) PROVE y \in {z \in Range(s) : z.id # s[i].id} \cup {x}
    <3>1. PICK j \in DOMAIN s : y = IF j = i THEN x ELSE s[j]
      BY <1>3, <2>1 DEF Range
    <3> QED
      BY <1>4, <3>1 DEF DistinctIds, Range
  <2>2. ASSUME NEW y \in Range(s), y.id # s[i].id PROVE y \in Range(t)
    <3>1. PICK j \in DOMAIN s : y = s[j]
      BY <2>2 DEF Range
    <3>2. t[j] = y
      BY <1>3, <2>2, <3>1
    <3> QED
      BY <1>3, <3>2 DEF Range
  <2>3. x \in Range(t)
    BY <1>3 DEF Range
  <2> QED
    BY <2>1, <2>2, <2>3
<1>5. ASSUME DistinctIds(s) PROVE DistinctIds(t)
  <2>1. \A j \in DOMAIN s : t[j].id = s[j].id
    BY <1>3
  <2> QED
    BY <1>3, <1>5, <2>1 DEF DistinctIds
<1> QED
  BY <1>2, <1>4, <1>5 DEF t

\* routes.filter(r => r.id !== id)
LEMMA RemoveList ==
    ASSUME NEW s \in Seq(Route), NEW i \in DOMAIN s
    PROVE  /\ RemoveAt(s, i) \in Seq(Route)
           /\ DistinctIds(s) =>
                /\ Range(RemoveAt(s, i)) = {y \in Range(s) : y.id # s[i].id}
                /\ DistinctIds(RemoveAt(s, i))
<1> DEFINE n == Len(s)
           left == SubSeq(s, 1, i - 1)
           right == SubSeq(s, i + 1, n)
           t == left \o right
<1>1. n \in Nat /\ DOMAIN s = 1..n /\ i \in 1..n /\ \A j \in 1..n : s[j] \in Route
  BY LenProperties, ElementOfSeq
<1>2. /\ left \in Seq(Route) /\ Len(left) = i - 1
      /\ \A j \in 1..(i - 1) : left[j] = s[j]
  <2>1. \A j \in 1..(i - 1) : s[j] \in Route
    BY <1>1
  <2>2. /\ left \in Seq(Route) /\ Len(left) = IF 1 <= i - 1 THEN (i - 1) - 1 + 1 ELSE 0
        /\ \A j \in 1..((i - 1) - 1 + 1) : left[j] = s[1 + j - 1]
    BY <1>1, <2>1, SubSeqProperties
  <2> HIDE DEF left
  <2> QED
    BY <1>1, <2>2
<1>3. /\ right \in Seq(Route) /\ Len(right) = n - i
      /\ \A j \in 1..(n - i) : right[j] = s[i + j]
  <2>1. \A j \in (i + 1)..n : s[j] \in Route
    BY <1>1
  <2>2. /\ right \in Seq(Route) /\ Len(right) = IF i + 1 <= n THEN n - (i + 1) + 1 ELSE 0
        /\ \A j \in 1..(n - (i + 1) + 1) : right[j] = s[(i + 1) + j - 1]
    BY <1>1, <2>1, SubSeqProperties
  <2> HIDE DEF right, n
  <2>3. /\ n - (i + 1) + 1 = n - i
        /\ (IF i + 1 <= n THEN n - (i + 1) + 1 ELSE 0) = n - i
        /\ \A j \in 1..(n - i) : (i + 1) + j - 1 = i + j
    BY <1>1
  <2>4. Len(right) = n - i
    BY <2>2, <2>3
  <2>5. \A j \in 1..(n - i) : right[j] = s[(i + 1) + j - 1]
    BY <2>2, <2>3
  <2> QED
    BY <2>2, <2>3, <2>4, <2>5
<1> HIDE DEF left, right
<1>4. /\ t \in Seq(Route) /\ Len(t) = (i - 1) + (n - i)
      /\ \A j \in 1..((i - 1) + (n - i)) :
           t[j] = IF j <= i - 1 THEN left[j] ELSE right[j - (i - 1)]
  <2>1. left \in Seq(Route) /\ right \in Seq(Route)
    BY <1>2, <1>3
  <2>2. /\ t \in Seq(Route) /\ Len(t) = Len(left) + Len(right)
        /\ \A j \in 1..(Len(left) + Len(right)) :
             t[j] = IF j <= Len(left) THEN left[j] ELSE right[j - Len(left)]
    BY <2>1, ConcatProperties
  <2>3. Len(left) = i - 1 /\ Len(right) = n - i
    BY <1>2, <1>3
  <2> HIDE DEF t, n
  <2> QED
    BY <2>2, <2>3
<1> HIDE DEF t, n
<1>5. /\ DOMAIN t = 1..(n - 1)
      /\ \A j \in 1..(n - 1) : t[j] = IF j < i THEN s[j] ELSE s[j + 1]
  <2>1. Len(t) = n - 1 /\ (i - 1) + (n - i) = n - 1
    BY <1>1, <1>4
  <2>2. ASSUME NEW j \in 1..(n - 1) PROVE t[j] = IF j < i THEN s[j] ELSE s[j + 1]
    <3>1. CASE j < i
      <4>1. j <= i - 1 /\ j \in 1..(i - 1)
        BY <1>1, <3>1
      <4> QED
        BY <1>2, <1>4, <2>1, <3>1, <4>1
    <3>2. CASE ~(j < i)
      <4>1. ~(j <= i - 1) /\ j - (i - 1) \in 1..(n - i) /\ i + (j - (i - 1)) = j + 1
        BY <1>1, <3>2
      <4> QED
        BY <1>3, <1>4, <2>1, <3>2, <4>1
    <3> QED
      BY <3>1, <3>2
  <2> QED
    BY <1>4, <2>1, <2>2, LenProperties
<1>6. ASSUME DistinctIds(s) PROVE Range(t) = {y \in Range(s) : y.id # s[i].id}
  <2>1. ASSUME NEW y \in Range(t) PROVE y \in Range(s) /\ y.id # s[i].id
    <3>1. PICK j \in 1..(n - 1) : y = IF j < i THEN s[j] ELSE s[j + 1]
      BY <1>5, <2>1 DEF Range
    <3>2. PICK k \in 1..n : y = s[k] /\ k # i
      BY <1>1, <3>1
    <3> QED
      BY <1>1, <1>6, <3>2 DEF Range, DistinctIds
  <2>2. ASSUME NEW y \in Range(s), y.id # s[i].id PROVE y \in Range(t)
    <3>1. PICK k \in 1..n : y = s[k] /\ k # i
      BY <1>1, <2>2 DEF Range
    <3>2. PICK j \in 1..(n - 1) : t[j] = y
      <4>1. CASE k < i
        <5>1. k \in 1..(n - 1)
          BY <1>1, <4>1
        <5> QED
          BY <1>5, <3>1, <4>1, <5>1
      <4>2. CASE ~(k < i)
        <5>1. k - 1 \in 1..(n - 1) /\ ~(k - 1 < i) /\ (k - 1) + 1 = k
          BY <1>1, <3>1, <4>2
        <5> QED
          BY <1>5, <3>1, <5>1
      <4> QED
        BY <4>1, <4>2
    <3> QED
      BY <1>5, <3>2 DEF Range
  <2> QED
    BY <2>1, <2>2
<1>7. ASSUME DistinctIds(s) PROVE DistinctIds(t)
  <2> SUFFICES ASSUME NEW j \in 1..(n - 1), NEW k \in 1..(n - 1), t[j].id = t[k].id
               PROVE  j = k
    BY <1>5 DEF DistinctIds
  <2>1. PICK x \in 1..n : x = (IF j < i THEN j ELSE j + 1) /\ t[j] = s[x]
    BY <1>1, <1>5
  <2>2. PICK y \in 1..n : y = (IF k < i THEN k ELSE k + 1) /\ t[k] = s[y]
    BY <1>1, <1>5
  <2>3. x = y
    BY <1>1, <1>7, <2>1, <2>2 DEF DistinctIds
  <2> QED
    BY <1>1, <2>1, <2>2, <2>3
<1>8. RemoveAt(s, i) = t
  BY DEF RemoveAt, t, left, right, n
<1> QED
  BY <1>4, <1>6, <1>7, <1>8

\* routes.filter(r => r.enabled), as far as the loop over it has come.
Skips(todo, n) ==
    /\ \A i \in 1..n : ~todo[i].enabled
    /\ n < Len(todo) => todo[n + 1].enabled

Suffix(todo, n) == SubSeq(todo, n + 1, Len(todo))

\* The list s is todo without some disabled routes at its start.
Follows(s, todo) ==
    /\ s # <<>> => Head(s).enabled
    /\ Range(s) \subseteq Range(todo)
    /\ \A x \in Range(todo) \ Range(s) : ~x.enabled
    /\ DistinctIds(todo) => DistinctIds(s)

LEMMA BootList ==
    ASSUME NEW todo \in Seq(Route), NEW n \in 0..Len(todo), Skips(todo, n),
           NEW s, s = Suffix(todo, n)
    PROVE  /\ s \in Seq(Route)
           /\ s = <<>> <=> n = Len(todo)
           /\ Follows(s, todo)
<1> DEFINE len == Len(todo)
<1>0. s = SubSeq(todo, n + 1, len) /\ len = Len(todo)
  BY DEF Suffix
<1>1. len \in Nat /\ DOMAIN todo = 1..len /\ n \in Nat /\ n <= len /\ \A i \in 1..len : todo[i] \in Route
  BY LenProperties, ElementOfSeq
<1> HIDE DEF len
<1>2. /\ s \in Seq(Route) /\ Len(s) = len - n /\ DOMAIN s = 1..(len - n)
      /\ \A i \in 1..(len - n) : s[i] = todo[n + i]
  <2>1. \A i \in (n + 1)..len : todo[i] \in Route
    BY <1>1
  <2>2. /\ s \in Seq(Route) /\ Len(s) = IF n + 1 <= len THEN len - (n + 1) + 1 ELSE 0
        /\ \A i \in 1..(len - (n + 1) + 1) : s[i] = todo[(n + 1) + i - 1]
    <3>1. n + 1 \in Int /\ len \in Int
      BY <1>1
    <3> QED
      BY ONLY <1>0, <2>1, <3>1, SubSeqProperties
  <2>3. /\ len - (n + 1) + 1 = len - n
        /\ (IF n + 1 <= len THEN len - (n + 1) + 1 ELSE 0) = len - n
        /\ \A i \in 1..(len - n) : (n + 1) + i - 1 = n + i
    BY <1>1
  <2>4. Len(s) = len - n
    BY <2>2, <2>3
  <2>5. \A i \in 1..(len - n) : s[i] = todo[(n + 1) + i - 1]
    BY <2>2, <2>3
  <2> QED
    BY <2>2, <2>3, <2>4, <2>5, LenProperties
<1>3. s = <<>> <=> n = len
  <2>1. s = <<>> <=> Len(s) = 0
    BY <1>2, EmptySeq
  <2> QED
    BY <1>1, <1>2, <2>1
<1>4. s # <<>> => Head(s).enabled
  <2> SUFFICES ASSUME s # <<>> PROVE Head(s).enabled
    OBVIOUS
  <2>1. n < len /\ n + 1 \in 1..len /\ len \in (n + 1)..len
    <3>1. n # len
      BY <1>3
    <3> QED
      BY <1>1, <3>1
  <2>2. Head(s) = todo[n + 1]
    BY <1>0, <2>1, HeadTailOfSubSeq
  <2> QED
    BY <1>0, <2>1, <2>2 DEF Skips
<1>5. Range(s) \subseteq Range(todo)
  <2>1. \A i \in 1..(len - n) : n + i \in 1..len
    BY <1>1
  <2> QED
    BY <1>1, <1>2, <2>1 DEF Range
<1>6. ASSUME NEW x \in Range(todo) \ Range(s) PROVE ~x.enabled
  <2>1. PICK k \in 1..len : x = todo[k]
    BY <1>1 DEF Range
  <2>2. k \in 1..n
    <3> SUFFICES ASSUME k \notin 1..n PROVE FALSE
      OBVIOUS
    <3>1. k - n \in 1..(len - n) /\ n + (k - n) = k
      BY <1>1
    <3>2. s[k - n] = x
      BY <1>2, <2>1, <3>1
    <3> QED
      BY <1>2, <3>1, <3>2 DEF Range
  <2> QED
    BY <2>1, <2>2 DEF Skips
<1>7. ASSUME DistinctIds(todo) PROVE DistinctIds(s)
  <2> SUFFICES ASSUME NEW i \in 1..(len - n), NEW j \in 1..(len - n), s[i].id = s[j].id
               PROVE  i = j
    BY <1>2 DEF DistinctIds
  <2>1. n + i \in 1..len /\ n + j \in 1..len
    BY <1>1
  <2>2. n + i = n + j
    <3>1. todo[n + i].id = todo[n + j].id
      BY <1>2
    <3> QED
      BY <1>1, <1>7, <2>1, <3>1 DEF DistinctIds
  <2> QED
    BY <1>1, <2>2
<1> QED
  BY <1>0, <1>2, <1>3, <1>4, <1>5, <1>6, <1>7 DEF Follows

LEMMA TailList ==
    ASSUME NEW s \in Seq(Route), s # <<>>
    PROVE  /\ Head(s) \in Route /\ Head(s) \in Range(s)
           /\ Tail(s) \in Seq(Route)
           /\ Range(s) = {Head(s)} \cup Range(Tail(s))
           /\ DistinctIds(s) => DistinctIds(Tail(s))
<1> DEFINE t == Tail(s)
           n == Len(s)
<1>1. n \in Nat /\ n > 0 /\ DOMAIN s = 1..n /\ \A i \in 1..n : s[i] \in Route
  BY LenProperties, ElementOfSeq, EmptySeq
<1>2. /\ t \in Seq(Route) /\ Len(t) = n - 1 /\ DOMAIN t = 1..(n - 1)
      /\ \A i \in 1..(n - 1) : t[i] = s[i + 1]
  BY HeadTailProperties, LenProperties
<1>3. Head(s) = s[1]
  OBVIOUS
<1> HIDE DEF t, n
<1>4. 1 \in 1..n
  BY <1>1
<1>5. Range(s) = {s[1]} \cup Range(t)
  <2>1. \A i \in 1..(n - 1) : i + 1 \in 1..n
    BY <1>1
  <2>2. \A i \in 1..n : i = 1 \/ (i - 1 \in 1..(n - 1) /\ (i - 1) + 1 = i)
    BY <1>1
  <2>3. \A i \in 1..n : i = 1 \/ (i - 1 \in 1..(n - 1) /\ t[i - 1] = s[i])
    BY <1>2, <2>2
  <2>4. ASSUME NEW x \in Range(s) PROVE x = s[1] \/ x \in Range(t)
    <3>1. PICK i \in 1..n : x = s[i]
      BY <1>1 DEF Range
    <3>2. CASE i # 1
      <4>1. i - 1 \in 1..(n - 1) /\ t[i - 1] = x
        BY <2>3, <3>1, <3>2
      <4> QED
        BY <1>2, <4>1 DEF Range
    <3> QED
      BY <3>1, <3>2
  <2>5. s[1] \in Range(s)
    BY <1>1, <1>4 DEF Range
  <2>6. ASSUME NEW i \in 1..(n - 1) PROVE t[i] \in Range(s)
    BY <1>1, <1>2, <2>1 DEF Range
  <2> QED
    BY <1>2, <2>4, <2>5, <2>6 DEF Range
<1>6. DistinctIds(s) => DistinctIds(t)
  <2> SUFFICES ASSUME DistinctIds(s), NEW i \in 1..(n - 1), NEW j \in 1..(n - 1), t[i].id = t[j].id
               PROVE  i = j
    BY <1>2 DEF DistinctIds
  <2>1. i + 1 \in 1..n /\ j + 1 \in 1..n
    BY <1>1
  <2>2. s[i + 1].id = s[j + 1].id
    BY <1>2
  <2>3. i + 1 = j + 1
    BY <1>1, <2>1, <2>2 DEF DistinctIds
  <2> QED
    BY <1>1, <2>3
<1> QED
  BY <1>1, <1>2, <1>3, <1>4, <1>5, <1>6 DEF t, Range

-----------------------------------------------------------------------------
\* Where a process is, by its locals.
LocalFor(p, step, j, s) ==
    /\ step = "idle" => j = NoJob /\ s = <<>>
    /\ p = Boot => step \in {"idle", "apply"} /\ j = NoJob
    /\ p = Boot /\ step = "apply" => s # <<>> /\ Head(s).enabled
    /\ j.op = "none" => j.route = None /\ (step = "idle" \/ p = Boot)
    /\ j.op = "add" => j.old = None /\ j.route \in Route /\ j.route.enabled
    /\ j.op = "update" => j.old \in Route /\ j.route \in Route /\ j.route.id = j.old.id
    /\ j.op = "delete" => j.old \in Route /\ j.route = None
    /\ p # Boot /\ step = "apply" => j.op \in {"add", "update"} /\ j.route.enabled
    /\ step = "read" => j.op = "add"
    /\ step = "delete" => j.op \in {"update", "delete"}

LocalsOK ==
    /\ pc \in [Processes -> Steps]
    /\ job \in [Processes -> Job]
    /\ routes \in [Processes -> Seq(Route)]
    /\ \A p \in Processes : LocalFor(p, pc[p], job[p], routes[p])

RestOK ==
    /\ managed \in Seq(Route) /\ table \subseteq Entry /\ up \subseteq Hops
    /\ started \in BOOLEAN /\ tunnels \in BOOLEAN
    /\ overlapped \in BOOLEAN /\ leftover \in BOOLEAN
    /\ excused \subseteq Ids /\ budget \in 0..MaxDisturbances

TypeInv == LocalsOK /\ RestOK

\* Process p goes on with this step, job and list, and no other does.
Moves(p, step, j, s) ==
    /\ pc' = [pc EXCEPT ![p] = step]
    /\ job' = [job EXCEPT ![p] = j]
    /\ routes' = [routes EXCEPT ![p] = s]

\* Each process has what it had, but for p.
Moved(p, step, j, s) ==
    /\ pc'[p] = step /\ job'[p] = j /\ routes'[p] = s
    /\ \A q \in Processes \ {p} : pc'[q] = pc[q] /\ job'[q] = job[q] /\ routes'[q] = routes[q]

LEMMA MovesMoved ==
    ASSUME LocalsOK, NEW p \in Processes, NEW step, NEW j, NEW s, Moves(p, step, j, s)
    PROVE  Moved(p, step, j, s)
BY DEF LocalsOK, Moves, Moved

LEMMA MovesType ==
    ASSUME LocalsOK, NEW p \in Processes, NEW step \in Steps, NEW j \in Job, NEW s \in Seq(Route),
           Moves(p, step, j, s), LocalFor(p, step, j, s)
    PROVE  LocalsOK'
<1>1. /\ pc' \in [Processes -> Steps] /\ job' \in [Processes -> Job]
      /\ routes' \in [Processes -> Seq(Route)]
  BY DEF LocalsOK, Moves
<1>2. Moved(p, step, j, s)
  BY MovesMoved
<1>3. \A q \in Processes : LocalFor(q, pc'[q], job'[q], routes'[q])
  BY <1>2 DEF LocalsOK, Moved
<1> QED
  BY <1>1, <1>3 DEF LocalsOK, LocalFor

LEMMA Values ==
    /\ NoJob \in Job /\ NoJob.op = "none" /\ NoJob.old = None /\ NoJob.route = None
    /\ \A route \in Route : route # None /\ route.id \in Ids /\ route.entry \in Entry
                            /\ route.enabled \in BOOLEAN
    /\ \A j \in Job : j.op \in {"none", "add", "update", "delete"}
                      /\ j.old \in Route \cup {None} /\ j.route \in Route \cup {None}
    /\ Requests \subseteq Processes /\ Boot \in Processes /\ Boot \notin Requests
BY RoutingAssumption DEF NoJob, Job, Route, Processes

LEMMA AnswerMoves ==
    ASSUME NEW p, Answer(p)
    PROVE  Moves(p, "idle", NoJob, <<>>)
BY DEF Answer, Goto, Moves

LEMMA GotoMoves ==
    ASSUME LocalsOK, NEW p \in Processes, NEW step, Goto(p, step), UNCHANGED <<job, routes>>
    PROVE  Moves(p, step, job[p], routes[p])
<1>1. job = [job EXCEPT ![p] = job[p]] /\ routes = [routes EXCEPT ![p] = routes[p]]
  BY DEF LocalsOK
<1> QED
  BY <1>1 DEF Goto, Moves

LEMMA BootMoves ==
    ASSUME LocalsOK, NEW todo \in Seq(Route), BootWith(todo), UNCHANGED job
    PROVE  \E s \in Seq(Route) :
             /\ Moves(Boot, IF s = <<>> THEN "idle" ELSE "apply", NoJob, s)
             /\ Follows(s, todo)
<1>1. PICK n \in 0..Len(todo) :
        /\ Skips(todo, n)
        /\ routes' = [routes EXCEPT ![Boot] = Suffix(todo, n)]
        /\ Goto(Boot, IF n = Len(todo) THEN "idle" ELSE "apply")
  BY DEF BootWith, Skips, Suffix
<1>2. PICK s : s = Suffix(todo, n)
  OBVIOUS
<1>3. /\ s \in Seq(Route)
      /\ s = <<>> <=> n = Len(todo)
      /\ Follows(s, todo)
  BY <1>1, <1>2, BootList
<1>4. job[Boot] = NoJob /\ job = [job EXCEPT ![Boot] = job[Boot]]
  BY Values DEF LocalsOK, LocalFor
<1>5. Moves(Boot, IF s = <<>> THEN "idle" ELSE "apply", NoJob, s)
  BY <1>1, <1>2, <1>3, <1>4 DEF Moves, Goto
<1> QED
  BY <1>3, <1>5

LEMMA BootLocals ==
    ASSUME LocalsOK, NEW todo \in Seq(Route), BootWith(todo), UNCHANGED job
    PROVE  LocalsOK'
<1>1. PICK s \in Seq(Route) :
        /\ Moves(Boot, IF s = <<>> THEN "idle" ELSE "apply", NoJob, s)
        /\ s # <<>> => Head(s).enabled
  BY BootMoves DEF Follows
<1> DEFINE step == IF s = <<>> THEN "idle" ELSE "apply"
<1>2. LocalFor(Boot, step, NoJob, s) /\ step \in Steps
  BY <1>1, Values DEF LocalFor, Steps
<1> HIDE DEF step
<1>3. Moves(Boot, step, NoJob, s)
  BY <1>1 DEF step
<1> QED
  BY <1>2, <1>3, Values, MovesType

LEMMA AnswerLocals ==
    ASSUME LocalsOK, NEW p \in Processes, Answer(p)
    PROVE  LocalsOK'
<1>1. LocalFor(p, "idle", NoJob, <<>>) /\ "idle" \in Steps /\ <<>> \in Seq(Route)
  BY Values DEF LocalFor, Steps
<1> QED
  BY <1>1, AnswerMoves, Values, MovesType

\* The route that is applied, and what follows when it cannot be.
LEMMA CurrentRoute ==
    ASSUME LocalsOK, NEW p \in Processes, pc[p] = "apply"
    PROVE  /\ Current(p) \in Route /\ Current(p).enabled
           /\ p = Boot => routes[Boot] # <<>> /\ Current(p) = Head(routes[Boot])
                          /\ Tail(routes[Boot]) \in Seq(Route)
           /\ p # Boot => Current(p) = job[p].route /\ job[p].op \in {"add", "update"}
<1>1. LocalFor(p, pc[p], job[p], routes[p]) /\ routes[p] \in Seq(Route)
  BY DEF LocalsOK
<1>2. CASE p = Boot
  <2>1. routes[Boot] # <<>> /\ Head(routes[Boot]).enabled
    BY <1>1, <1>2 DEF LocalFor
  <2> QED
    BY <1>1, <1>2, <2>1, TailList DEF Current
<1>3. CASE p # Boot
  BY <1>1, <1>3 DEF Current, LocalFor
<1> QED
  BY <1>2, <1>3

LEMMA RefusedLocals ==
    ASSUME LocalsOK, NEW p \in Processes, pc[p] = "apply", Refused(p)
    PROVE  LocalsOK'
BY CurrentRoute, BootLocals, AnswerLocals DEF Refused, NextRoute

-----------------------------------------------------------------------------
\* Every step leaves everything of its type.
LEMMA TypeInit == Init => TypeInv
<1> SUFFICES ASSUME Init PROVE TypeInv
  OBVIOUS
<1>1. LocalsOK
  <2>1. \A p \in Processes : LocalFor(p, "idle", NoJob, <<>>)
    BY Values DEF LocalFor
  <2>2. /\ pc = [p \in Processes |-> "idle"] /\ job = [p \in Processes |-> NoJob]
        /\ routes = [p \in Processes |-> <<>>]
    BY DEF Init
  <2>3. /\ pc \in [Processes -> Steps] /\ job \in [Processes -> Job]
        /\ routes \in [Processes -> Seq(Route)]
    BY <2>2, Values, EmptyList DEF Steps
  <2>4. \A p \in Processes : pc[p] = "idle" /\ job[p] = NoJob /\ routes[p] = <<>>
    BY <2>2
  <2>5. \A p \in Processes : LocalFor(p, pc[p], job[p], routes[p])
    BY <2>1, <2>4, Zenon
  <2> QED
    BY <2>3, <2>5 DEF LocalsOK
<1>2. RestOK
  <2>1. /\ managed = <<>> /\ table = Foreign /\ up = Hops \ TunnelHops
        /\ started = FALSE /\ tunnels = FALSE /\ overlapped = FALSE /\ leftover = FALSE
        /\ excused = {} /\ budget = 0
    BY DEF Init
  <2>2. managed \in Seq(Route)
    BY <2>1, EmptyList
  <2>3. table \subseteq Entry /\ up \subseteq Hops
    BY ONLY <2>1, RoutingAssumption
  <2>4. excused \subseteq Ids /\ budget \in 0..MaxDisturbances
    BY ONLY <2>1, RoutingAssumption
  <2>5. started \in BOOLEAN /\ tunnels \in BOOLEAN /\ overlapped \in BOOLEAN /\ leftover \in BOOLEAN
    BY <2>1
  <2> QED
    BY <2>2, <2>3, <2>4, <2>5 DEF RestOK
<1> QED
  BY <1>1, <1>2 DEF TypeInv

\* A new request.
LEMMA BeginLocals ==
    ASSUME LocalsOK, NEW r \in Requests, NEW step \in Steps, NEW j \in Job, NEW s \in Seq(Route),
           Begin(r, step, j, s), LocalFor(r, step, j, s)
    PROVE  LocalsOK'
<1>1. Moves(r, step, j, s)
  BY DEF Begin, Goto, Moves
<1> QED
  BY <1>1, Values, MovesType

\* What a request starts with.
AddStarts(r, new, j) ==
    /\ new.enabled /\ new.id \in Ids \ InUse /\ new.entry \in Entries(None)
    /\ j.op = "add" /\ j.old = None /\ j.route = new
    /\ Begin(r, "apply", j, <<>>)

UpdateStarts(r, i, new, j) ==
    /\ managed[i] \in Route /\ new.id = managed[i].id /\ new.entry \in Entries(managed[i])
    /\ j.op = "update" /\ j.old = managed[i] /\ j.route = new
    /\ ReplaceAt(managed, i, new) \in Seq(Route)
    /\ Begin(r, "delete", j, ReplaceAt(managed, i, new))

DeleteStarts(r, i, j) ==
    /\ managed[i] \in Route
    /\ j.op = "delete" /\ j.old = managed[i] /\ j.route = None
    /\ RemoveAt(managed, i) \in Seq(Route)
    /\ Begin(r, "delete", j, RemoveAt(managed, i))

LEMMA AddStart ==
    ASSUME NEW r \in Requests, StartAdd(r)
    PROVE  \E new \in Route, j \in Job : AddStarts(r, new, j)
<1>1. PICK id \in Ids \ InUse, e \in Entries(None) :
        Begin(r, "apply", [op |-> "add", old |-> None,
                           route |-> [id |-> id, entry |-> e, enabled |-> TRUE]], <<>>)
  BY DEF StartAdd
<1> DEFINE new == [id |-> id, entry |-> e, enabled |-> TRUE]
           j == [op |-> "add", old |-> None, route |-> new]
<1>2. new \in Route /\ new.enabled /\ new.id = id /\ new.entry = e
  BY DEF Route, Entries
<1> HIDE DEF new
<1>3. j \in Job /\ j.op = "add" /\ j.old = None /\ j.route = new
  BY <1>2 DEF Job
<1>4. Begin(r, "apply", j, <<>>)
  BY <1>1 DEF new
<1> HIDE DEF j
<1>5. AddStarts(r, new, j)
  BY <1>1, <1>2, <1>3, <1>4 DEF AddStarts
<1> QED
  BY <1>2, <1>3, <1>5

LEMMA UpdateStart ==
    ASSUME managed \in Seq(Route), NEW r \in Requests, StartUpdate(r)
    PROVE  \E i \in DOMAIN managed, new \in Route, j \in Job : UpdateStarts(r, i, new, j)
<1>1. PICK i \in DOMAIN managed, enabled \in BOOLEAN : \E e \in Entries(managed[i]) :
        LET x == [id |-> managed[i].id, entry |-> e, enabled |-> enabled]
        IN Begin(r, "delete", [op |-> "update", old |-> managed[i], route |-> x],
                 ReplaceAt(managed, i, x))
  BY DEF StartUpdate
<1>2. PICK e \in Entries(managed[i]) :
        LET x == [id |-> managed[i].id, entry |-> e, enabled |-> enabled]
        IN Begin(r, "delete", [op |-> "update", old |-> managed[i], route |-> x],
                 ReplaceAt(managed, i, x))
  BY <1>1
<1> DEFINE new == [id |-> managed[i].id, entry |-> e, enabled |-> enabled]
           j == [op |-> "update", old |-> managed[i], route |-> new]
<1>3. managed[i] \in Route
  BY ListFacts
<1>4. new \in Route /\ new.id = managed[i].id /\ new.entry = e
  BY <1>3, Values DEF Route, Entries
<1>5. Begin(r, "delete", j, ReplaceAt(managed, i, new))
  BY <1>2
<1> HIDE DEF new
<1>6. j \in Job /\ j.op = "update" /\ j.old = managed[i] /\ j.route = new
  BY <1>3, <1>4 DEF Job
<1>7. ReplaceAt(managed, i, new) \in Seq(Route)
  BY <1>4, ReplaceList
<1> HIDE DEF j
<1>8. UpdateStarts(r, i, new, j)
  BY <1>2, <1>3, <1>4, <1>5, <1>6, <1>7 DEF UpdateStarts
<1> QED
  BY <1>4, <1>6, <1>8

LEMMA DeleteStart ==
    ASSUME managed \in Seq(Route), NEW r \in Requests, StartDelete(r)
    PROVE  \E i \in DOMAIN managed, j \in Job : DeleteStarts(r, i, j)
<1>1. PICK i \in DOMAIN managed :
        Begin(r, "delete", [op |-> "delete", old |-> managed[i], route |-> None],
              RemoveAt(managed, i))
  BY DEF StartDelete
<1> DEFINE j == [op |-> "delete", old |-> managed[i], route |-> None]
<1>2. managed[i] \in Route
  BY ListFacts
<1>3. j \in Job /\ j.op = "delete" /\ j.old = managed[i] /\ j.route = None
  BY <1>2 DEF Job
<1>4. RemoveAt(managed, i) \in Seq(Route) /\ Begin(r, "delete", j, RemoveAt(managed, i))
  BY <1>1, RemoveList
<1> HIDE DEF j
<1>5. DeleteStarts(r, i, j)
  BY <1>2, <1>3, <1>4 DEF DeleteStarts
<1> QED
  BY <1>3, <1>5

\* So do they have the locals that they should.
LEMMA StartLocals ==
    ASSUME TypeInv, NEW r \in Requests, StartAdd(r) \/ StartUpdate(r) \/ StartDelete(r)
    PROVE  LocalsOK'
<1>1. LocalsOK /\ managed \in Seq(Route) /\ r # Boot
  BY Values DEF TypeInv, RestOK
<1>2. CASE StartAdd(r)
  <2>1. PICK new \in Route, j \in Job : AddStarts(r, new, j)
    BY <1>2, AddStart
  <2>2. LocalFor(r, "apply", j, <<>>) /\ "apply" \in Steps /\ <<>> \in Seq(Route)
    BY <1>1, <2>1 DEF LocalFor, Steps, AddStarts
  <2> QED
    BY <1>1, <2>1, <2>2, BeginLocals DEF AddStarts
<1>3. CASE StartUpdate(r)
  <2>1. PICK i \in DOMAIN managed, new \in Route, j \in Job : UpdateStarts(r, i, new, j)
    BY <1>1, <1>3, UpdateStart
  <2> DEFINE s == ReplaceAt(managed, i, new)
  <2>2. s \in Seq(Route) /\ Begin(r, "delete", j, s)
    BY <2>1 DEF UpdateStarts
  <2> HIDE DEF s
  <2>3. LocalFor(r, "delete", j, s) /\ "delete" \in Steps
    BY <1>1, <2>1 DEF LocalFor, Steps, UpdateStarts
  <2> QED
    BY <1>1, <2>2, <2>3, BeginLocals
<1>4. CASE StartDelete(r)
  <2>1. PICK i \in DOMAIN managed, j \in Job : DeleteStarts(r, i, j)
    BY <1>1, <1>4, DeleteStart
  <2> DEFINE s == RemoveAt(managed, i)
  <2>2. s \in Seq(Route) /\ Begin(r, "delete", j, s)
    BY <2>1 DEF DeleteStarts
  <2> HIDE DEF s
  <2>3. LocalFor(r, "delete", j, s) /\ "delete" \in Steps
    BY <1>1, <2>1 DEF LocalFor, Steps, DeleteStarts
  <2> QED
    BY <1>1, <2>2, <2>3, BeginLocals
<1> QED
  BY <1>2, <1>3, <1>4

LEMMA StartRest ==
    ASSUME TypeInv, NEW r \in Requests, StartAdd(r) \/ StartUpdate(r) \/ StartDelete(r)
    PROVE  RestOK'
<1>1. \E step, j, s : Begin(r, step, j, s)
  BY DEF StartAdd, StartUpdate, StartDelete
<1> QED
  BY <1>1 DEF TypeInv, RestOK, Begin, kernel

\* Where a process goes next, with the job and the list it has.
LEMMA GotoLocals ==
    ASSUME LocalsOK, NEW p \in Processes, NEW step \in Steps, Goto(p, step),
           UNCHANGED <<job, routes>>, LocalFor(p, step, job[p], routes[p])
    PROVE  LocalsOK'
<1>1. job[p] \in Job /\ routes[p] \in Seq(Route)
  BY DEF LocalsOK
<1> QED
  BY <1>1, GotoMoves, MovesType

LEMMA ApplyLocals ==
    ASSUME LocalsOK, NEW p \in Processes, Apply(p)
    PROVE  LocalsOK'
<1>1. pc[p] = "apply"
  BY DEF Apply
<1>2. CASE Current(p).entry.hop \notin up
  <2>1. Refused(p)
    BY <1>2 DEF Apply
  <2> QED
    BY <1>1, <2>1, RefusedLocals
<1>3. CASE Current(p).entry.hop \in up /\ p = Boot
  <2>1. BootWith(Tail(routes[Boot])) /\ UNCHANGED job
    BY <1>3 DEF Apply, NextRoute
  <2> QED
    BY <1>1, <1>3, <2>1, CurrentRoute, BootLocals
<1>4. CASE Current(p).entry.hop \in up /\ p # Boot
  <2> DEFINE step == IF job[p].op = "add" THEN "read" ELSE "truncate"
  <2>1. Goto(p, step) /\ UNCHANGED <<job, routes>>
    BY <1>4 DEF Apply
  <2>2. LocalFor(p, "apply", job[p], routes[p])
    BY <1>1 DEF LocalsOK
  <2>3. step \in Steps /\ LocalFor(p, step, job[p], routes[p])
    BY <1>4, <2>2 DEF LocalFor, Steps
  <2> HIDE DEF step
  <2> QED
    BY <2>1, <2>3, GotoLocals
<1> QED
  BY <1>2, <1>3, <1>4

LEMMA RequestLocals ==
    ASSUME LocalsOK, managed \in Seq(Route), NEW r \in Requests,
           Read(r) \/ Delete(r) \/ DeleteFails(r) \/ Truncate(r) \/ Write(r) \/ SaveFails(r)
    PROVE  LocalsOK'
<1>1. r \in Processes /\ r # Boot /\ LocalFor(r, pc[r], job[r], routes[r])
      /\ job[r] \in Job /\ routes[r] \in Seq(Route)
  BY Values DEF LocalsOK
<1>2. CASE Read(r)
  <2>1. job[r].route \in Route /\ pc[r] = "read"
    BY <1>1, <1>2 DEF LocalFor, Read
  <2> DEFINE s == Append(managed, job[r].route)
  <2>2. s \in Seq(Route)
    BY <2>1, AppendList
  <2>3. Moves(r, "truncate", job[r], s)
    <3>1. job = [job EXCEPT ![r] = job[r]]
      BY DEF LocalsOK
    <3> QED
      BY <1>2, <3>1 DEF Read, Goto, Moves
  <2> HIDE DEF s
  <2>4. LocalFor(r, "truncate", job[r], s) /\ "truncate" \in Steps
    BY <1>1, <2>1 DEF LocalFor, Steps
  <2> QED
    BY <1>1, <2>2, <2>3, <2>4, MovesType
<1>3. CASE Delete(r) \/ DeleteFails(r)
  <2> DEFINE step == IF job[r].op = "update" /\ job[r].route.enabled THEN "apply" ELSE "truncate"
  <2>1. pc[r] = "delete" /\ Goto(r, step) /\ UNCHANGED <<job, routes>>
    BY <1>3 DEF Delete, DeleteFails
  <2>2. step \in Steps /\ LocalFor(r, step, job[r], routes[r])
    BY <1>1, <2>1 DEF LocalFor, Steps
  <2> HIDE DEF step
  <2> QED
    BY <1>1, <2>1, <2>2, GotoLocals
<1>4. CASE Truncate(r)
  <2>1. pc[r] = "truncate" /\ Goto(r, "write") /\ UNCHANGED <<job, routes>>
    BY <1>4 DEF Truncate
  <2>2. "write" \in Steps /\ LocalFor(r, "write", job[r], routes[r])
    BY <1>1, <2>1 DEF LocalFor, Steps
  <2> QED
    BY <1>1, <2>1, <2>2, GotoLocals
<1>5. CASE Write(r) \/ SaveFails(r)
  <2>1. Answer(r)
    BY <1>5 DEF Write, SaveFails
  <2> QED
    BY <1>1, <2>1, AnswerLocals
<1> QED
  BY <1>2, <1>3, <1>4, <1>5

\* The process dies.
LEMMA StopLocals ==
    ASSUME Stop
    PROVE  LocalsOK' /\ \A p \in Processes : pc'[p] = "idle" /\ job'[p] = NoJob /\ routes'[p] = <<>>
<1>1. /\ pc' = [p \in Processes |-> "idle"] /\ job' = [p \in Processes |-> NoJob]
      /\ routes' = [p \in Processes |-> <<>>]
  BY DEF Stop
<1>2. /\ pc' \in [Processes -> Steps] /\ job' \in [Processes -> Job]
      /\ routes' \in [Processes -> Seq(Route)]
  BY <1>1, Values, EmptyList DEF Steps
<1>3. \A p \in Processes : pc'[p] = "idle" /\ job'[p] = NoJob /\ routes'[p] = <<>>
  BY <1>1
<1>4. \A p \in Processes : LocalFor(p, "idle", NoJob, <<>>)
  BY Values DEF LocalFor
<1>5. \A p \in Processes : LocalFor(p, pc'[p], job'[p], routes'[p])
  BY <1>3, <1>4, Zenon
<1> QED
  BY <1>2, <1>3, <1>5 DEF LocalsOK, LocalFor

\* The files, the table and the history keep their types, one action at a time.
LEMMA DisturbBudget ==
    ASSUME NEW kind, Disturb(kind), budget \in 0..MaxDisturbances
    PROVE  budget' \in 0..MaxDisturbances
BY RoutingAssumption DEF Disturb

LEMMA ApplyRest ==
    ASSUME TypeInv, NEW p \in Processes, Apply(p) \/ ApplyFails(p)
    PROVE  RestOK'
<1>1. LocalsOK /\ RestOK /\ pc[p] = "apply"
  BY DEF TypeInv, Apply, ApplyFails
<1>2. Current(p).entry \in Entry /\ Current(p).id \in Ids
  BY <1>1, CurrentRoute, Values
<1>3. CASE Apply(p)
  <2>1. table' \subseteq Entry /\ excused' \subseteq Ids
    BY <1>1, <1>2, <1>3 DEF Apply, Replaced, RestOK
  <2> QED
    BY <1>1, <1>3, <2>1 DEF Apply, RestOK
<1>4. CASE ApplyFails(p)
  <2>1. budget' \in 0..MaxDisturbances
    BY <1>1, <1>4, DisturbBudget DEF ApplyFails, RestOK
  <2> QED
    BY <1>1, <1>2, <1>4, <2>1 DEF ApplyFails, RestOK, kernel
<1> QED
  BY <1>3, <1>4

LEMMA RequestRest ==
    ASSUME TypeInv, NEW r \in Requests,
           Read(r) \/ Delete(r) \/ DeleteFails(r) \/ Truncate(r) \/ Write(r) \/ SaveFails(r)
    PROVE  RestOK'
<1>1. LocalsOK /\ RestOK /\ r \in Processes /\ routes[r] \in Seq(Route) /\ job[r] \in Job
  BY Values DEF TypeInv, LocalsOK
<1>2. CASE Read(r)
  BY <1>1, <1>2 DEF Read, RestOK, kernel, ghost
<1>3. CASE Delete(r)
  BY <1>1, <1>3 DEF Delete, Removed, RestOK, ghost
<1>4. CASE DeleteFails(r)
  BY <1>1, <1>4, DisturbBudget DEF DeleteFails, RestOK, kernel
<1>5. CASE Truncate(r)
  BY <1>1, <1>5, EmptyList DEF Truncate, RestOK, kernel, ghost
<1>6. CASE Write(r)
  BY <1>1, <1>6 DEF Write, RestOK, kernel, ghost
<1>7. CASE SaveFails(r)
  <2>1. budget' \in 0..MaxDisturbances
    BY <1>1, <1>7, DisturbBudget DEF SaveFails, RestOK
  <2>2. excused' \subseteq Ids
    BY <1>1, <1>7, Values DEF SaveFails, RestOK
  <2> QED
    BY <1>1, <1>7, <2>1, <2>2 DEF SaveFails, RestOK, kernel
<1> QED
  BY <1>2, <1>3, <1>4, <1>5, <1>6, <1>7

LEMMA TypeNext ==
    ASSUME TypeInv, [Next]_vars
    PROVE  TypeInv'
<1>1. LocalsOK /\ RestOK
  BY DEF TypeInv
<1>2. CASE StartBoot
  <2>1. managed \in Seq(Route) /\ BootWith(managed) /\ UNCHANGED job
    BY <1>1, <1>2 DEF StartBoot, RestOK
  <2>2. RestOK'
    BY <1>1, <1>2 DEF StartBoot, RestOK, kernel, ghost
  <2> QED
    BY <1>1, <2>1, <2>2, BootLocals DEF TypeInv
<1>3. ASSUME NEW p \in Processes, Apply(p) \/ ApplyFails(p) PROVE TypeInv'
  <2>1. LocalsOK'
    BY <1>1, <1>3, ApplyLocals, RefusedLocals DEF ApplyFails
  <2> QED
    BY <1>3, <2>1, ApplyRest DEF TypeInv
<1>4. ASSUME NEW r \in Requests, StartAdd(r) \/ StartUpdate(r) \/ StartDelete(r) PROVE TypeInv'
  BY <1>4, StartLocals, StartRest DEF TypeInv
<1>5. ASSUME NEW r \in Requests,
             Read(r) \/ Delete(r) \/ DeleteFails(r) \/ Truncate(r) \/ Write(r) \/ SaveFails(r)
      PROVE  TypeInv'
  <2>1. LocalsOK'
    BY <1>1, <1>5, RequestLocals DEF RestOK
  <2> QED
    BY <1>5, <2>1, RequestRest DEF TypeInv
<1>6. CASE Crash
  <2>1. RestOK'
    BY <1>1, <1>6, DisturbBudget DEF Crash, Stop, RestOK, kernel
  <2> QED
    BY <1>6, <2>1, StopLocals DEF Crash, TypeInv
<1>7. CASE Reboot
  <2>1. RestOK'
    BY <1>1, <1>7, DisturbBudget, RoutingAssumption DEF Reboot, Stop, RestOK
  <2> QED
    BY <1>7, <2>1, StopLocals DEF Reboot, TypeInv
<1>8. CASE WireGuardApply
  <2>1. RestOK'
    BY <1>1, <1>8, DisturbBudget DEF WireGuardApply, RestOK, ghost
  <2>2. LocalsOK'
    BY <1>1, <1>8 DEF WireGuardApply, control, LocalsOK, LocalFor
  <2> QED
    BY <2>1, <2>2 DEF TypeInv
<1>9. CASE UNCHANGED vars
  <2>1. LocalsOK'
    BY <1>1, <1>9 DEF vars, control, LocalsOK, LocalFor
  <2>2. RestOK'
    BY <1>1, <1>9 DEF vars, kernel, ghost, RestOK
  <2> QED
    BY <2>1, <2>2 DEF TypeInv
<1> QED
  BY <1>2, <1>3, <1>4, <1>5, <1>6, <1>7, <1>8, <1>9, Values DEF Next

LEMMA TypeAlways == Spec => []TypeInv
<1>1. TypeInv /\ [Next]_vars => TypeInv'
  BY TypeNext
<1> QED
  BY <1>1, TypeInit, PTL DEF Spec

\* The file, the table and the locals of every request hold what they should,
\* whatever the requests and the disturbances: a route that is replaced, removed
\* or pushed leaves a list of routes.
THEOREM RoutingTypes == Spec => []TypeOK
<1>1. TypeInv => TypeOK
  BY DEF TypeInv, LocalsOK, RestOK, TypeOK
<1> QED
  BY <1>1, TypeAlways, PTL

-----------------------------------------------------------------------------
\* A destination has one route: perhaps with the entry it has and the one that it
\* is about to get, and never one that the host has as well. The route of an
\* addition is in no list until the file has been read.
Asked == UNION {{job[p].route} \ {None} : p \in Processes}
Known == Snapshots \cup Asked

Unsaved(p) == job[p].op = "add" /\ pc[p] \in {"apply", "read"}

OneEach ==
    /\ \A x, y \in Known : x.entry.dest = y.entry.dest => x.id = y.id
    /\ \A x \in Known : \A e \in Foreign : x.entry.dest # e.dest
    /\ DistinctIds(managed)
    /\ \A p \in Processes : DistinctIds(routes[p])
    /\ \A p \in Processes : Unsaved(p) =>
         /\ \A x \in Snapshots : x.id # job[p].route.id
         /\ \A q \in Processes \ {p} : job[q].route # None => job[q].route.id # job[p].route.id

\* The routes of the list that a job does not change, and the list with the change.
Rest(j, set) == {x \in set : j.old # None => x.id # j.old.id}

Pending(step, j, list, file) ==
    j.op \in {"update", "delete"} /\ step \in {"delete", "apply", "truncate"} =>
        /\ j.old \in Range(file)
        /\ Range(list) = Rest(j, Range(file)) \cup ({j.route} \ {None})

\* The enabled ones of these routes are in the table t, unless excused.
Held(set, t, ex) == \A x \in set : x.enabled /\ x.id \notin ex => x.entry \in t

\* What the table has for certain, when process p is at this step and the only
\* one that does something.
Holding(p, step, j, list, file, t, ex) ==
    /\ step = "idle" => Held(Range(file), t, ex)
    /\ p = Boot /\ step = "apply" =>
         Range(list) \subseteq Range(file) /\ Held(Range(file) \ Range(list), t, ex)
    /\ p # Boot /\ step \in {"delete", "apply", "read", "truncate"} =>
         Held(Rest(j, Range(file)), t, ex)
    /\ step = "read" => j.route.entry \in t
    /\ step \in {"truncate", "write"} => Held(Range(list), t, ex)
    /\ step = "write" => file = <<>>
    /\ Pending(step, j, list, file)

\* The entries of the enabled ones of these routes.
Live(set) == {x.entry : x \in {y \in set : y.enabled}}

\* What the table has at most, in the same case.
Leaving(p, step, j, list, file, t) ==
    /\ step = "idle" \/ p = Boot => t \subseteq Foreign \cup Live(Range(file))
    /\ p = Boot => Range(list) \subseteq Range(file)
    /\ p # Boot /\ (step = "delete" \/ (step = "apply" /\ j.op = "add")) =>
         t \subseteq Foreign \cup Live(Range(file))
    /\ p # Boot /\ step = "apply" /\ j.op = "update" =>
         t \subseteq Foreign \cup Live(Rest(j, Range(file)))
    /\ step = "read" => t \subseteq Foreign \cup Live(Range(file)) \cup {j.route.entry}
    /\ step \in {"truncate", "write"} => t \subseteq Foreign \cup Live(Range(list))
    /\ Pending(step, j, list, file)

\* No other process than p does anything.
Alone(p) == \A q \in Processes \ {p} : ~Busy(q)

BusyInv == ~started => \A p \in Processes : ~Busy(p)

InstalledInv ==
    ~overlapped =>
        /\ \A p \in Processes : Busy(p) => Alone(p)
        /\ \A p \in Processes : started /\ Alone(p) =>
             Holding(p, pc[p], job[p], routes[p], managed, table, excused)

NothingInv ==
    ~leftover =>
        /\ \A p \in Processes : Busy(p) => Alone(p)
        /\ \A p \in Processes : Alone(p) =>
             Leaving(p, pc[p], job[p], routes[p], managed, table)

-----------------------------------------------------------------------------
\* A step that adds no route to those that are known keeps them apart.
LEMMA Fewer ==
    ASSUME OneEach, Snapshots' \subseteq Snapshots,
           \A p \in Processes : job'[p].route = job[p].route \/ job'[p].route = None,
           \A p \in Processes : Unsaved(p)' => Unsaved(p) /\ job'[p].route = job[p].route,
           DistinctIds(managed'), \A p \in Processes : DistinctIds(routes'[p])
    PROVE  OneEach'
<1>1. Known' \subseteq Known
  <2>1. Asked' \subseteq Asked
    BY DEF Asked
  <2> QED
    BY <2>1 DEF Known
<1>2. /\ \A x, y \in Known' : x.entry.dest = y.entry.dest => x.id = y.id
      /\ \A x \in Known' : \A e \in Foreign : x.entry.dest # e.dest
  BY <1>1 DEF OneEach
<1>3. ASSUME NEW p \in Processes, Unsaved(p)'
      PROVE  /\ \A x \in Snapshots' : x.id # job'[p].route.id
             /\ \A q \in Processes \ {p} : job'[q].route # None => job'[q].route.id # job'[p].route.id
  <2>1. Unsaved(p) /\ job'[p].route = job[p].route
    BY <1>3
  <2> QED
    BY <2>1 DEF OneEach
<1> QED
  BY <1>2, <1>3 DEF OneEach, DistinctIds

\* Where the snapshots go in a move of one process.
LEMMA MovedSnapshots ==
    ASSUME NEW p \in Processes, NEW step, NEW j, NEW s, Moved(p, step, j, s)
    PROVE  Snapshots' \subseteq Range(managed') \cup Range(s) \cup Snapshots
BY DEF Snapshots, Moved, Range

LEMMA FewerMoved ==
    ASSUME OneEach, NEW p \in Processes, NEW step, NEW j, NEW s, Moved(p, step, j, s),
           Range(s) \subseteq Snapshots, Range(managed') \subseteq Snapshots,
           DistinctIds(s), DistinctIds(managed'),
           j.route = job[p].route \/ j.route = None,
           j.op = "add" /\ step \in {"apply", "read"} => Unsaved(p) /\ j.route = job[p].route
    PROVE  OneEach'
<1>1. Snapshots' \subseteq Snapshots
  BY MovedSnapshots
<1>2. \A q \in Processes : job'[q].route = job[q].route \/ job'[q].route = None
  BY DEF Moved
<1>3. ASSUME NEW q \in Processes, Unsaved(q)' PROVE Unsaved(q) /\ job'[q].route = job[q].route
  BY <1>3 DEF Moved, Unsaved
<1>4. \A q \in Processes : DistinctIds(routes'[q])
  BY DEF Moved, OneEach
<1> QED
  BY <1>1, <1>2, <1>3, <1>4, Fewer

LEMMA AnswerApart ==
    ASSUME TypeInv, OneEach, NEW p \in Processes, Answer(p), managed' \in {managed, routes[p]}
    PROVE  OneEach'
<1>1. Moved(p, "idle", NoJob, <<>>)
  BY AnswerMoves, MovesMoved DEF TypeInv
<1>2. Range(managed') \subseteq Snapshots /\ DistinctIds(managed')
  BY DEF Snapshots, OneEach
<1> QED
  BY <1>1, <1>2, EmptyList, Values, FewerMoved

LEMMA GotoApart ==
    ASSUME TypeInv, OneEach, NEW p \in Processes, NEW step, Goto(p, step),
           UNCHANGED <<job, routes>>, managed' \in {managed, <<>>},
           Unsaved(p) \/ job[p].op # "add" \/ step \notin {"apply", "read"}
    PROVE  OneEach'
<1>1. Moved(p, step, job[p], routes[p])
  BY GotoMoves, MovesMoved DEF TypeInv
<1>2. Range(managed') \subseteq Snapshots /\ DistinctIds(managed')
  BY EmptyList DEF Snapshots, OneEach
<1>3. Range(routes[p]) \subseteq Snapshots /\ DistinctIds(routes[p])
  BY DEF Snapshots, OneEach
<1> QED
  BY <1>1, <1>2, <1>3, FewerMoved

LEMMA BootApart ==
    ASSUME TypeInv, OneEach, NEW todo \in Seq(Route), BootWith(todo), UNCHANGED <<job, managed>>,
           Range(todo) \subseteq Snapshots, DistinctIds(todo)
    PROVE  OneEach'
<1>1. PICK s \in Seq(Route) :
        Moves(Boot, IF s = <<>> THEN "idle" ELSE "apply", NoJob, s) /\ Follows(s, todo)
  BY BootMoves DEF TypeInv
<1> DEFINE step == IF s = <<>> THEN "idle" ELSE "apply"
<1>2. Moved(Boot, step, NoJob, s)
  BY <1>1, Values, MovesMoved DEF TypeInv
<1> HIDE DEF step
<1>3. Range(s) \subseteq Snapshots /\ DistinctIds(s)
  BY <1>1 DEF Follows
<1>4. Range(managed') \subseteq Snapshots /\ DistinctIds(managed')
  BY DEF Snapshots, OneEach
<1> QED
  BY <1>2, <1>3, <1>4, Values, FewerMoved

\* applyOne, at startup and in a request.
LEMMA ApplyApart ==
    ASSUME TypeInv, OneEach, NEW p \in Processes, Apply(p) \/ ApplyFails(p)
    PROVE  OneEach'
<1>1. pc[p] = "apply" /\ managed' = managed /\ LocalsOK /\ LocalFor(p, pc[p], job[p], routes[p])
  BY DEF Apply, ApplyFails, TypeInv, LocalsOK
<1>2. ASSUME p = Boot PROVE /\ Tail(routes[Boot]) \in Seq(Route)
                            /\ Range(Tail(routes[Boot])) \subseteq Snapshots
                            /\ DistinctIds(Tail(routes[Boot]))
  <2>1. routes[Boot] \in Seq(Route) /\ routes[Boot] # <<>>
    BY <1>1, <1>2 DEF LocalsOK, LocalFor
  <2>2. DistinctIds(routes[Boot]) /\ Range(routes[Boot]) \subseteq Snapshots
    BY Values DEF OneEach, Snapshots
  <2> QED
    BY <2>1, <2>2, TailList
<1>3. CASE Refused(p)
  BY <1>1, <1>2, <1>3, AnswerApart, BootApart DEF Refused, NextRoute
<1>4. CASE Apply(p) /\ Current(p).entry.hop \in up
  <2>1. CASE p = Boot
    BY <1>1, <1>2, <1>4, <2>1, BootApart DEF Apply, NextRoute
  <2>2. CASE p # Boot
    <3> DEFINE step == IF job[p].op = "add" THEN "read" ELSE "truncate"
    <3>1. Goto(p, step) /\ UNCHANGED <<job, routes>>
      BY <1>4, <2>2 DEF Apply
    <3>2. Unsaved(p) \/ job[p].op # "add" \/ step \notin {"apply", "read"}
      BY <1>1 DEF Unsaved
    <3> HIDE DEF step
    <3> QED
      BY <1>1, <3>1, <3>2, GotoApart
  <2> QED
    BY <2>1, <2>2
<1> QED
  BY <1>3, <1>4 DEF Apply, ApplyFails

\* What the user enters shares its destination with nothing but the old route.
LEMMA EntriesApart ==
    ASSUME Careful, TypeInv, OneEach, NEW old \in {None} \cup Known, NEW new \in Route,
           new.entry \in Entries(old), old # None => new.id = old.id
    PROVE  /\ \A x \in Known : x.entry.dest = new.entry.dest => old # None /\ x.id = new.id
           /\ \A e \in Foreign : e.dest # new.entry.dest
<1>1. \A e \in Others(old) : e.dest # new.entry.dest
  BY DEF Entries
<1>2. \A x \in Known : x.entry \in Others(old) \/ (old # None /\ x.entry = old.entry)
  <2> SUFFICES ASSUME NEW x \in Known, x.entry \notin EntryOf(old)
               PROVE  x.entry \in Others(old)
    BY DEF EntryOf
  <2>1. CASE x \in Snapshots
    BY <2>1 DEF Others
  <2>2. CASE x \in Asked
    BY <2>2 DEF Others, Asked, EntryOf
  <2> QED
    BY <2>1, <2>2 DEF Known
<1>3. \A x \in Known : x.entry.dest = new.entry.dest => old # None /\ x.id = new.id
  BY <1>1, <1>2 DEF OneEach
<1>4. ASSUME NEW e \in Foreign PROVE e.dest # new.entry.dest
  <2>1. e \notin EntryOf(old)
    BY DEF EntryOf, OneEach
  <2> QED
    BY <1>1, <2>1 DEF Others
<1> QED
  BY <1>3, <1>4

\* A new route among the known ones.
LEMMA OneMore ==
    ASSUME OneEach, NEW new, Known' \subseteq Known \cup {new},
           \A x \in Known : x.entry.dest = new.entry.dest => x.id = new.id,
           \A e \in Foreign : e.dest # new.entry.dest
    PROVE  /\ \A x, y \in Known' : x.entry.dest = y.entry.dest => x.id = y.id
           /\ \A x \in Known' : \A e \in Foreign : x.entry.dest # e.dest
BY DEF OneEach

LEMMA MovedKnown ==
    ASSUME NEW p \in Processes, NEW step, NEW j, NEW s, Moved(p, step, j, s), managed' = managed
    PROVE  /\ Snapshots' \subseteq Snapshots \cup Range(s)
           /\ Known' \subseteq Known \cup Range(s) \cup ({j.route} \ {None})
<1>1. Snapshots' \subseteq Snapshots \cup Range(s)
  BY MovedSnapshots DEF Snapshots
<1>2. Asked' \subseteq Asked \cup ({j.route} \ {None})
  BY DEF Asked, Moved
<1> QED
  BY <1>1, <1>2 DEF Known

LEMMA AddApart ==
    ASSUME Careful, TypeInv, OneEach, NEW r \in Requests, StartAdd(r)
    PROVE  OneEach'
<1>1. PICK new \in Route, j \in Job : AddStarts(r, new, j)
  BY AddStart
<1>2. Moved(r, "apply", j, <<>>) /\ managed' = managed
  BY <1>1, Values, MovesMoved DEF AddStarts, Begin, Goto, Moves, TypeInv
<1>3. Snapshots' \subseteq Snapshots /\ Known' \subseteq Known \cup {new}
  BY <1>1, <1>2, Values, EmptyList, MovedKnown DEF AddStarts
<1>4. /\ \A x \in Known : x.entry.dest # new.entry.dest
      /\ \A e \in Foreign : e.dest # new.entry.dest
  BY <1>1, EntriesApart DEF AddStarts
<1>5. /\ \A x, y \in Known' : x.entry.dest = y.entry.dest => x.id = y.id
      /\ \A x \in Known' : \A e \in Foreign : x.entry.dest # e.dest
  BY <1>3, <1>4, OneMore
<1>6. /\ \A x \in Snapshots : x.id # new.id
      /\ \A q \in Processes : job[q].route # None => job[q].route.id # new.id
  <2>1. \A q \in Processes : job[q].route # None => q \in Requests
    BY Values DEF Processes, TypeInv, LocalsOK, LocalFor
  <2> QED
    BY <1>1, <2>1 DEF AddStarts, InUse
<1>7. ASSUME NEW p \in Processes, Unsaved(p)'
      PROVE  /\ \A x \in Snapshots' : x.id # job'[p].route.id
             /\ \A q \in Processes \ {p} : job'[q].route # None => job'[q].route.id # job'[p].route.id
  <2>1. CASE p = r
    BY <1>1, <1>2, <1>3, <1>6, <2>1 DEF Moved, AddStarts
  <2>2. CASE p # r
    <3>1. Unsaved(p) /\ job'[p] = job[p]
      BY <1>2, <1>7, <2>2 DEF Moved, Unsaved
    <3>2. job[p].route # None
      BY <3>1, Values DEF Unsaved, TypeInv, LocalsOK, LocalFor
    <3>3. job'[r].route = new /\ new.id # job[p].route.id
      BY <1>1, <1>2, <1>6, <3>2 DEF Moved, AddStarts
    <3>4. \A q \in Processes \ {p} : q # r => job'[q] = job[q]
      BY <1>2 DEF Moved
    <3> QED
      BY <1>3, <3>1, <3>3, <3>4 DEF OneEach
  <2> QED
    BY <2>1, <2>2
<1>8. DistinctIds(managed') /\ \A p \in Processes : DistinctIds(routes'[p])
  BY <1>2, EmptyList DEF Moved, OneEach
<1> QED
  BY <1>5, <1>7, <1>8 DEF OneEach, DistinctIds

LEMMA UpdateApart ==
    ASSUME Careful, TypeInv, OneEach, NEW r \in Requests, StartUpdate(r)
    PROVE  OneEach'
<1>0. managed \in Seq(Route) /\ DistinctIds(managed)
  BY DEF TypeInv, RestOK, OneEach
<1>1. PICK i \in DOMAIN managed, new \in Route, j \in Job : UpdateStarts(r, i, new, j)
  BY <1>0, UpdateStart
<1> DEFINE s == ReplaceAt(managed, i, new)
<1>2. Begin(r, "delete", j, s) /\ s \in Seq(Route)
  BY <1>1 DEF UpdateStarts
<1>3. Range(s) = {y \in Range(managed) : y.id # managed[i].id} \cup {new} /\ DistinctIds(s)
  BY <1>0, <1>1, ReplaceList DEF UpdateStarts
<1> HIDE DEF s
<1>4. Moved(r, "delete", j, s) /\ managed' = managed
  BY <1>2, Values, MovesMoved DEF Begin, Goto, Moves, TypeInv
<1>5. managed[i] \in Snapshots /\ managed[i] \in Known
  BY <1>0, ListFacts DEF Snapshots, Known
<1>6. Snapshots' \subseteq Snapshots \cup {new} /\ Known' \subseteq Known \cup {new}
  <2>1. Range(s) \subseteq Snapshots \cup {new} /\ j.route = new
    BY <1>1, <1>3 DEF Snapshots, UpdateStarts
  <2>2. Snapshots \subseteq Known
    BY DEF Known
  <2> QED
    BY <1>4, <2>1, <2>2, Values, MovedKnown
<1>7. managed[i] # None /\ new.id = managed[i].id /\ new.entry \in Entries(managed[i])
  BY <1>1, Values DEF UpdateStarts
<1>8. /\ \A x \in Known : x.entry.dest = new.entry.dest => x.id = new.id
      /\ \A e \in Foreign : e.dest # new.entry.dest
  BY <1>5, <1>7, EntriesApart
<1>9. /\ \A x, y \in Known' : x.entry.dest = y.entry.dest => x.id = y.id
      /\ \A x \in Known' : \A e \in Foreign : x.entry.dest # e.dest
  BY <1>6, <1>8, OneMore
<1>10. ASSUME NEW p \in Processes, Unsaved(p)'
       PROVE  /\ \A x \in Snapshots' : x.id # job'[p].route.id
              /\ \A q \in Processes \ {p} : job'[q].route # None => job'[q].route.id # job'[p].route.id
  <2>1. p # r
    BY <1>1, <1>4, <1>10 DEF Moved, Unsaved, UpdateStarts
  <2>2. Unsaved(p) /\ job'[p] = job[p]
    BY <1>4, <1>10, <2>1 DEF Moved, Unsaved
  <2>3. \A x \in Snapshots : x.id # job[p].route.id
    BY <2>2 DEF OneEach
  <2>4. new.id # job[p].route.id
    BY <1>5, <1>7, <2>3
  <2>5. job'[r].route = new
    BY <1>1, <1>4 DEF Moved, UpdateStarts
  <2>6. \A q \in Processes \ {p} : q # r => job'[q] = job[q]
    BY <1>4 DEF Moved
  <2>7. \A q \in Processes \ {p} : job'[q].route # None => job'[q].route.id # job[p].route.id
    BY <2>2, <2>4, <2>5, <2>6 DEF OneEach
  <2> QED
    BY <1>6, <2>2, <2>3, <2>4, <2>7
<1>11. DistinctIds(managed') /\ \A p \in Processes : DistinctIds(routes'[p])
  BY <1>3, <1>4 DEF Moved, OneEach
<1> QED
  BY <1>9, <1>10, <1>11 DEF OneEach, DistinctIds

LEMMA DeleteApart ==
    ASSUME TypeInv, OneEach, NEW r \in Requests, StartDelete(r)
    PROVE  OneEach'
<1>0. managed \in Seq(Route) /\ DistinctIds(managed)
  BY DEF TypeInv, RestOK, OneEach
<1>1. PICK i \in DOMAIN managed, j \in Job : DeleteStarts(r, i, j)
  BY <1>0, DeleteStart
<1> DEFINE s == RemoveAt(managed, i)
<1>2. Begin(r, "delete", j, s) /\ s \in Seq(Route)
  BY <1>1 DEF DeleteStarts
<1>3. Range(s) = {y \in Range(managed) : y.id # managed[i].id} /\ DistinctIds(s)
  BY <1>0, RemoveList
<1> HIDE DEF s
<1>4. Moved(r, "delete", j, s) /\ managed' = managed
  BY <1>2, Values, MovesMoved DEF Begin, Goto, Moves, TypeInv
<1>5. Range(s) \subseteq Snapshots /\ Range(managed') \subseteq Snapshots
  BY <1>3, <1>4 DEF Snapshots
<1>6. j.op = "delete" /\ j.route = None
  BY <1>1 DEF DeleteStarts
<1> QED
  BY <1>0, <1>3, <1>4, <1>5, <1>6, Values, FewerMoved

LEMMA ReadApart ==
    ASSUME TypeInv, OneEach, NEW r \in Requests, Read(r)
    PROVE  OneEach'
<1>0. managed \in Seq(Route) /\ DistinctIds(managed) /\ LocalsOK /\ r \in Processes
  BY Values DEF TypeInv, RestOK, OneEach
<1>1. pc[r] = "read" /\ job[r].op = "add" /\ job[r].route \in Route /\ Unsaved(r)
  BY <1>0 DEF Read, LocalsOK, LocalFor, Unsaved
<1> DEFINE new == job[r].route
           s == Append(managed, new)
<1>2. \A x \in Snapshots : x.id # new.id
  BY <1>0, <1>1 DEF OneEach
<1>3. Range(s) = Range(managed) \cup {new} /\ DistinctIds(s)
  BY <1>0, <1>1, <1>2, AppendList DEF Snapshots
<1>4. Moved(r, "truncate", job[r], s) /\ managed' = managed
  <2>1. job = [job EXCEPT ![r] = job[r]]
    BY <1>0 DEF LocalsOK
  <2>2. Moves(r, "truncate", job[r], s)
    BY <2>1 DEF Read, Goto, Moves
  <2> QED
    BY <1>0, <2>2, MovesMoved DEF Read
<1> HIDE DEF s
<1>5. new \in Known
  BY <1>0, <1>1, Values DEF Known, Asked
<1>6. Snapshots' \subseteq Snapshots \cup {new} /\ Known' \subseteq Known
  <2>1. Range(s) \subseteq Snapshots \cup {new}
    BY <1>3 DEF Snapshots
  <2>2. Snapshots \subseteq Known
    BY DEF Known
  <2> QED
    BY <1>0, <1>4, <1>5, <2>1, <2>2, MovedKnown
<1>7. /\ \A x, y \in Known' : x.entry.dest = y.entry.dest => x.id = y.id
      /\ \A x \in Known' : \A e \in Foreign : x.entry.dest # e.dest
  BY <1>6 DEF OneEach
<1>8. ASSUME NEW p \in Processes, Unsaved(p)'
      PROVE  /\ \A x \in Snapshots' : x.id # job'[p].route.id
             /\ \A q \in Processes \ {p} : job'[q].route # None => job'[q].route.id # job'[p].route.id
  <2>1. p # r
    BY <1>4, <1>8 DEF Moved, Unsaved
  <2>2. Unsaved(p) /\ job'[p] = job[p] /\ \A q \in Processes : job'[q] = job[q]
    BY <1>4, <1>8, <2>1 DEF Moved, Unsaved
  <2>3. new # None /\ new.id # job[p].route.id
    BY <1>0, <1>1, <2>1, <2>2, Values DEF OneEach
  <2> QED
    BY <1>6, <2>2, <2>3 DEF OneEach
<1>9. DistinctIds(managed') /\ \A p \in Processes : DistinctIds(routes'[p])
  BY <1>0, <1>3, <1>4 DEF Moved, OneEach
<1> QED
  BY <1>7, <1>8, <1>9 DEF OneEach, DistinctIds

LEMMA StopApart ==
    ASSUME OneEach, Stop, managed' = managed
    PROVE  OneEach'
<1>1. \A p \in Processes : pc'[p] = "idle" /\ job'[p] = NoJob /\ routes'[p] = <<>>
  BY StopLocals
<1>2. Snapshots' \subseteq Snapshots
  BY <1>1, EmptyList DEF Snapshots, Range
<1>3. /\ \A p \in Processes : job'[p].route = job[p].route \/ job'[p].route = None
      /\ \A p \in Processes : ~Unsaved(p)'
      /\ \A p \in Processes : DistinctIds(routes'[p])
  BY <1>1, Values, EmptyList DEF Unsaved
<1>4. DistinctIds(managed')
  BY DEF OneEach
<1> QED
  BY <1>2, <1>3, <1>4, Fewer

LEMMA OneEachNext ==
    ASSUME Careful, TypeInv, OneEach, [Next]_vars
    PROVE  OneEach'
<1>0. LocalsOK /\ managed \in Seq(Route)
  BY DEF TypeInv, RestOK
<1>1. CASE StartBoot
  <2>1. BootWith(managed) /\ UNCHANGED <<job, managed>>
    BY <1>1 DEF StartBoot
  <2>2. Range(managed) \subseteq Snapshots /\ DistinctIds(managed)
    BY DEF Snapshots, OneEach
  <2> QED
    BY <1>0, <2>1, <2>2, BootApart
<1>2. ASSUME NEW r \in Requests,
             Delete(r) \/ DeleteFails(r) \/ Truncate(r) \/ Write(r) \/ SaveFails(r)
      PROVE  OneEach'
  <2>1. r \in Processes /\ LocalFor(r, pc[r], job[r], routes[r])
    BY <1>0, Values DEF LocalsOK
  <2>2. CASE Delete(r) \/ DeleteFails(r)
    <3> DEFINE step == IF job[r].op = "update" /\ job[r].route.enabled THEN "apply" ELSE "truncate"
    <3>1. pc[r] = "delete" /\ Goto(r, step) /\ UNCHANGED <<job, routes, managed>>
      BY <2>2 DEF Delete, DeleteFails
    <3>2. job[r].op # "add"
      BY <2>1, <3>1 DEF LocalFor
    <3> HIDE DEF step
    <3> QED
      BY <2>1, <3>1, <3>2, GotoApart
  <2>3. CASE Truncate(r)
    <3>1. Goto(r, "write") /\ UNCHANGED <<job, routes>> /\ managed' = <<>>
      BY <2>3 DEF Truncate
    <3> QED
      BY <2>1, <3>1, GotoApart
  <2>4. CASE Write(r) \/ SaveFails(r)
    BY <2>1, <2>4, AnswerApart DEF Write, SaveFails
  <2> QED
    BY <1>2, <2>2, <2>3, <2>4
<1>3. CASE UNCHANGED <<managed, pc, job, routes>>
  <2>1. Snapshots' \subseteq Snapshots /\ \A p \in Processes : Unsaved(p)' => Unsaved(p)
    BY <1>3 DEF Snapshots, Range, Unsaved
  <2> QED
    BY <1>3, <2>1, Fewer DEF OneEach
<1>4. CASE Crash \/ Reboot
  BY <1>4, StopApart DEF Crash, Reboot
<1>5. CASE WireGuardApply \/ UNCHANGED vars
  BY <1>3, <1>5 DEF WireGuardApply, control, vars
<1> QED
  BY <1>1, <1>2, <1>4, <1>5, Values, ApplyApart, AddApart, UpdateApart, DeleteApart, ReadApart
     DEF Next

LEMMA OneEachInit == Init => OneEach
<1> SUFFICES ASSUME Init PROVE OneEach
  OBVIOUS
<1>1. managed = <<>> /\ \A p \in Processes : pc[p] = "idle" /\ job[p] = NoJob /\ routes[p] = <<>>
  BY DEF Init
<1>2. Known = {}
  BY <1>1, EmptyList, Values DEF Known, Snapshots, Asked
<1> QED
  BY <1>1, <1>2, EmptyList DEF OneEach, Unsaved

-----------------------------------------------------------------------------
\* Nobody is busy before the process has started.
LEMMA BusyNext ==
    ASSUME BusyInv, [Next]_vars
    PROVE  BusyInv'
<1>1. CASE Crash \/ Reboot
  BY <1>1, StopLocals DEF Crash, Reboot, BusyInv, Busy
<1>2. CASE StartBoot
  BY <1>2 DEF StartBoot, BusyInv
<1>3. ASSUME NEW p \in Processes, Apply(p) \/ ApplyFails(p) PROVE BusyInv'
  <2>1. started /\ started' = started
    BY <1>3 DEF Apply, ApplyFails, BusyInv, Busy
  <2> QED
    BY <2>1 DEF BusyInv
<1>4. ASSUME NEW r \in Requests, StartAdd(r) \/ StartUpdate(r) \/ StartDelete(r) PROVE BusyInv'
  <2>1. \E step, j, list : Begin(r, step, j, list)
    BY <1>4 DEF StartAdd, StartUpdate, StartDelete
  <2>2. started /\ started' = started
    BY <2>1 DEF Begin
  <2> QED
    BY <2>2 DEF BusyInv
<1>5. ASSUME NEW r \in Requests,
             Read(r) \/ Delete(r) \/ DeleteFails(r) \/ Truncate(r) \/ Write(r) \/ SaveFails(r)
      PROVE  BusyInv'
  <2>1. r \in Processes /\ pc[r] # "idle"
    BY <1>5, Values DEF Read, Delete, DeleteFails, Truncate, Write, SaveFails
  <2>2. started /\ started' = started
    BY <1>5, <2>1 DEF Read, Delete, DeleteFails, Truncate, Write, SaveFails, BusyInv, Busy
  <2> QED
    BY <2>2 DEF BusyInv
<1>6. CASE WireGuardApply
  BY <1>6 DEF WireGuardApply, BusyInv
<1>7. CASE UNCHANGED vars
  BY <1>7 DEF vars, control, BusyInv, Busy
<1> QED
  BY <1>1, <1>2, <1>3, <1>4, <1>5, <1>6, <1>7, Values DEF Next

LEMMA BusyInit == Init => BusyInv
BY DEF Init, BusyInv, Busy

\* What holds of the locals and the known routes always.
RouteInv == TypeInv /\ OneEach /\ BusyInv

LEMMA RouteAlways == ASSUME Careful PROVE Spec => []RouteInv
<1>1. Init => RouteInv
  BY TypeInit, OneEachInit, BusyInit DEF RouteInv
<1>2. RouteInv /\ [Next]_vars => RouteInv'
  BY TypeNext, OneEachNext, BusyNext DEF RouteInv
<1> QED
  BY <1>1, <1>2, PTL DEF Spec

-----------------------------------------------------------------------------
\* What one command does to the routes that should be in the table.
LEMMA SameId ==
    ASSUME NEW s, DistinctIds(s), NEW x \in Range(s), NEW y \in Range(s), x.id = y.id
    PROVE  x = y
BY DEF DistinctIds, Range

LEMMA HeldFewer ==
    ASSUME NEW set, NEW less, NEW t, NEW ex, NEW more, Held(set, t, ex), ex \subseteq more,
           \A x \in less : x \in set \/ ~x.enabled \/ x.id \in more
    PROVE  Held(less, t, more)
BY DEF Held

LEMMA HeldReplaced ==
    ASSUME OneEach, NEW set \in SUBSET Known, NEW c \in Known, NEW t, NEW ex, Held(set, t, ex),
           \A x \in set : x.id # c.id
    PROVE  /\ Held(set \cup {c}, Replaced(t, c.entry), ex \ {c.id})
           /\ c.entry \in Replaced(t, c.entry)
<1>1. c.entry \in Replaced(t, c.entry)
  BY DEF Replaced
<1>2. ASSUME NEW x \in set, x.enabled, x.id \notin ex \ {c.id}
      PROVE  x.entry \in Replaced(t, c.entry)
  <2>1. x.id # c.id /\ x.id \notin ex
    BY <1>2
  <2>2. x.entry \in t /\ x.entry.dest # c.entry.dest
    BY <1>2, <2>1 DEF Held, OneEach
  <2> QED
    BY <2>2 DEF Replaced
<1> QED
  BY <1>1, <1>2 DEF Held

LEMMA HeldRemoved ==
    ASSUME OneEach, NEW set \in SUBSET Known, NEW old \in Known, NEW t, NEW ex, Held(set, t, ex),
           \A x \in set : x.id # old.id
    PROVE  Held(set, Removed(t, old.entry), ex)
<1>1. ASSUME NEW x \in set, x.enabled, x.id \notin ex PROVE x.entry \in Removed(t, old.entry)
  <2>1. x.entry \in t /\ x.entry.dest # old.entry.dest
    BY <1>1 DEF Held, OneEach
  <2> QED
    BY <2>1 DEF Removed
<1> QED
  BY <1>1 DEF Held

LEMMA KnownRoutes ==
    /\ Range(managed) \subseteq Known
    /\ \A p \in Processes : Range(routes[p]) \subseteq Known
    /\ \A p \in Processes : job[p].route # None => job[p].route \in Known
BY DEF Known, Snapshots, Asked

-----------------------------------------------------------------------------
\* It is enough to look at the one process that moves.
LEMMA HoldingMoved ==
    ASSUME LocalsOK, LocalsOK', NEW p \in Processes, NEW step, NEW j, NEW s, Moved(p, step, j, s),
           ~overlapped' => /\ Alone(p)
                           /\ started' => Holding(p, step, j, s, managed', table', excused')
    PROVE  InstalledInv'
<1> SUFFICES ASSUME ~overlapped'
             PROVE  /\ \A q \in Processes : Busy(q)' => Alone(q)'
                    /\ \A q \in Processes : started' /\ Alone(q)' =>
                         Holding(q, pc'[q], job'[q], routes'[q], managed', table', excused')
  BY DEF InstalledInv, Holding, Held, Pending, Rest, Range
<1>1. \A q \in Processes \ {p} : pc'[q] = "idle"
  BY DEF Alone, Busy, Moved
<1>2. ASSUME NEW q \in Processes, Busy(q)' PROVE Alone(q)'
  BY <1>1, <1>2 DEF Alone, Busy
<1>3. ASSUME NEW q \in Processes, started', Alone(q)'
      PROVE  Holding(q, pc'[q], job'[q], routes'[q], managed', table', excused')
  <2>1. CASE q = p
    BY <1>3, <2>1 DEF Moved
  <2>2. CASE q # p
    <3>1. step = "idle" /\ pc'[q] = "idle" /\ job'[q] = NoJob
      BY <1>1, <1>3, <2>2 DEF Alone, Busy, Moved, LocalsOK, LocalFor
    <3>2. Held(Range(managed'), table', excused')
      BY <1>3, <3>1 DEF Holding
    <3> QED
      BY <3>1, <3>2, Values DEF Holding, Pending
  <2> QED
    BY <2>1, <2>2
<1> QED
  BY <1>2, <1>3

LEMMA LeavingMoved ==
    ASSUME LocalsOK, LocalsOK', NEW p \in Processes, NEW step, NEW j, NEW s, Moved(p, step, j, s),
           ~leftover' => Alone(p) /\ Leaving(p, step, j, s, managed', table')
    PROVE  NothingInv'
<1> SUFFICES ASSUME ~leftover'
             PROVE  /\ \A q \in Processes : Busy(q)' => Alone(q)'
                    /\ \A q \in Processes : Alone(q)' =>
                         Leaving(q, pc'[q], job'[q], routes'[q], managed', table')
  BY DEF NothingInv, Leaving, Live, Pending, Rest, Range
<1>1. \A q \in Processes \ {p} : pc'[q] = "idle"
  BY DEF Alone, Busy, Moved
<1>2. ASSUME NEW q \in Processes, Busy(q)' PROVE Alone(q)'
  BY <1>1, <1>2 DEF Alone, Busy
<1>3. ASSUME NEW q \in Processes, Alone(q)'
      PROVE  Leaving(q, pc'[q], job'[q], routes'[q], managed', table')
  <2>1. CASE q = p
    BY <2>1 DEF Moved
  <2>2. CASE q # p
    <3>1. step = "idle" /\ pc'[q] = "idle" /\ job'[q] = NoJob /\ routes'[q] = <<>>
      BY <1>1, <1>3, <2>2 DEF Alone, Busy, Moved, LocalsOK, LocalFor
    <3>2. table' \subseteq Foreign \cup Live(Range(managed'))
      BY <3>1 DEF Leaving
    <3> QED
      BY <3>1, <3>2, Values, EmptyList DEF Leaving, Pending
  <2> QED
    BY <2>1, <2>2
<1> QED
  BY <1>2, <1>3

-----------------------------------------------------------------------------
\* What holds before a step, by whether its process goes on or starts.
LEMMA BusyHolding ==
    ASSUME RouteInv, InstalledInv, ~overlapped, NEW p \in Processes, Busy(p)
    PROVE  Alone(p) /\ Holding(p, pc[p], job[p], routes[p], managed, table, excused)
BY DEF RouteInv, BusyInv, InstalledInv

LEMMA IdleHolding ==
    ASSUME InstalledInv, ~overlapped, started, \A q \in Processes : ~Busy(q)
    PROVE  (\A p \in Processes : Alone(p)) /\ Held(Range(managed), table, excused)
<1>1. \A p \in Processes : Alone(p)
  BY DEF Alone
<1>2. Holding(Boot, pc[Boot], job[Boot], routes[Boot], managed, table, excused)
  BY <1>1, Values DEF InstalledInv
<1> QED
  BY <1>1, <1>2, Values DEF Holding, Busy

LEMMA BusyLeaving ==
    ASSUME NothingInv, ~leftover, NEW p \in Processes, Busy(p)
    PROVE  Alone(p) /\ Leaving(p, pc[p], job[p], routes[p], managed, table)
BY DEF NothingInv

LEMMA IdleLeaving ==
    ASSUME NothingInv, ~leftover, \A q \in Processes : ~Busy(q)
    PROVE  (\A p \in Processes : Alone(p)) /\ table \subseteq Foreign \cup Live(Range(managed))
<1>1. \A p \in Processes : Alone(p)
  BY DEF Alone
<1>2. Leaving(Boot, pc[Boot], job[Boot], routes[Boot], managed, table)
  BY <1>1, Values DEF NothingInv
<1> QED
  BY <1>1, <1>2, Values DEF Leaving, Busy

\* A request starts.
LEMMA StartPending ==
    ASSUME RouteInv, NEW r \in Requests, StartAdd(r) \/ StartUpdate(r) \/ StartDelete(r)
    PROVE  \E step \in {"apply", "delete"}, j \in Job, s \in Seq(Route) :
             /\ Begin(r, step, j, s)
             /\ Pending(step, j, s, managed)
             /\ step = "apply" => j.op = "add"
<1>0. managed \in Seq(Route) /\ DistinctIds(managed)
  BY DEF RouteInv, TypeInv, RestOK, OneEach
<1>1. CASE StartAdd(r)
  <2>1. PICK new \in Route, j \in Job : AddStarts(r, new, j)
    BY <1>1, AddStart
  <2>2. Begin(r, "apply", j, <<>>) /\ j.op = "add" /\ Pending("apply", j, <<>>, managed)
    BY <2>1 DEF AddStarts, Pending
  <2> QED
    BY <2>2, EmptyList
<1>2. CASE StartUpdate(r)
  <2>1. PICK i \in DOMAIN managed, new \in Route, j \in Job : UpdateStarts(r, i, new, j)
    BY <1>0, <1>2, UpdateStart
  <2> DEFINE s == ReplaceAt(managed, i, new)
  <2>2. Begin(r, "delete", j, s) /\ s \in Seq(Route)
    BY <2>1 DEF UpdateStarts
  <2>3. Range(s) = {y \in Range(managed) : y.id # managed[i].id} \cup {new}
    BY <1>0, <2>1, ReplaceList DEF UpdateStarts
  <2> HIDE DEF s
  <2>4. j.old = managed[i] /\ j.old # None /\ j.route = new /\ new # None
        /\ j.old \in Range(managed)
    BY <1>0, <2>1, ListFacts, Values DEF UpdateStarts
  <2>5. Pending("delete", j, s, managed)
    BY <2>3, <2>4 DEF Pending, Rest
  <2> QED
    BY <2>2, <2>5
<1>3. CASE StartDelete(r)
  <2>1. PICK i \in DOMAIN managed, j \in Job : DeleteStarts(r, i, j)
    BY <1>0, <1>3, DeleteStart
  <2> DEFINE s == RemoveAt(managed, i)
  <2>2. Begin(r, "delete", j, s) /\ s \in Seq(Route)
    BY <2>1 DEF DeleteStarts
  <2>3. Range(s) = {y \in Range(managed) : y.id # managed[i].id}
    BY <1>0, RemoveList
  <2> HIDE DEF s
  <2>4. j.old = managed[i] /\ j.old # None /\ j.route = None /\ j.old \in Range(managed)
    BY <1>0, <2>1, ListFacts, Values DEF DeleteStarts
  <2>5. Pending("delete", j, s, managed)
    BY <2>3, <2>4 DEF Pending, Rest
  <2> QED
    BY <2>2, <2>5
<1> QED
  BY <1>1, <1>2, <1>3

LEMMA StartHolds ==
    ASSUME RouteInv, LocalsOK', NEW r \in Requests, StartAdd(r) \/ StartUpdate(r) \/ StartDelete(r)
    PROVE  /\ InstalledInv => InstalledInv'
           /\ NothingInv => NothingInv'
<1>1. PICK step \in {"apply", "delete"}, j \in Job, s \in Seq(Route) :
        /\ Begin(r, step, j, s)
        /\ Pending(step, j, s, managed)
        /\ step = "apply" => j.op = "add"
  BY StartPending
<1>2. /\ started /\ managed' = managed /\ table' = table /\ excused' = excused
      /\ ~overlapped' => ~overlapped /\ \A p \in Processes : ~Busy(p)
      /\ ~leftover' => ~leftover /\ \A p \in Processes : ~Busy(p)
  BY <1>1 DEF Begin, kernel
<1>3. LocalsOK /\ r \in Processes /\ r # Boot /\ Moved(r, step, j, s)
  BY <1>1, Values, MovesMoved DEF Begin, Goto, Moves, RouteInv, TypeInv
<1>4. ASSUME InstalledInv, ~overlapped'
      PROVE  Alone(r) /\ Holding(r, step, j, s, managed', table', excused')
  <2>1. Alone(r) /\ Held(Range(managed), table, excused)
    BY <1>2, <1>3, <1>4, IdleHolding
  <2>2. Held(Rest(j, Range(managed)), table, excused)
    BY <2>1 DEF Held, Rest
  <2> QED
    BY <1>1, <1>2, <1>3, <2>1, <2>2 DEF Holding
<1>5. ASSUME NothingInv, ~leftover' PROVE Alone(r) /\ Leaving(r, step, j, s, managed', table')
  <2>1. Alone(r) /\ table \subseteq Foreign \cup Live(Range(managed))
    BY <1>2, <1>3, <1>5, IdleLeaving
  <2> QED
    BY <1>1, <1>2, <1>3, <2>1 DEF Leaving
<1> QED
  BY <1>3, <1>4, <1>5, HoldingMoved, LeavingMoved

\* The startup, and what it goes on with.
LEMMA BootMoved ==
    ASSUME LocalsOK, NEW todo \in Seq(Route), BootWith(todo), UNCHANGED job
    PROVE  \E s \in Seq(Route) : Follows(s, todo)
             /\ Moved(Boot, IF s = <<>> THEN "idle" ELSE "apply", NoJob, s)
<1>1. PICK s \in Seq(Route) :
        Moves(Boot, IF s = <<>> THEN "idle" ELSE "apply", NoJob, s) /\ Follows(s, todo)
  BY BootMoves
<1> QED
  BY <1>1, Values, MovesMoved

LEMMA BootHolding ==
    ASSUME NEW s \in Seq(Route), NEW file, NEW t, NEW ex,
           Range(s) \subseteq Range(file), Held(Range(file) \ Range(s), t, ex)
    PROVE  Holding(Boot, IF s = <<>> THEN "idle" ELSE "apply", NoJob, s, file, t, ex)
<1>1. s = <<>> => Held(Range(file), t, ex)
  BY EmptyList
<1> QED
  BY <1>1, Values DEF Holding, Pending

LEMMA BootLeaving ==
    ASSUME NEW s \in Seq(Route), NEW file, NEW t,
           Range(s) \subseteq Range(file), t \subseteq Foreign \cup Live(Range(file))
    PROVE  Leaving(Boot, IF s = <<>> THEN "idle" ELSE "apply", NoJob, s, file, t)
BY Values DEF Leaving, Pending

LEMMA StartBootHolds ==
    ASSUME RouteInv, LocalsOK', StartBoot
    PROVE  /\ InstalledInv => InstalledInv'
           /\ NothingInv => NothingInv'
<1>1. /\ LocalsOK /\ managed \in Seq(Route) /\ \A p \in Processes : ~Busy(p)
      /\ managed' = managed /\ table' = table /\ leftover' = leftover
  BY DEF RouteInv, TypeInv, RestOK, BusyInv, StartBoot, kernel, ghost
<1>2. PICK s \in Seq(Route) : Follows(s, managed)
        /\ Moved(Boot, IF s = <<>> THEN "idle" ELSE "apply", NoJob, s)
  BY <1>1, BootMoved DEF StartBoot
<1> DEFINE step == IF s = <<>> THEN "idle" ELSE "apply"
<1>3. Alone(Boot) /\ Range(s) \subseteq Range(managed)
  BY <1>1, <1>2 DEF Alone, Follows
<1>4. Holding(Boot, step, NoJob, s, managed', table', excused')
  <2>1. Held(Range(managed) \ Range(s), table', excused')
    BY <1>2 DEF Held, Follows
  <2> QED
    BY <1>1, <1>3, <2>1, BootHolding
<1>5. ASSUME NothingInv, ~leftover' PROVE Leaving(Boot, step, NoJob, s, managed', table')
  <2>1. table \subseteq Foreign \cup Live(Range(managed))
    BY <1>1, <1>5, IdleLeaving
  <2> QED
    BY <1>1, <1>3, <2>1, BootLeaving
<1>6. Moved(Boot, step, NoJob, s)
  BY <1>2
<1> HIDE DEF step
<1> QED
  BY <1>1, <1>3, <1>4, <1>5, <1>6, Values, HoldingMoved, LeavingMoved

\* The startup applies a route, or cannot.
LEMMA BootApplyHolds ==
    ASSUME RouteInv, LocalsOK', Apply(Boot) \/ ApplyFails(Boot)
    PROVE  /\ InstalledInv /\ up = Hops => InstalledInv'
           /\ NothingInv => NothingInv'
<1> DEFINE list == routes[Boot]
           c == Head(list)
<1>1. /\ LocalsOK /\ managed \in Seq(Route) /\ DistinctIds(managed) /\ OneEach
      /\ pc[Boot] = "apply" /\ Busy(Boot) /\ managed' = managed
      /\ overlapped' = overlapped /\ leftover' = leftover
  BY DEF RouteInv, TypeInv, RestOK, OneEach, Busy, Apply, ApplyFails
<1>2. /\ list \in Seq(Route) /\ list # <<>> /\ c.enabled /\ Current(Boot) = c
      /\ c \in Route /\ Tail(list) \in Seq(Route) /\ Range(list) = {c} \cup Range(Tail(list))
  BY <1>1, Values, CurrentRoute, TailList DEF LocalsOK
<1>3. BootWith(Tail(list)) /\ UNCHANGED job
  BY DEF Apply, ApplyFails, Refused, NextRoute
<1>4. PICK s \in Seq(Route) : Follows(s, Tail(list))
        /\ Moved(Boot, IF s = <<>> THEN "idle" ELSE "apply", NoJob, s)
  BY <1>1, <1>2, <1>3, BootMoved
<1>5. \/ table' = Replaced(table, c.entry) /\ excused' = excused \ {c.id}
      \/ table' = table /\ excused' = excused /\ c.entry.hop \notin up
      \/ table' = table /\ excused' = excused \cup {c.id}
  BY <1>2 DEF Apply, ApplyFails, kernel
<1>6. Range(s) \subseteq Range(list) /\ \A x \in Range(list) : x \in Range(s) \/ x = c \/ ~x.enabled
  BY <1>2, <1>4 DEF Follows
<1> HIDE DEF list, c
<1> DEFINE step == IF s = <<>> THEN "idle" ELSE "apply"
<1>7. ASSUME InstalledInv, up = Hops, ~overlapped'
      PROVE  Alone(Boot) /\ Holding(Boot, step, NoJob, s, managed', table', excused')
  <2>1. Alone(Boot) /\ Holding(Boot, pc[Boot], job[Boot], list, managed, table, excused)
    BY <1>1, <1>7, Values, BusyHolding DEF list
  <2> DEFINE set == Range(managed) \ Range(list)
  <2>2. Range(list) \subseteq Range(managed) /\ Held(set, table, excused)
    BY <1>1, <2>1 DEF Holding
  <2>3. c \in Range(managed) /\ c \notin set /\ c.entry.hop \in Hops
    BY <1>2, <2>2 DEF Route, Entry
  <2>4. \A x \in set : x.id # c.id
    BY <1>1, <2>3, SameId
  <2>5. Held(set \cup {c}, table', excused')
    <3>1. CASE table' = Replaced(table, c.entry) /\ excused' = excused \ {c.id}
      <4>1. set \subseteq Known /\ c \in Known
        BY <2>3, KnownRoutes
      <4> QED
        BY <1>1, <2>2, <2>4, <3>1, <4>1, HeldReplaced
    <3>2. CASE table' = table /\ excused' = excused \cup {c.id}
      BY <2>2, <3>2 DEF Held
    <3> QED
      BY <1>5, <1>7, <2>3, <3>1, <3>2
  <2>6. \A x \in Range(managed) \ Range(s) : x \in set \cup {c} \/ ~x.enabled
    BY <1>6
  <2> HIDE DEF set
  <2>7. Held(Range(managed) \ Range(s), table', excused')
    BY <2>5, <2>6 DEF Held
  <2>8. Range(s) \subseteq Range(managed)
    BY <1>6, <2>2
  <2> QED
    BY <1>1, <2>1, <2>7, <2>8, BootHolding
<1>8. ASSUME NothingInv, ~leftover'
      PROVE  Alone(Boot) /\ Leaving(Boot, step, NoJob, s, managed', table')
  <2>1. Alone(Boot) /\ Leaving(Boot, pc[Boot], job[Boot], list, managed, table)
    BY <1>1, <1>8, Values, BusyLeaving DEF list
  <2>2. Range(list) \subseteq Range(managed) /\ table \subseteq Foreign \cup Live(Range(managed))
    BY <2>1 DEF Leaving
  <2>3. c.entry \in Live(Range(managed))
    BY <1>2, <2>2 DEF Live
  <2>4. table' \subseteq Foreign \cup Live(Range(managed))
    BY <1>5, <2>2, <2>3 DEF Replaced
  <2>5. Range(s) \subseteq Range(managed)
    BY <1>6, <2>2
  <2> QED
    BY <1>1, <2>1, <2>4, <2>5, BootLeaving
<1>9. Moved(Boot, step, NoJob, s)
  BY <1>4
<1> HIDE DEF step
<1> QED
  BY <1>1, <1>7, <1>8, <1>9, Values, HoldingMoved, LeavingMoved

\* A request is over, and the table is as good as before it.
LEMMA AnswerHolding ==
    ASSUME NEW p, NEW file, NEW t, NEW ex, Held(Range(file), t, ex)
    PROVE  Holding(p, "idle", NoJob, <<>>, file, t, ex)
BY Values DEF Holding, Pending

LEMMA AnswerLeaving ==
    ASSUME NEW p, NEW file, NEW t, t \subseteq Foreign \cup Live(Range(file))
    PROVE  Leaving(p, "idle", NoJob, <<>>, file, t)
BY Values, EmptyList DEF Leaving, Pending

\* A request applies its route, or cannot.
LEMMA ApplyHolds ==
    ASSUME RouteInv, LocalsOK', NEW r \in Requests, Apply(r) \/ ApplyFails(r)
    PROVE  /\ InstalledInv /\ up = Hops => InstalledInv'
           /\ NothingInv => NothingInv'
<1> DEFINE j == job[r]
           new == job[r].route
           others == Rest(j, Range(managed))
<1>1. /\ LocalsOK /\ OneEach /\ r \in Processes /\ r # Boot
      /\ LocalFor(r, pc[r], j, routes[r])
      /\ pc[r] = "apply" /\ Busy(r) /\ managed' = managed
      /\ overlapped' = overlapped /\ leftover' = leftover
  BY Values DEF RouteInv, TypeInv, LocalsOK, Busy, Apply, ApplyFails
<1>2. /\ Current(r) = new /\ new \in Route /\ new.enabled /\ new \in Known
      /\ j.op = "add" => j.old = None
      /\ j.op = "update" => j.old \in Route /\ j.old # None /\ new.id = j.old.id
      /\ j.op \in {"add", "update"}
  BY <1>1, CurrentRoute, KnownRoutes, Values DEF LocalFor
<1>3. others \subseteq Known /\ \A x \in others : x.id # new.id
  <2>1. CASE j.op = "add"
    <3>1. Unsaved(r) /\ Range(managed) \subseteq Snapshots
      BY <1>1, <2>1 DEF Unsaved, Snapshots
    <3> QED
      BY <1>1, <3>1, KnownRoutes DEF OneEach, Rest
  <2>2. CASE j.op = "update"
    BY <1>2, <2>2, KnownRoutes DEF Rest
  <2> QED
    BY <1>2, <2>1, <2>2
<1>4. ASSUME InstalledInv, ~overlapped
      PROVE  /\ Alone(r) /\ Held(others, table, excused)
             /\ Pending("apply", j, routes[r], managed)
  <2>1. Alone(r) /\ Holding(r, pc[r], j, routes[r], managed, table, excused)
    BY <1>1, <1>4, BusyHolding
  <2> QED
    BY <1>1, <2>1 DEF Holding
<1>5. ASSUME NothingInv, ~leftover
      PROVE  /\ Alone(r) /\ table \subseteq Foreign \cup Live(others)
             /\ Pending("apply", j, routes[r], managed)
  <2>1. Alone(r) /\ Leaving(r, pc[r], j, routes[r], managed, table)
    BY <1>1, <1>5, BusyLeaving
  <2>2. j.op = "add" => others = Range(managed)
    BY <1>2 DEF Rest
  <2> QED
    BY <1>1, <1>2, <2>1, <2>2 DEF Leaving
<1>6. CASE Refused(r)
  <2>1. Moved(r, "idle", NoJob, <<>>) /\ table' = table
    <3>1. Answer(r)
      BY <1>1, <1>6 DEF Refused
    <3>2. table' = table \/ (Apply(r) /\ Current(r).entry.hop \in up)
      BY DEF Apply, ApplyFails, kernel
    <3>3. ~(Apply(r) /\ Current(r).entry.hop \in up)
      <4>1. pc'[r] = "idle"
        BY <1>1, <3>1 DEF Answer, Goto, LocalsOK
      <4>2. Apply(r) /\ Current(r).entry.hop \in up => pc'[r] # "idle"
        BY <1>1 DEF Apply, Goto, LocalsOK
      <4> QED
        BY <4>1, <4>2
    <3> QED
      BY <1>1, <3>1, <3>2, <3>3, AnswerMoves, MovesMoved
  <2>2. excused' = excused \cup {new.id}
    BY <1>1, <1>2, <1>6, <2>1 DEF Apply, ApplyFails, Goto, Moved, LocalsOK
  <2>3. ASSUME InstalledInv, ~overlapped
        PROVE  Alone(r) /\ Holding(r, "idle", NoJob, <<>>, managed', table', excused')
    <3>1. Held(others, table, excused) /\ Alone(r)
      BY <1>4, <2>3
    <3>2. \A x \in Range(managed) : x \in others \/ x.id = new.id
      BY <1>2 DEF Rest
    <3>3. Held(Range(managed), table, excused \cup {new.id})
      BY <3>1, <3>2 DEF Held
    <3> QED
      BY <1>1, <2>1, <2>2, <3>1, <3>3, AnswerHolding
  <2>4. ASSUME NothingInv, ~leftover
        PROVE  Alone(r) /\ Leaving(r, "idle", NoJob, <<>>, managed', table')
    <3>1. table \subseteq Foreign \cup Live(Range(managed)) /\ Alone(r)
      BY <1>5, <2>4 DEF Live, Rest
    <3> QED
      BY <1>1, <2>1, <3>1, AnswerLeaving
  <2> QED
    BY <1>1, <2>1, <2>3, <2>4, EmptyList, HoldingMoved, LeavingMoved
<1>7. CASE Apply(r) /\ Current(r).entry.hop \in up
  <2> DEFINE step == IF j.op = "add" THEN "read" ELSE "truncate"
  <2>1. Moved(r, step, j, routes[r])
    <3>1. Goto(r, step) /\ UNCHANGED <<job, routes>>
      BY <1>1, <1>7 DEF Apply
    <3> HIDE DEF step
    <3> QED
      BY <1>1, <3>1, GotoMoves, MovesMoved
  <2>2. table' = Replaced(table, new.entry) /\ excused' = excused \ {new.id}
    BY <1>2, <1>7 DEF Apply
  <2>3. ASSUME InstalledInv, ~overlapped
        PROVE  Alone(r) /\ Holding(r, step, j, routes[r], managed', table', excused')
    <3>1. /\ Held(others, table, excused) /\ Alone(r)
          /\ Pending("apply", j, routes[r], managed)
      BY <1>4, <2>3
    <3>2. Held(others \cup {new}, table', excused') /\ new.entry \in table'
      BY <1>1, <1>2, <1>3, <2>2, <3>1, HeldReplaced
    <3>3. Held(others, table', excused')
      BY <3>2 DEF Held
    <3>4. CASE j.op = "add"
      BY <1>1, <3>1, <3>2, <3>3, <3>4 DEF Holding, Pending
    <3>5. CASE j.op = "update"
      <4>1. Range(routes[r]) \subseteq others \cup {new}
        BY <1>2, <3>1, <3>5 DEF Pending
      <4>2. Held(Range(routes[r]), table', excused')
        BY <3>2, <4>1 DEF Held
      <4> QED
        BY <1>1, <3>1, <3>3, <3>5, <4>2 DEF Holding, Pending
    <3> QED
      BY <1>2, <3>4, <3>5
  <2>4. ASSUME NothingInv, ~leftover
        PROVE  Alone(r) /\ Leaving(r, step, j, routes[r], managed', table')
    <3>1. /\ table \subseteq Foreign \cup Live(others) /\ Alone(r)
          /\ Pending("apply", j, routes[r], managed)
      BY <1>5, <2>4
    <3>2. table' \subseteq Foreign \cup Live(others) \cup {new.entry}
      BY <2>2, <3>1 DEF Replaced
    <3>3. CASE j.op = "add"
      <4>1. others = Range(managed)
        BY <1>2, <3>3 DEF Rest
      <4> QED
        BY <1>1, <3>1, <3>2, <3>3, <4>1 DEF Leaving, Pending
    <3>4. CASE j.op = "update"
      <4>1. Range(routes[r]) = others \cup {new}
        BY <1>2, <3>1, <3>4, Values DEF Pending
      <4>2. table' \subseteq Foreign \cup Live(Range(routes[r]))
        BY <1>2, <3>2, <4>1 DEF Live
      <4> QED
        BY <1>1, <3>1, <3>4, <4>2 DEF Leaving, Pending
    <3> QED
      BY <1>2, <3>3, <3>4
  <2>5. routes[r] \in Seq(Route) /\ j \in Job
    BY <1>1 DEF LocalsOK
  <2> HIDE DEF step, j
  <2> QED
    BY <1>1, <2>1, <2>3, <2>4, HoldingMoved, LeavingMoved
<1> QED
  BY <1>6, <1>7 DEF Apply, ApplyFails

\* The file is read.
LEMMA ReadHolds ==
    ASSUME RouteInv, LocalsOK', NEW r \in Requests, Read(r)
    PROVE  /\ InstalledInv => InstalledInv'
           /\ NothingInv => NothingInv'
<1> DEFINE j == job[r]
           new == job[r].route
           s == Append(managed, new)
<1>1. /\ LocalsOK /\ OneEach /\ r \in Processes /\ r # Boot /\ managed \in Seq(Route)
      /\ pc[r] = "read" /\ Busy(r) /\ managed' = managed /\ table' = table
      /\ excused' = excused /\ overlapped' = overlapped /\ leftover' = leftover
      /\ LocalFor(r, pc[r], j, routes[r])
  BY Values DEF RouteInv, TypeInv, LocalsOK, RestOK, Busy, Read, kernel, ghost
<1>2. j.op = "add" /\ j.old = None /\ new \in Route /\ new.enabled
  BY <1>1 DEF LocalFor
<1>3. s \in Seq(Route) /\ Range(s) = Range(managed) \cup {new}
  BY <1>1, <1>2, AppendList
<1>4. Moved(r, "truncate", j, s)
  <2>1. job = [job EXCEPT ![r] = j]
    BY <1>1 DEF LocalsOK
  <2> QED
    BY <1>1, <2>1, MovesMoved DEF Read, Goto, Moves
<1>5. Rest(j, Range(managed)) = Range(managed)
  BY <1>2 DEF Rest
<1> HIDE DEF s
<1>6. ASSUME InstalledInv, ~overlapped'
      PROVE  Alone(r) /\ Holding(r, "truncate", j, s, managed', table', excused')
  <2>1. Alone(r) /\ Holding(r, pc[r], j, routes[r], managed, table, excused)
    BY <1>1, <1>6, BusyHolding
  <2>2. Held(Range(managed), table, excused) /\ new.entry \in table
    BY <1>1, <1>5, <2>1 DEF Holding
  <2>3. Held(Range(s), table, excused)
    BY <1>3, <2>2 DEF Held
  <2> QED
    BY <1>1, <1>2, <1>5, <2>1, <2>2, <2>3 DEF Holding, Pending
<1>7. ASSUME NothingInv, ~leftover'
      PROVE  Alone(r) /\ Leaving(r, "truncate", j, s, managed', table')
  <2>1. Alone(r) /\ Leaving(r, pc[r], j, routes[r], managed, table)
    BY <1>1, <1>7, BusyLeaving
  <2>2. table \subseteq Foreign \cup Live(Range(managed)) \cup {new.entry}
    BY <1>1, <2>1 DEF Leaving
  <2>3. table \subseteq Foreign \cup Live(Range(s))
    BY <1>2, <1>3, <2>2 DEF Live
  <2> QED
    BY <1>1, <1>2, <2>1, <2>3 DEF Leaving, Pending
<1> HIDE DEF j, new
<1> QED
  BY <1>1, <1>4, <1>6, <1>7, HoldingMoved, LeavingMoved

\* The old route is deleted, or is not.
LEMMA OldIsGone ==
    ASSUME OneEach, NEW old \in Known, old.entry \in Entry, old \in Range(managed),
           table \subseteq Foreign \cup Live(Range(managed))
    PROVE  Removed(table, old.entry) \subseteq
             Foreign \cup Live({x \in Range(managed) : x.id # old.id})
<1> DEFINE hits == {x \in table : x.dest = old.entry.dest /\ x.hop = old.entry.hop}
<1>1. ASSUME NEW x \in table, x.dest = old.entry.dest PROVE x = old.entry
  <2>1. x \notin Foreign
    BY <1>1 DEF OneEach
  <2>2. PICK y \in Range(managed) : x = y.entry
    BY <1>1, <2>1 DEF Live
  <2>3. y.id = old.id
    BY <1>1, <2>2, KnownRoutes DEF OneEach
  <2> QED
    BY <2>2, <2>3, SameId DEF OneEach
<1>2. hits \subseteq {old.entry}
  BY <1>1
<1>3. old.entry.metric <= old.entry.metric
  <2>1. Metrics \subseteq Nat
    BY RoutingAssumption
  <2>2. old.entry.metric \in Metrics
    BY DEF Entry
  <2>3. old.entry.metric \in Nat
    BY ONLY <2>1, <2>2
  <2>4. \A n \in Nat : n <= n
    OBVIOUS
  <2> QED
    BY ONLY <2>3, <2>4, Zenon
<1>4. old.entry \notin Removed(table, old.entry) /\ Removed(table, old.entry) \subseteq table
  BY <1>2, <1>3 DEF Removed
<1>5. ASSUME NEW x \in Removed(table, old.entry), x \notin Foreign
      PROVE  x \in Live({y \in Range(managed) : y.id # old.id})
  <2>1. PICK y \in Range(managed) : y.enabled /\ x = y.entry
    BY <1>4, <1>5 DEF Live
  <2>2. y.id # old.id
    BY <1>4, <2>1, SameId DEF OneEach
  <2> QED
    BY <2>1, <2>2 DEF Live
<1> QED
  BY <1>5

LEMMA DeleteHolds ==
    ASSUME RouteInv, LocalsOK', NEW r \in Requests, Delete(r) \/ DeleteFails(r)
    PROVE  /\ InstalledInv => InstalledInv'
           /\ NothingInv => NothingInv'
<1> DEFINE j == job[r]
           others == Rest(j, Range(managed))
           step == IF j.op = "update" /\ j.route.enabled THEN "apply" ELSE "truncate"
<1>1. /\ LocalsOK /\ OneEach /\ r \in Processes /\ r # Boot
      /\ LocalFor(r, pc[r], j, routes[r]) /\ j \in Job /\ routes[r] \in Seq(Route)
      /\ pc[r] = "delete" /\ Busy(r) /\ managed' = managed
      /\ excused' = excused /\ overlapped' = overlapped
  BY Values DEF RouteInv, TypeInv, LocalsOK, Busy, Delete, DeleteFails, ghost
<1>2. /\ j.op \in {"update", "delete"} /\ j.old \in Route /\ j.old # None
      /\ j.op = "update" => j.route \in Route /\ j.route # None
      /\ j.op = "delete" => j.route = None
  BY <1>1, Values DEF LocalFor
<1>3. Moved(r, step, j, routes[r])
  <2>1. Goto(r, step) /\ UNCHANGED <<job, routes>>
    BY DEF Delete, DeleteFails
  <2> HIDE DEF step
  <2> QED
    BY <1>1, <2>1, GotoMoves, MovesMoved
<1>4. \/ table' = Removed(table, j.old.entry) /\ leftover' = leftover
      \/ table' = table /\ leftover'
  BY DEF Delete, DeleteFails, kernel, ghost
<1>5. others \subseteq Known /\ \A x \in others : x.id # j.old.id
  BY <1>2, KnownRoutes DEF Rest
<1>6. ASSUME InstalledInv, ~overlapped'
      PROVE  Alone(r) /\ Holding(r, step, j, routes[r], managed', table', excused')
  <2>1. Alone(r) /\ Holding(r, pc[r], j, routes[r], managed, table, excused)
    BY <1>1, <1>6, BusyHolding
  <2>2. /\ Held(others, table, excused) /\ Pending("delete", j, routes[r], managed)
    BY <1>1, <2>1 DEF Holding
  <2>3. /\ j.old \in Range(managed) /\ Range(routes[r]) = others \cup ({j.route} \ {None})
    BY <1>2, <2>2 DEF Pending
  <2>4. Held(others, table', excused')
    <3>1. j.old \in Known
      BY <2>3, KnownRoutes
    <3> QED
      BY <1>1, <1>4, <1>5, <2>2, <3>1, HeldRemoved
  <2>5. step = "truncate" => Held(Range(routes[r]), table', excused')
    BY <1>2, <2>3, <2>4 DEF Held
  <2>6. Pending(step, j, routes[r], managed)
    BY <2>3 DEF Pending
  <2> QED
    BY <1>1, <2>1, <2>4, <2>5, <2>6 DEF Holding
<1>7. ASSUME NothingInv, ~leftover'
      PROVE  Alone(r) /\ Leaving(r, step, j, routes[r], managed', table')
  <2>1. /\ Alone(r) /\ Leaving(r, pc[r], j, routes[r], managed, table)
        /\ table' = Removed(table, j.old.entry)
    BY <1>1, <1>4, <1>7, BusyLeaving
  <2>2. /\ table \subseteq Foreign \cup Live(Range(managed))
        /\ Pending("delete", j, routes[r], managed)
    BY <1>1, <2>1 DEF Leaving
  <2>3. j.old \in Range(managed) /\ Range(routes[r]) = others \cup ({j.route} \ {None})
    BY <1>2, <2>2 DEF Pending
  <2>4. others = {x \in Range(managed) : x.id # j.old.id}
    BY <1>2 DEF Rest
  <2>5. table' \subseteq Foreign \cup Live(others)
    BY <1>1, <1>2, <2>1, <2>2, <2>3, <2>4, KnownRoutes, Values, OldIsGone
  <2>6. table' \subseteq Foreign \cup Live(Range(routes[r]))
    BY <2>3, <2>5 DEF Live
  <2>7. Pending(step, j, routes[r], managed)
    BY <2>3 DEF Pending
  <2> QED
    BY <1>1, <1>2, <2>1, <2>5, <2>6, <2>7 DEF Leaving
<1> HIDE DEF step, j
<1> QED
  BY <1>1, <1>3, <1>6, <1>7, HoldingMoved, LeavingMoved

\* The save, step by step.
LEMMA SaveHolds ==
    ASSUME RouteInv, LocalsOK', NEW r \in Requests, Truncate(r) \/ Write(r) \/ SaveFails(r)
    PROVE  /\ InstalledInv => InstalledInv'
           /\ NothingInv => NothingInv'
<1> DEFINE j == job[r]
<1>1. /\ LocalsOK /\ r \in Processes /\ r # Boot /\ j \in Job /\ routes[r] \in Seq(Route)
      /\ LocalFor(r, pc[r], j, routes[r])
      /\ pc[r] \in {"truncate", "write"} /\ Busy(r) /\ table' = table /\ overlapped' = overlapped
  BY Values DEF RouteInv, TypeInv, LocalsOK, Busy, Truncate, Write, SaveFails, kernel, ghost
<1>2. ASSUME InstalledInv, ~overlapped
      PROVE  /\ Alone(r) /\ Held(Range(routes[r]), table, excused)
             /\ Held(Rest(j, Range(managed)), table, excused)
  <2>1. Alone(r) /\ Holding(r, pc[r], j, routes[r], managed, table, excused)
    BY <1>1, <1>2, BusyHolding
  <2>2. pc[r] = "write" => Range(managed) = {}
    BY <2>1, EmptyList DEF Holding
  <2> QED
    BY <1>1, <2>1, <2>2 DEF Holding, Held, Rest
<1>3. ASSUME NothingInv, ~leftover
      PROVE  Alone(r) /\ table \subseteq Foreign \cup Live(Range(routes[r]))
  <2>1. Alone(r) /\ Leaving(r, pc[r], j, routes[r], managed, table)
    BY <1>1, <1>3, BusyLeaving
  <2> QED
    BY <1>1, <2>1 DEF Leaving
<1>4. CASE Truncate(r)
  <2>1. Moved(r, "write", j, routes[r])
    <3>1. Goto(r, "write") /\ UNCHANGED <<job, routes>>
      BY <1>4 DEF Truncate
    <3> QED
      BY <1>1, <3>1, GotoMoves, MovesMoved
  <2>2. managed' = <<>> /\ excused' = excused /\ leftover' = leftover
    BY <1>4 DEF Truncate, ghost
  <2>3. ASSUME InstalledInv, ~overlapped'
        PROVE  Alone(r) /\ Holding(r, "write", j, routes[r], managed', table', excused')
    BY <1>1, <1>2, <2>2, <2>3 DEF Holding, Pending
  <2>4. ASSUME NothingInv, ~leftover'
        PROVE  Alone(r) /\ Leaving(r, "write", j, routes[r], managed', table')
    BY <1>1, <1>3, <2>2, <2>4 DEF Leaving, Pending
  <2> HIDE DEF j
  <2> QED
    BY <1>1, <2>1, <2>3, <2>4, HoldingMoved, LeavingMoved
<1>5. CASE Write(r)
  <2>1. Moved(r, "idle", NoJob, <<>>)
    BY <1>1, <1>5, AnswerMoves, MovesMoved DEF Write
  <2>2. managed' = routes[r] /\ excused' = excused /\ leftover' = leftover
    BY <1>5 DEF Write, ghost
  <2>3. ASSUME InstalledInv, ~overlapped'
        PROVE  Alone(r) /\ Holding(r, "idle", NoJob, <<>>, managed', table', excused')
    BY <1>1, <1>2, <2>2, <2>3, AnswerHolding
  <2>4. ASSUME NothingInv, ~leftover'
        PROVE  Alone(r) /\ Leaving(r, "idle", NoJob, <<>>, managed', table')
    BY <1>1, <1>3, <2>2, <2>4, AnswerLeaving
  <2> QED
    BY <1>1, <2>1, <2>3, <2>4, EmptyList, HoldingMoved, LeavingMoved
<1>6. CASE SaveFails(r)
  <2>1. Moved(r, "idle", NoJob, <<>>)
    BY <1>1, <1>6, AnswerMoves, MovesMoved DEF SaveFails
  <2>2. managed' = managed /\ leftover'
    BY <1>6 DEF SaveFails
  <2>3. excused' = excused \cup {x.id : x \in {j.old} \ {None}}
    BY <1>6 DEF SaveFails
  <2>4. ASSUME InstalledInv, ~overlapped'
        PROVE  Alone(r) /\ Holding(r, "idle", NoJob, <<>>, managed', table', excused')
    <3>1. Alone(r) /\ Held(Rest(j, Range(managed)), table, excused)
      BY <1>1, <1>2, <2>4
    <3>2. \A x \in Range(managed) : x \in Rest(j, Range(managed)) \/ x.id \in excused'
      BY <2>3 DEF Rest
    <3>3. Held(Range(managed), table, excused')
      BY <2>3, <3>1, <3>2 DEF Held
    <3> QED
      BY <1>1, <2>2, <3>1, <3>3, AnswerHolding
  <2> QED
    BY <1>1, <2>1, <2>2, <2>4, EmptyList, HoldingMoved, LeavingMoved
<1> QED
  BY <1>4, <1>5, <1>6

-----------------------------------------------------------------------------
\* A step that starts nothing and ends nothing, with a table that has not grown.
LEMMA StillHolds ==
    ASSUME UNCHANGED <<managed, pc, job, routes, excused, overlapped, leftover>>
    PROVE  /\ InstalledInv /\ table \subseteq table' /\ (started' => started) => InstalledInv'
           /\ NothingInv /\ table' \subseteq table => NothingInv'
<1>1. ASSUME InstalledInv, table \subseteq table', started' => started, ~overlapped'
      PROVE  /\ \A q \in Processes : Busy(q)' => Alone(q)'
             /\ \A q \in Processes : started' /\ Alone(q)' =>
                  Holding(q, pc'[q], job'[q], routes'[q], managed', table', excused')
  <2>1. \A q \in Processes : Busy(q)' => Alone(q)'
    BY <1>1 DEF InstalledInv, Busy, Alone
  <2>2. ASSUME NEW q \in Processes, started', Alone(q)'
        PROVE  Holding(q, pc[q], job[q], routes[q], managed, table', excused)
    <3>1. Holding(q, pc[q], job[q], routes[q], managed, table, excused)
      BY <1>1, <2>2 DEF InstalledInv, Busy, Alone
    <3>2. \A set : Held(set, table, excused) => Held(set, table', excused)
      BY <1>1 DEF Held
    <3> QED
      BY <1>1, <3>1, <3>2 DEF Holding
  <2> QED
    BY <2>1, <2>2
<1>2. ASSUME NothingInv, table' \subseteq table, ~leftover'
      PROVE  /\ \A q \in Processes : Busy(q)' => Alone(q)'
             /\ \A q \in Processes : Alone(q)' =>
                  Leaving(q, pc'[q], job'[q], routes'[q], managed', table')
  <2>1. \A q \in Processes : Busy(q)' => Alone(q)'
    BY <1>2 DEF NothingInv, Busy, Alone
  <2>2. ASSUME NEW q \in Processes, Alone(q)'
        PROVE  Leaving(q, pc[q], job[q], routes[q], managed, table')
    <3>1. Leaving(q, pc[q], job[q], routes[q], managed, table)
      BY <1>2, <2>2 DEF NothingInv, Busy, Alone
    <3>2. \A set : table \subseteq set => table' \subseteq set
      BY <1>2
    <3> QED
      BY <1>2, <3>1, <3>2 DEF Leaving
  <2> QED
    BY <2>1, <2>2
<1>3. ASSUME InstalledInv, table \subseteq table', started' => started PROVE InstalledInv'
  BY <1>1, <1>3 DEF InstalledInv, Holding, Held, Pending, Rest, Range
<1>4. ASSUME NothingInv, table' \subseteq table PROVE NothingInv'
  BY <1>2, <1>4 DEF NothingInv, Leaving, Live, Pending, Rest, Range
<1> QED
  BY <1>3, <1>4

\* The process dies: what it has not finished is a leftover until the next reboot.
LEMMA StopHolds ==
    ASSUME RouteInv, Crash \/ Reboot
    PROVE  /\ InstalledInv => InstalledInv'
           /\ NothingInv => NothingInv'
<1>1. Stop /\ ~started' /\ managed' = managed
  BY DEF Crash, Reboot, Stop, kernel
<1>2. \A p \in Processes : pc'[p] = "idle" /\ job'[p] = NoJob /\ routes'[p] = <<>>
  BY <1>1, StopLocals
<1>3. InstalledInv'
  BY <1>1, <1>2 DEF InstalledInv, Busy
<1>4. ASSUME NothingInv, ~leftover' PROVE table' \subseteq Foreign \cup Live(Range(managed'))
  <2>1. CASE Reboot
    BY <2>1 DEF Reboot
  <2>2. CASE Crash
    <3>1. ~leftover /\ (\A p \in Processes : ~Busy(p)) /\ table' = table
      BY <1>4, <2>2 DEF Crash, kernel
    <3> QED
      BY <1>1, <1>4, <3>1, IdleLeaving
  <2> QED
    BY <2>1, <2>2
<1>5. ASSUME NothingInv, ~leftover', NEW p \in Processes
      PROVE  /\ ~Busy(p)'
             /\ Leaving(p, pc'[p], job'[p], routes'[p], managed', table')
  <2>1. Leaving(p, "idle", NoJob, <<>>, managed', table')
    BY <1>4, <1>5, AnswerLeaving
  <2> QED
    BY <1>2, <2>1 DEF Busy
<1>6. ASSUME NothingInv PROVE NothingInv'
  BY <1>5, <1>6 DEF NothingInv, Leaving, Live, Pending, Rest, Range
<1> QED
  BY <1>3, <1>6

\* applyInterface takes the routes through the tunnels out of the table.
LEMMA WireGuardHolds ==
    ASSUME WireGuardApply
    PROVE  /\ InstalledInv /\ table' = table => InstalledInv'
           /\ NothingInv => NothingInv'
<1>1. /\ UNCHANGED <<managed, pc, job, routes, excused, overlapped, leftover>>
      /\ table' \subseteq table /\ started' = started
  BY DEF WireGuardApply, control, ghost
<1> QED
  BY <1>1, StillHolds

-----------------------------------------------------------------------------
\* Without tunnels the hops of the host are there all the time.
UpInv == TunnelHops = {} => up = Hops

LEMMA UpNext ==
    ASSUME UpInv, [Next]_vars
    PROVE  UpInv'
<1> SUFFICES ASSUME TunnelHops = {} PROVE up' = Hops
  BY DEF UpInv
<1>1. up = Hops
  BY DEF UpInv
<1>2. up' = up \/ up' = Hops \ TunnelHops \/ up' = Hops
  <2>1. CASE StartBoot
    BY <2>1 DEF StartBoot, kernel
  <2>2. ASSUME NEW p \in Processes, Apply(p) \/ ApplyFails(p) PROVE up' = up
    BY <2>2 DEF Apply, ApplyFails, kernel
  <2>3. ASSUME NEW r \in Requests, StartAdd(r) \/ StartUpdate(r) \/ StartDelete(r) PROVE up' = up
    <3>1. \E step, j, s : Begin(r, step, j, s)
      BY <2>3 DEF StartAdd, StartUpdate, StartDelete
    <3> QED
      BY <3>1 DEF Begin, kernel
  <2>4. ASSUME NEW r \in Requests,
               Read(r) \/ Delete(r) \/ DeleteFails(r) \/ Truncate(r) \/ Write(r) \/ SaveFails(r)
        PROVE  up' = up
    BY <2>4 DEF Read, Delete, DeleteFails, Truncate, Write, SaveFails, kernel
  <2>5. CASE Crash \/ Reboot \/ WireGuardApply \/ UNCHANGED vars
    BY <2>5 DEF Crash, Reboot, WireGuardApply, vars, kernel
  <2> QED
    BY <2>1, <2>2, <2>3, <2>4, <2>5, Values DEF Next
<1> QED
  BY <1>1, <1>2

LEMMA HoldsNext ==
    ASSUME RouteInv, RouteInv', [Next]_vars
    PROVE  /\ InstalledInv /\ UpInv /\ TunnelHops = {} => InstalledInv'
           /\ NothingInv => NothingInv'
<1>0. LocalsOK'
  BY DEF RouteInv, TypeInv
<1>1. ASSUME TunnelHops = {}, UpInv PROVE up = Hops
  BY <1>1 DEF UpInv
<1>2. CASE StartBoot
  BY <1>0, <1>2, StartBootHolds
<1>3. CASE Apply(Boot) \/ ApplyFails(Boot)
  BY <1>0, <1>1, <1>3, BootApplyHolds
<1>4. ASSUME NEW r \in Requests,
             \/ StartAdd(r) \/ StartUpdate(r) \/ StartDelete(r)
             \/ Apply(r) \/ Read(r) \/ Delete(r) \/ Truncate(r) \/ Write(r)
             \/ ApplyFails(r) \/ DeleteFails(r) \/ SaveFails(r)
      PROVE  /\ InstalledInv /\ UpInv /\ TunnelHops = {} => InstalledInv'
             /\ NothingInv => NothingInv'
  BY <1>0, <1>1, <1>4, StartHolds, ApplyHolds, ReadHolds, DeleteHolds, SaveHolds
<1>5. CASE Crash \/ Reboot
  BY <1>5, StopHolds
<1>6. CASE WireGuardApply
  <2>1. TunnelHops = {} => table' = table
    BY <1>6 DEF WireGuardApply
  <2> QED
    BY <1>6, <2>1, WireGuardHolds
<1>7. CASE UNCHANGED vars
  <2>1. /\ UNCHANGED <<managed, pc, job, routes, excused, overlapped, leftover>>
        /\ table' = table /\ started' = started
    BY <1>7 DEF vars, control, ghost, kernel
  <2> QED
    BY <2>1, StillHolds
<1> QED
  BY <1>2, <1>3, <1>4, <1>5, <1>6, <1>7 DEF Next

LEMMA HoldsInit == Init => InstalledInv /\ NothingInv /\ UpInv
<1> SUFFICES ASSUME Init PROVE InstalledInv /\ NothingInv /\ UpInv
  OBVIOUS
<1>1. /\ managed = <<>> /\ table = Foreign /\ up = Hops \ TunnelHops /\ ~started
      /\ \A p \in Processes : pc[p] = "idle" /\ job[p] = NoJob /\ routes[p] = <<>>
  BY DEF Init
<1>2. InstalledInv
  BY <1>1 DEF InstalledInv, Busy
<1>3. NothingInv
  <2>1. \A p \in Processes : Leaving(p, "idle", NoJob, <<>>, managed, table)
    BY <1>1, AnswerLeaving
  <2>2. \A p \in Processes : Leaving(p, pc[p], job[p], routes[p], managed, table)
    BY <1>1, <2>1, Zenon
  <2> QED
    BY <1>1, <2>2 DEF NothingInv, Busy
<1>4. UpInv
  BY <1>1 DEF UpInv
<1> QED
  BY <1>2, <1>3, <1>4

\* A managed route is in the routing table whenever the restores are over and no
\* request is in progress, after any number of operations, failed commands and
\* saves, crashes and reboots, but for a route whose operation failed and as long
\* as operations have not overlapped: for users who give a destination one route,
\* and on a host without routes through a tunnel.
THEOREM InstalledCorrect ==
    ASSUME Careful, TunnelHops = {}
    PROVE  Spec => []Installed
<1>1. Init => InstalledInv /\ UpInv
  BY HoldsInit
<1>2. InstalledInv /\ UpInv /\ RouteInv /\ RouteInv' /\ [Next]_vars => InstalledInv' /\ UpInv'
  BY HoldsNext, UpNext
<1>3. InstalledInv /\ RouteInv => Installed
  <2> SUFFICES ASSUME InstalledInv, RouteInv, Quiet, ~overlapped,
                      NEW x \in Range(managed), x.enabled, x.id \in Ids \ excused
               PROVE  x.entry \in table
    BY DEF Installed, EnabledEntries
  <2>1. Held(Range(managed), table, excused)
    BY IdleHolding DEF Quiet
  <2> QED
    BY <2>1 DEF Held
<1>4. Spec => []RouteInv
  BY RouteAlways
<1> QED
  BY <1>1, <1>2, <1>3, <1>4, PTL DEF Spec

\* Nothing is in the routing table but what the host has itself and the enabled
\* managed routes: a route that was deleted, disabled or changed is out of it,
\* and so is one whose addition failed, whenever the restores are over, no
\* request is in progress and, since the last reboot, no operation has been cut
\* short, none has overlapped another, and no delete and no save has failed. It
\* is for users who give a destination one route.
THEOREM NothingLeftCorrect ==
    ASSUME Careful
    PROVE  Spec => []NothingLeft
<1>1. Init => NothingInv
  BY HoldsInit
<1>2. NothingInv /\ RouteInv /\ RouteInv' /\ [Next]_vars => NothingInv'
  BY HoldsNext
<1>3. NothingInv /\ RouteInv => NothingLeft
  <2> SUFFICES ASSUME NothingInv, RouteInv, Quiet, ~leftover, NEW e \in table, e \notin Foreign
               PROVE  e \in EnabledEntries(Ids)
    BY DEF NothingLeft
  <2>1. e \in Live(Range(managed))
    BY IdleLeaving DEF Quiet
  <2>2. \A x \in Range(managed) : x.id \in Ids
    BY ListFacts, Values DEF RouteInv, TypeInv, RestOK
  <2> QED
    BY <2>1, <2>2 DEF Live, EnabledEntries
<1>4. Spec => []RouteInv
  BY RouteAlways
<1> QED
  BY <1>1, <1>2, <1>3, <1>4, PTL DEF Spec
=============================================================================
