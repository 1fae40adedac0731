--------------------------- MODULE TraceListProofs ---------------------------
(***************************************************************************)
(* Theorems about TraceList, for any traces, times and requests, any limit *)
(* and window, and however many spans are stored meanwhile.                *)
(***************************************************************************)
EXTENDS TraceList, Aggregates, SequenceTheorems, TLAPS

(* What the search works with.  A request is served with a limit, and with *)
(* the end of the first query no later than that of the second one.        *)
ListTypes ==
    /\ rows \in SUBSET Rows /\ IsFiniteSet(rows)
    /\ scanned \in SUBSET rows /\ pending \in SUBSET rows
    /\ pc \in {"idle", "scan", "fetch", "summarise", "group", "done", "failed"}
    /\ q \in [api : {"none", "tempo", "jaeger"}, start : Int, end : Int, until : Int, limit : Nat, preview : Nat]
    /\ pc # "idle" => q.api \in {"tempo", "jaeger"} /\ q.limit >= 1 /\ q.end <= q.until
    /\ from \in Int /\ step \in Int /\ ids \in Seq(Traces)
    /\ earliest \in [reads : Int, at : Int]

(* Nothing is listed before the search has ended, and nothing is delivered *)
(* before it was fetched.                                                  *)
WaitInv ==
    /\ pc \in {"idle", "scan"} => ids = <<>>
    /\ pc \in {"idle", "scan", "fetch"} => shown = Nobody
    /\ pc \in {"idle", "scan", "fetch", "done"} => pending = {}
    /\ pc = "summarise" => q.api = "tempo"
    /\ pc = "group" => q.api = "jaeger"

(* Nowhere west of UTC does the earliest time seen read earlier than it is *)
EarliestInv == Zone >= 0 => earliest.at <= earliest.reads

(* From the search on, whatever is stored: the list is the newest one of   *)
(* the spans scanned, and the earliest time seen covers all of it.         *)
InRange == Matching(scanned, q.start, q.end)
TracesOf(stored) == {r.trace : r \in stored}
Newest(stored, list, limit) ==
    /\ Cardinality(ToSet(list)) = Len(list)
    /\ ToSet(list) \subseteq TracesOf(stored)
    /\ Len(list) = Earlier(limit, Cardinality(TracesOf(stored)))
    /\ \A t \in ToSet(list), u \in TracesOf(stored) \ ToSet(list) : LastMatch(stored, t) >= LastMatch(stored, u)
Searched == pc \in {"fetch", "summarise", "group"} \/ (pc = "done" /\ ids # <<>>)
SearchInv ==
    Searched => /\ Newest(InRange, ids, q.limit)
                /\ Zone >= 0 => \A t \in ToSet(ids) : earliest.at <= LastMatch(InRange, t)

(* What the second query finds, and what of it has been delivered.         *)
Fetched == {r \in rows : /\ r.trace \in ToSet(ids)
                         /\ earliest.at - Window <= r.time /\ r.time <= q.until + Window
                         /\ q.api = "tempo" => r.match \/ r.root}
Delivered(t) == {r \in Fetched \ pending : r.trace = t}

GroupInv ==
    pc \in {"group", "done"} /\ q.api = "jaeger" =>
        /\ pending \subseteq Fetched
        /\ shown = [t \in ToSet(ids) |-> Delivered(t)]

(* A summary of the spans D, of which a preview has room for the first n.  *)
Summarises(s, D, n) ==
    /\ s \in [root : BOOLEAN, start : Nat, end : Nat, spans : Seq(Rows)]
    /\ s.start <= s.end
    /\ \E r \in D : r.time = s.start
    /\ \E r \in D : r.time = s.end
    /\ s.root => \E r \in D : r.root /\ s.start <= r.time /\ r.time <= s.end
    /\ (\E r \in D : r.root) => s.root
    /\ ToSet(s.spans) \subseteq D /\ Cardinality(ToSet(s.spans)) = Len(s.spans)
    /\ Len(s.spans) = Earlier(n, Cardinality(D))

SummaryInv ==
    pc \in {"summarise", "done"} /\ q.api = "tempo" =>
        /\ pending \subseteq Fetched
        /\ DOMAIN shown = TracesOf(Fetched \ pending)
        /\ \A t \in DOMAIN shown : Summarises(shown[t], Delivered(t), q.preview)

ListInv == ListTypes /\ WaitInv /\ EarliestInv /\ SearchInv /\ GroupInv /\ SummaryInv

-----------------------------------------------------------------------------
(* Sequences without repetition.                                           *)

LEMMA SizeOfInjective ==
    ASSUME NEW S, NEW s \in Seq(S), \A i, j \in 1..Len(s) : s[i] = s[j] => i = j
    PROVE  Cardinality(ToSet(s)) = Len(s) /\ IsFiniteSet(ToSet(s)) /\ Len(s) \in Nat
<1> DEFINE D == 1..Len(s)
           T == ToSet(s)
<1>1. Len(s) \in Nat /\ DOMAIN s = D /\ s \in [D -> S]
  OBVIOUS
<1>2. T = {s[i] : i \in D}
  BY <1>1 DEF ToSet
<1>3. s \in [D -> T] /\ \A y \in T : \E i \in D : s[i] = y
  BY <1>1, <1>2
<1>4. \A i, j \in D : s[i] = s[j] => i = j
  OBVIOUS
<1>5. IsFiniteSet(D) /\ Cardinality(D) = Len(s)
  BY <1>1, FS_Interval
<1> HIDE DEF T, D
<1>6. s \in Surjection(D, T)
  BY <1>3, Zenon DEF Surjection
<1>7. s \in Injection(D, T)
  BY <1>3, <1>4, Zenon DEF Injection, IsInjective
<1>8. Cardinality(T) = Cardinality(D) /\ IsFiniteSet(T)
  BY <1>5, <1>6, <1>7, FS_Surjection
<1> QED BY <1>1, <1>5, <1>8 DEF T

LEMMA OrderingCoversAll ==
    ASSUME NEW F, IsFiniteSet(F), NEW s \in SetToSeqs(F)
    PROVE  /\ s \in Seq(F) /\ Len(s) = Cardinality(F) /\ Cardinality(F) \in Nat
           /\ \A i, j \in 1..Len(s) : s[i] = s[j] => i = j
           /\ \A t \in F : \E i \in 1..Len(s) : s[i] = t
<1> DEFINE D == 1..Cardinality(F)
<1>1. Cardinality(F) \in Nat
  BY FS_CardinalityType
<1>2. s \in [D -> F] /\ \A i, j \in D : i # j => s[i] # s[j]
  BY DEF SetToSeqs
<1>3. s \in Seq(F) /\ Len(s) = Cardinality(F)
  BY <1>1, <1>2
<1>4. IsFiniteSet(D) /\ Cardinality(D) = Cardinality(F)
  BY <1>1, FS_Interval
<1>5. DOMAIN s = D
  BY <1>2
<1> HIDE DEF D
<1>6. s \in Injection(D, F)
  BY <1>2, <1>5, Zenon DEF Injection, IsInjective
<1>7. s \in Surjection(D, F)
  BY <1>4, <1>6, FS_Injection
<1>8. \A t \in F : \E i \in D : s[i] = t
  BY <1>7, Zenon DEF Surjection
<1> QED BY <1>1, <1>2, <1>3, <1>8 DEF D

-----------------------------------------------------------------------------
(* The query for the newest traces.                                        *)

LEMMA EarlierIs ==
    ASSUME NEW a \in Int, NEW b \in Int
    PROVE  /\ Earlier(a, b) \in {a, b} /\ Earlier(a, b) <= a /\ Earlier(a, b) <= b
BY DEF Earlier

LEMMA TimesOfRows == MaxInt64 \in Nat /\ \A r \in Rows : r.time \in Nat /\ r.time <= MaxInt64
<1>1. MaxInt64 \in Nat /\ \A x \in Times : x \in 0..MaxInt64
  BY ListAssumption
<1>2. \A r \in Rows : r.time \in Times
  BY DEF Rows
<1> QED BY <1>1, <1>2

LEMMA LastMatchIs ==
    ASSUME NEW stored \in SUBSET Rows, NEW t \in TracesOf(stored)
    PROVE  /\ \E r \in stored : r.trace = t /\ r.time = LastMatch(stored, t)
           /\ \A r \in stored : r.trace = t => r.time <= LastMatch(stored, t)
           /\ LastMatch(stored, t) \in Nat
<1> DEFINE T == {r.time : r \in {r \in stored : r.trace = t}}
<1>1. \A r \in Rows : r.time \in Nat /\ r.time <= MaxInt64
  BY TimesOfRows
<1>2. T \in SUBSET Nat /\ T # {} /\ \A y \in T : y <= MaxInt64
  BY <1>1 DEF TracesOf
<1>3. MaxInt64 \in Nat
  BY TimesOfRows
<1>4. LastMatch(stored, t) = Max(T)
  BY DEF LastMatch
<1> HIDE DEF T
<1>5. Max(T) \in T /\ \A y \in T : y <= Max(T)
  BY <1>2, <1>3, MaxIsGreatest
<1> QED BY <1>2, <1>4, <1>5 DEF T

LEMMA TracesFinite ==
    ASSUME NEW stored, IsFiniteSet(stored)
    PROVE  IsFiniteSet(TracesOf(stored)) /\ Cardinality(TracesOf(stored)) \in Nat
<1> DEFINE T == TracesOf(stored)
           f == [r \in stored |-> r.trace]
<1>1. f \in Surjection(stored, T)
  <2>1. f \in [stored -> T] /\ \A t \in T : \E r \in stored : f[r] = t
    BY DEF TracesOf
  <2> QED BY <2>1, Zenon DEF Surjection
<1>2. IsFiniteSet(T)
  BY <1>1, FS_Surjection
<1> QED BY <1>2, FS_CardinalityType

(* A result of the query is a newest list, in every order of traces that   *)
(* have the same time.                                                     *)
LEMMA QueryIsNewest ==
    ASSUME NEW stored \in SUBSET Rows, IsFiniteSet(stored), NEW limit \in Nat, limit >= 1,
           NEW found \in NewestTraces(stored, limit)
    PROVE  found \in Seq(TracesOf(stored)) /\ Newest(stored, found, limit)
<1> DEFINE F == TracesOf(stored)
<1>1. IsFiniteSet(F) /\ Cardinality(F) \in Nat
  BY TracesFinite
<1>2. PICK s \in SetToSeqs(F) : NewestFirst(stored, s) /\ found = SubSeq(s, 1, Earlier(limit, Len(s)))
  BY DEF NewestTraces, TracesOf
<1>3. /\ s \in Seq(F) /\ Len(s) = Cardinality(F)
      /\ \A i, j \in 1..Len(s) : s[i] = s[j] => i = j
      /\ \A t \in F : \E i \in 1..Len(s) : s[i] = t
  BY <1>1, OrderingCoversAll
<1>4. PICK m \in Nat : m = Earlier(limit, Len(s)) /\ m <= Len(s)
  BY <1>1, <1>3 DEF Earlier
<1>5. found \in Seq(F) /\ Len(found) = m /\ \A i \in 1..m : found[i] = s[i]
  BY <1>2, <1>3, <1>4
<1>6. \A i, j \in 1..Len(found) : found[i] = found[j] => i = j
  BY <1>1, <1>3, <1>4, <1>5
<1>7. Cardinality(ToSet(found)) = Len(found)
  BY <1>5, <1>6, SizeOfInjective
<1>8. ToSet(found) = {s[i] : i \in 1..m} /\ ToSet(found) \subseteq F
  <2>1. DOMAIN found = 1..m
    BY <1>5
  <2>2. ToSet(found) = {found[i] : i \in 1..m}
    BY <2>1 DEF ToSet
  <2> QED BY <1>3, <1>4, <1>5, <2>2
<1>9. ASSUME NEW t \in ToSet(found), NEW u \in F \ ToSet(found)
      PROVE  LastMatch(stored, t) >= LastMatch(stored, u)
  <2>1. PICK i \in 1..m : s[i] = t
    BY <1>8
  <2>2. PICK j \in 1..Len(s) : s[j] = u
    BY <1>3
  <2>3. j \notin 1..m
    BY <1>8, <2>2
  <2>4. i \in DOMAIN s /\ j \in DOMAIN s /\ i < j
    BY <1>1, <1>3, <1>4, <2>3
  <2> QED BY <1>2, <2>1, <2>2, <2>4 DEF NewestFirst
<1> QED BY <1>3, <1>4, <1>5, <1>7, <1>8, <1>9 DEF Newest

(* A list that a narrower window fills is the newest list of a wider one.  *)
LEMMA WiderIsNewest ==
    ASSUME NEW stored \in SUBSET Rows, IsFiniteSet(stored), NEW lo \in Int, NEW mid \in Int, NEW hi \in Int,
           lo <= mid, NEW limit \in Nat, limit >= 1,
           NEW list \in Seq(TracesOf(Matching(stored, mid, hi))), Newest(Matching(stored, mid, hi), list, limit),
           Len(list) = limit
    PROVE  /\ Newest(Matching(stored, lo, hi), list, limit)
           /\ \A t \in ToSet(list) : LastMatch(Matching(stored, lo, hi), t) = LastMatch(Matching(stored, mid, hi), t)
<1> DEFINE A == Matching(stored, mid, hi)
           B == Matching(stored, lo, hi)
<1>1. \A r \in stored : r.time \in Int
  BY TimesOfRows
<1>2. A \in SUBSET B /\ B \in SUBSET stored /\ IsFiniteSet(B) /\ IsFiniteSet(A)
  BY <1>1, FS_Subset DEF Matching
<1>3. /\ TracesOf(A) \in SUBSET TracesOf(B)
      /\ IsFiniteSet(TracesOf(A)) /\ Cardinality(TracesOf(A)) \in Nat
      /\ IsFiniteSet(TracesOf(B)) /\ Cardinality(TracesOf(B)) \in Nat
  BY <1>2, TracesFinite DEF TracesOf
<1>4. Cardinality(TracesOf(A)) <= Cardinality(TracesOf(B))
  BY <1>3, FS_Subset
<1>5. \A r \in A : r.time >= mid
  BY DEF Matching
<1>6. \A r \in B : r \in A \/ r.time < mid
  BY <1>1 DEF Matching
<1> HIDE DEF A, B
<1>7. ASSUME NEW t \in TracesOf(A)
      PROVE  LastMatch(B, t) = LastMatch(A, t) /\ LastMatch(A, t) >= mid /\ LastMatch(A, t) \in Nat
  <2>1. A \in SUBSET Rows /\ B \in SUBSET Rows /\ t \in TracesOf(B)
    BY <1>2, <1>3
  <2>2. /\ \E r \in A : r.trace = t /\ r.time = LastMatch(A, t)
        /\ \A r \in A : r.trace = t => r.time <= LastMatch(A, t)
        /\ LastMatch(A, t) \in Nat
    BY <2>1, LastMatchIs
  <2>3. /\ \E r \in B : r.trace = t /\ r.time = LastMatch(B, t)
        /\ \A r \in B : r.trace = t => r.time <= LastMatch(B, t)
        /\ LastMatch(B, t) \in Nat
    BY <2>1, LastMatchIs
  <2>4. PICK a \in A : a.trace = t /\ a.time = LastMatch(A, t)
    BY <2>2
  <2>5. PICK b \in B : b.trace = t /\ b.time = LastMatch(B, t)
    BY <2>3
  <2>6. a.time <= b.time /\ a.time >= mid
    BY <1>2, <1>5, <2>3, <2>4, <2>5
  <2>7. b.time <= a.time
    BY <1>6, <2>2, <2>3, <2>4, <2>5, <2>6
  <2> QED BY <2>2, <2>3, <2>4, <2>5, <2>6, <2>7
<1>8. ASSUME NEW t \in ToSet(list), NEW u \in TracesOf(B) \ ToSet(list)
      PROVE  LastMatch(B, t) >= LastMatch(B, u)
  <2>1. t \in TracesOf(A) /\ LastMatch(B, t) = LastMatch(A, t) /\ LastMatch(A, t) >= mid /\ LastMatch(A, t) \in Nat
    BY <1>7 DEF Newest, A
  <2>2. CASE u \in TracesOf(A)
    <3>1. LastMatch(A, t) >= LastMatch(A, u)
      BY <2>2 DEF Newest, A
    <3> QED BY <1>7, <2>1, <2>2, <3>1
  <2>3. CASE u \notin TracesOf(A)
    <3>1. B \in SUBSET Rows
      BY <1>2
    <3>2. LastMatch(B, u) \in Nat /\ \E r \in B : r.trace = u /\ r.time = LastMatch(B, u)
      BY <3>1, LastMatchIs
    <3>3. PICK r \in B : r.trace = u /\ r.time = LastMatch(B, u)
      BY <3>2
    <3>4. r \notin A
      BY <2>3, <3>3 DEF TracesOf
    <3>5. LastMatch(B, u) < mid
      BY <1>6, <3>3, <3>4
    <3> QED BY <2>1, <3>2, <3>5
  <2> QED BY <2>2, <2>3
<1>9. Len(list) = Earlier(limit, Cardinality(TracesOf(B)))
  <2>1. limit = Earlier(limit, Cardinality(TracesOf(A)))
    BY DEF Newest, A
  <2> QED BY <1>3, <1>4, <2>1 DEF Earlier
<1>10. Cardinality(ToSet(list)) = Len(list) /\ ToSet(list) \subseteq TracesOf(A)
  BY DEF Newest, A
<1>11. Newest(B, list, limit)
  BY <1>3, <1>8, <1>9, <1>10 DEF Newest
<1> QED BY <1>7, <1>10, <1>11 DEF A, B

-----------------------------------------------------------------------------
(* One delivered span.                                                     *)

LEMMA AppendNew ==
    ASSUME NEW S, NEW s \in Seq(S), NEW r \in S, r \notin ToSet(s), Cardinality(ToSet(s)) = Len(s), IsFiniteSet(ToSet(s))
    PROVE  /\ Append(s, r) \in Seq(S) /\ Len(Append(s, r)) = Len(s) + 1
           /\ ToSet(Append(s, r)) = ToSet(s) \cup {r} /\ Cardinality(ToSet(Append(s, r))) = Len(s) + 1
<1> DEFINE a == Append(s, r)
<1>1. /\ a \in Seq(S) /\ Len(a) = Len(s) + 1 /\ Len(s) \in Nat
      /\ DOMAIN a = 1..(Len(s) + 1) /\ DOMAIN s = 1..Len(s)
      /\ a[Len(s) + 1] = r /\ \A i \in 1..Len(s) : a[i] = s[i]
  OBVIOUS
<1> HIDE DEF a
<1>2. ToSet(a) = ToSet(s) \cup {r}
  <2>1. ToSet(a) = {a[i] : i \in 1..(Len(s) + 1)} /\ ToSet(s) = {s[i] : i \in 1..Len(s)}
    BY <1>1 DEF ToSet
  <2>2. 1..(Len(s) + 1) = 1..Len(s) \cup {Len(s) + 1}
    BY <1>1
  <2>3. {a[i] : i \in 1..Len(s) \cup {Len(s) + 1}} = {a[i] : i \in 1..Len(s)} \cup {a[Len(s) + 1]}
    OBVIOUS
  <2>4. {a[i] : i \in 1..Len(s)} = {s[i] : i \in 1..Len(s)}
    BY <1>1
  <2> QED BY <1>1, <2>1, <2>2, <2>3, <2>4
<1>3. Cardinality(ToSet(a)) = Len(s) + 1
  BY <1>2, FS_AddElement
<1> QED BY <1>1, <1>2, <1>3 DEF a

LEMMA SummaryGrows ==
    ASSUME NEW D \in SUBSET Rows, IsFiniteSet(D), NEW r \in Rows, r \notin D, NEW n \in Nat,
           NEW old, IF D = {} THEN old = NoRootYet ELSE Summarises(old, D, n),
           NEW kept,
           LET widened == [old EXCEPT !.start = Earlier(@, r.time), !.end = Later(@, r.time)]
               rooted == IF r.root THEN [widened EXCEPT !.root = TRUE, !.start = r.time, !.end = r.time] ELSE widened
           IN  kept = IF Len(old.spans) < n THEN [rooted EXCEPT !.spans = Append(@, r)] ELSE rooted
    PROVE  Summarises(kept, D \cup {r}, n)
<1> DEFINE E == D \cup {r}
<1>1. /\ r.time \in Nat /\ r.time <= MaxInt64 /\ MaxInt64 \in Nat /\ r.root \in BOOLEAN
      /\ \A d \in D : d.time \in Nat /\ d.time <= MaxInt64 /\ d.root \in BOOLEAN
  <2>1. \A d \in Rows : d.time \in Nat /\ d.time <= MaxInt64 /\ d.root \in BOOLEAN
    BY TimesOfRows DEF Rows
  <2> QED BY <2>1, TimesOfRows
<1>2. /\ old \in [root : BOOLEAN, start : Nat, end : Nat, spans : Seq(Rows)]
      /\ ToSet(old.spans) \subseteq D /\ Cardinality(ToSet(old.spans)) = Len(old.spans)
      /\ Len(old.spans) = Earlier(n, Cardinality(D)) /\ Cardinality(D) \in Nat
  <2>1. Cardinality(D) \in Nat
    BY FS_CardinalityType
  <2>2. CASE D = {}
    <3>1. old = [root |-> FALSE, start |-> MaxInt64, end |-> 0, spans |-> <<>>]
      BY <2>2 DEF NoRootYet
    <3>2. old.spans = <<>> /\ Len(old.spans) = 0 /\ ToSet(old.spans) = {} /\ Cardinality(ToSet(old.spans)) = 0
      <4>1. old.spans = <<>> /\ DOMAIN <<>> = {}
        BY <3>1
      <4>2. ToSet(old.spans) = {}
        BY <4>1 DEF ToSet
      <4> QED BY <4>1, <4>2, FS_EmptySet
    <3>3. old \in [root : BOOLEAN, start : Nat, end : Nat, spans : Seq(Rows)]
      BY <1>1, <3>1
    <3>4. Cardinality(D) = 0
      BY <2>2, FS_EmptySet
    <3> QED BY <3>2, <3>3, <3>4 DEF Earlier
  <2>3. CASE D # {}
    BY <2>1, <2>3 DEF Summarises
  <2> QED BY <2>2, <2>3
<1>3. /\ kept.root = (old.root \/ r.root)
      /\ kept.start = IF r.root THEN r.time ELSE Earlier(old.start, r.time)
      /\ kept.end = IF r.root THEN r.time ELSE Later(old.end, r.time)
      /\ kept.spans = IF Len(old.spans) < n THEN Append(old.spans, r) ELSE old.spans
      /\ kept \in [root : BOOLEAN, start : Nat, end : Nat, spans : Seq(Rows)]
  <2>1. Earlier(old.start, r.time) \in Nat /\ Later(old.end, r.time) \in Nat
    BY <1>1, <1>2 DEF Earlier, Later
  <2>2. Append(old.spans, r) \in Seq(Rows)
    BY <1>2
  <2> QED BY <1>1, <1>2, <2>1, <2>2
<1>4. Cardinality(E) = Cardinality(D) + 1
  BY FS_AddElement
<1>5. /\ ToSet(kept.spans) \subseteq E /\ Cardinality(ToSet(kept.spans)) = Len(kept.spans)
      /\ Len(kept.spans) = Earlier(n, Cardinality(E))
  <2>1. CASE Len(old.spans) < n
    <3>1. r \notin ToSet(old.spans) /\ IsFiniteSet(ToSet(old.spans))
      BY <1>2, FS_Subset
    <3>2. /\ Len(kept.spans) = Len(old.spans) + 1
          /\ ToSet(kept.spans) = ToSet(old.spans) \cup {r} /\ Cardinality(ToSet(kept.spans)) = Len(old.spans) + 1
      <4>1. old.spans \in Seq(Rows)
        BY <1>2
      <4> QED BY <1>2, <1>3, <2>1, <3>1, <4>1, AppendNew
    <3>3. Len(old.spans) = Cardinality(D)
      BY <1>2, <2>1 DEF Earlier
    <3>4. Len(old.spans) + 1 = Earlier(n, Cardinality(E))
      BY <1>2, <1>4, <2>1, <3>3 DEF Earlier
    <3> QED BY <1>2, <3>2, <3>4
  <2>2. CASE ~ (Len(old.spans) < n)
    <3>1. Len(old.spans) = Earlier(n, Cardinality(E))
      BY <1>2, <1>4, <2>2 DEF Earlier
    <3> QED BY <1>2, <1>3, <2>2, <3>1
  <2> QED BY <2>1, <2>2
<1>6. (\E d \in E : d.root) => kept.root
  <2>1. (\E d \in D : d.root) => old.root
    BY DEF Summarises
  <2> QED BY <1>3, <2>1
<1>7. /\ kept.start <= kept.end
      /\ \E d \in E : d.time = kept.start
      /\ \E d \in E : d.time = kept.end
      /\ kept.root => \E d \in E : d.root /\ kept.start <= d.time /\ d.time <= kept.end
  <2>1. CASE r.root
    BY <1>1, <1>3, <2>1
  <2>2. CASE ~ r.root /\ D = {}
    <3>1. kept.start = r.time /\ kept.end = r.time /\ ~ kept.root
      BY <1>1, <1>3, <2>2 DEF NoRootYet, Earlier, Later
    <3> QED BY <1>1, <3>1
  <2>3. CASE ~ r.root /\ D # {}
    <3>1. /\ old.start <= old.end /\ old.start \in Nat /\ old.end \in Nat
          /\ \E d \in D : d.time = old.start
          /\ \E d \in D : d.time = old.end
          /\ old.root => \E d \in D : d.root /\ old.start <= d.time /\ d.time <= old.end
      BY <1>2, <2>3 DEF Summarises
    <3>2. /\ kept.root = old.root /\ kept.start <= old.start /\ old.end <= kept.end
          /\ kept.start \in {old.start, r.time} /\ kept.end \in {old.end, r.time}
          /\ kept.start \in Nat /\ kept.end \in Nat
      BY <1>1, <1>3, <2>3, <3>1 DEF Earlier, Later
    <3>3. kept.root => \E d \in E : d.root /\ kept.start <= d.time /\ d.time <= kept.end
      BY <1>1, <3>1, <3>2
    <3> QED BY <3>1, <3>2, <3>3
  <2> QED BY <2>1, <2>2, <2>3
<1> QED BY <1>3, <1>5, <1>6, <1>7 DEF Summarises

-----------------------------------------------------------------------------
(* The invariant, one lemma for every kind of step.                        *)

LEMMA ListInit == Init => ListInv
<1> SUFFICES ASSUME Init PROVE ListInv
  OBVIOUS
<1>1. ListTypes
  <2>1. Stamp(0, 0) \in [reads : Int, at : Int] /\ <<>> \in Seq(Traces) /\ IsFiniteSet({})
    BY FS_EmptySet DEF Stamp
  <2> QED BY <2>1 DEF Init, ListTypes, NoRequest
<1>2. EarliestInv
  BY DEF Init, EarliestInv, Stamp
<1> QED BY <1>1, <1>2 DEF Init, ListInv, WaitInv, SearchInv, Searched, GroupInv, SummaryInv

(* Steps that only end the request, or end a search that lists nothing.    *)
LEMMA EndKeeps == ListInv /\ (ScanEnds \/ QueryFails \/ NothingListed) => ListInv'
<1> SUFFICES ASSUME ListInv, ScanEnds \/ QueryFails \/ NothingListed PROVE ListInv'
  OBVIOUS
<1>1. /\ UNCHANGED <<rows, q, from, step, ids, earliest, scanned, pending, shown>>
      /\ pc' = "failed" \/ (pc' = "done" /\ ids = <<>>)
      /\ pc \in {"scan", "fetch"} /\ pending = {} /\ shown = Nobody
  BY DEF ScanEnds, QueryFails, NothingListed, ListInv, WaitInv
<1>2. ListTypes'
  BY <1>1 DEF ListInv, ListTypes
<1>3. WaitInv' /\ EarliestInv' /\ SearchInv'
  BY <1>1 DEF ListInv, WaitInv, EarliestInv, SearchInv, Searched
<1>4. ASSUME ids = <<>> PROVE ToSet(ids)' = {} /\ Fetched' = {}
  <2>1. DOMAIN <<>> = {} /\ ids' = <<>>
    BY <1>1, <1>4
  <2>2. ToSet(ids)' = {}
    BY <2>1 DEF ToSet
  <2> QED BY <2>2 DEF Fetched
<1>5. GroupInv'
  <2> SUFFICES ASSUME pc' = "done", q'.api = "jaeger"
               PROVE  pending' \subseteq Fetched' /\ shown' = [t \in ToSet(ids)' |-> Delivered(t)']
    BY <1>1 DEF GroupInv
  <2>1. ids = <<>>
    BY <1>1
  <2> QED BY <1>1, <1>4, <2>1 DEF Nobody
<1>6. SummaryInv'
  <2> SUFFICES ASSUME pc' = "done"
               PROVE  /\ pending' \subseteq Fetched' /\ DOMAIN shown' = TracesOf(Fetched' \ pending')
                      /\ DOMAIN shown' = {}
    BY <1>1 DEF SummaryInv
  <2>1. ids = <<>>
    BY <1>1
  <2> QED BY <1>1, <1>4, <2>1 DEF Nobody, TracesOf
<1> QED BY <1>2, <1>3, <1>5, <1>6 DEF ListInv

LEMMA StoreKeeps == ListInv /\ Store => ListInv'
<1> SUFFICES ASSUME ListInv, Store PROVE ListInv'
  OBVIOUS
<1>1. PICK r \in Rows \ rows : rows' = rows \cup {r}
  BY DEF Store
<1>2. pc \in {"idle", "scan", "fetch"} /\ UNCHANGED <<pc, q, from, step, ids, earliest, scanned, pending, shown>>
  BY DEF Store
<1>3. ListTypes'
  BY <1>1, <1>2, FS_AddElement DEF ListInv, ListTypes
<1>4. SearchInv'
  BY <1>2 DEF ListInv, SearchInv, Searched, InRange
<1> QED BY <1>2, <1>3, <1>4 DEF ListInv, WaitInv, EarliestInv, GroupInv, SummaryInv

LEMMA BeginKeeps ==
    ASSUME ListInv, pc = "idle", NEW api \in {"tempo", "jaeger"}, NEW p \in [start : Int, end : Int, limit : Nat],
           p.limit >= 1, NEW preview \in Nat, Begin(api, p, preview)
    PROVE  ListInv'
<1>1. PICK v \in Int : v = Visible(p.end) /\ v <= p.end
  BY ListAssumption DEF Visible, Earlier
<1>2. /\ q' = [api |-> api, start |-> p.start, end |-> v, until |-> IF api = "jaeger" THEN v ELSE p.end,
               limit |-> p.limit, preview |-> preview]
      /\ pc' = "scan" /\ from' = v - 1 /\ step' = 1 /\ ids' = <<>> /\ earliest' = [reads |-> v + Zone, at |-> v]
      /\ UNCHANGED <<rows, scanned, pending, shown>>
  BY <1>1 DEF Begin, Stamp
<1>3. ListTypes'
  <2>1. Zone \in Int
    BY ListAssumption
  <2>2. q' \in [api : {"none", "tempo", "jaeger"}, start : Int, end : Int, until : Int, limit : Nat, preview : Nat]
    BY <1>2
  <2>3. q'.api \in {"tempo", "jaeger"} /\ q'.limit >= 1 /\ q'.end <= q'.until
    BY <1>1, <1>2
  <2>4. earliest' \in [reads : Int, at : Int] /\ ids' \in Seq(Traces) /\ from' \in Int /\ step' \in Int
    BY <1>2, <2>1
  <2> QED BY <1>2, <2>2, <2>3, <2>4 DEF ListInv, ListTypes
<1>4. EarliestInv'
  BY <1>2, ListAssumption DEF EarliestInv
<1>5. WaitInv' /\ SearchInv' /\ GroupInv' /\ SummaryInv'
  BY <1>2 DEF ListInv, WaitInv, SearchInv, Searched, GroupInv, SummaryInv
<1> QED BY <1>3, <1>4, <1>5 DEF ListInv

LEMMA RequestKeeps == ListInv /\ (SearchTraces \/ GetTraces) => ListInv'
<1> SUFFICES ASSUME ListInv, SearchTraces \/ GetTraces PROVE ListInv'
  OBVIOUS
<1>1. /\ MaxTraces \in Nat \ {0}
      /\ \A p \in Requests : p.start \in Int /\ p.end \in Int /\ p.limit \in Int /\ p.preview \in Nat
  BY ListAssumption
<1>2. CASE SearchTraces
  <2>1. PICK p \in Requests : pc = "idle" /\ Begin("tempo", TempoParams(p), p.preview)
    BY <1>2 DEF SearchTraces
  <2>2. TempoParams(p) \in [start : Int, end : Int, limit : Nat] /\ TempoParams(p).limit >= 1
    BY <1>1 DEF TempoParams, DefaultLimit
  <2> QED BY <1>1, <2>1, <2>2, BeginKeeps
<1>3. CASE GetTraces
  <2>1. PICK p \in Requests : pc = "idle" /\ JaegerAccepts(p) /\ Begin("jaeger", JaegerParams(p), 0)
    BY <1>3 DEF GetTraces
  <2>2. JaegerParams(p) \in [start : Int, end : Int, limit : Nat] /\ JaegerParams(p).limit >= 1
    BY <1>1, <2>1 DEF JaegerParams, JaegerAccepts, DefaultLimit, Earlier
  <2> QED BY <1>1, <2>1, <2>2, BeginKeeps
<1> QED BY <1>2, <1>3

-----------------------------------------------------------------------------
(* The search.                                                             *)

LEMMA SeenIs ==
    ASSUME NEW stored \in SUBSET Rows, NEW found \in Seq(TracesOf(stored)),
           earliest \in [reads : Int, at : Int], EarliestInv
    PROVE  LET e == Seen(found, stored) IN
           /\ e \in [reads : Int, at : Int]
           /\ Zone >= 0 => e.at <= e.reads /\ \A t \in ToSet(found) : e.at <= LastMatch(stored, t)
<1> DEFINE T == LastMatches(found, stored)
           e == Seen(found, stored)
<1>1. ToSet(found) \subseteq TracesOf(stored)
  <2>1. \A i \in DOMAIN found : found[i] \in TracesOf(stored)
    OBVIOUS
  <2> QED BY <2>1 DEF ToSet
<1>2. T \in SUBSET Nat /\ \A t \in ToSet(found) : LastMatch(stored, t) \in T
  BY <1>1, LastMatchIs DEF LastMatches
<1>3. earliest.reads \in Int /\ earliest.at \in Int /\ (Zone >= 0 => earliest.at <= earliest.reads)
  BY DEF EarliestInv
<1>4. e = IF \E last \in T : last < earliest.reads THEN [reads |-> Min(T) + 0, at |-> Min(T)] ELSE earliest
  BY DEF Seen, Stamp
<1> HIDE DEF T, e
<1>5. CASE \E last \in T : last < earliest.reads
  <2>1. Min(T) \in T /\ \A y \in T : Min(T) <= y
    BY <1>2, <1>5, MinIsLeast
  <2>2. PICK m \in Nat : m = Min(T) /\ \A y \in T : m <= y
    BY <1>2, <2>1
  <2>3. e = [reads |-> m + 0, at |-> m]
    BY <1>4, <1>5, <2>2
  <2>4. e \in [reads : Int, at : Int] /\ e.at = m /\ e.reads = m
    BY <2>3
  <2>5. \A t \in ToSet(found) : e.at <= LastMatch(stored, t)
    BY <1>2, <2>2, <2>4
  <2>6. e.at <= e.reads
    BY <2>4
  <2> QED BY <2>4, <2>5, <2>6 DEF e
<1>6. CASE ~ \E last \in T : last < earliest.reads
  <2>1. e = earliest
    BY <1>4, <1>6
  <2>2. ASSUME Zone >= 0, NEW y \in T PROVE earliest.at <= y
    BY <1>2, <1>3, <1>6, <2>2
  <2> QED BY <1>2, <1>3, <2>1, <2>2 DEF e
<1> QED BY <1>5, <1>6

LEMMA MatchingIs ==
    ASSUME ListTypes, NEW lo
    PROVE  /\ Matching(rows, lo, q.end) \in SUBSET Rows /\ Matching(rows, lo, q.end) \in SUBSET rows
           /\ IsFiniteSet(Matching(rows, lo, q.end))
BY FS_Subset DEF ListTypes, Matching

(* The search ends with a list: it was the newest one of what was scanned. *)
LEMMA FoundKeeps ==
    ASSUME ListInv, pc = "scan", NEW mid \in Int, q.start <= mid,
           NEW found \in NewestTraces(Matching(rows, mid, q.end), q.limit),
           mid = q.start \/ Len(found) = q.limit,
           ids' = found, earliest' = Seen(found, Matching(rows, mid, q.end)), scanned' = rows, pc' = "fetch",
           UNCHANGED <<rows, q, from, step, pending, shown>>
    PROVE  ListInv'
<1> DEFINE A == Matching(rows, mid, q.end)
           B == Matching(rows, q.start, q.end)
<1>1. /\ ListTypes /\ rows \in SUBSET Rows /\ IsFiniteSet(rows) /\ q.limit \in Nat /\ q.limit >= 1
      /\ q.start \in Int /\ q.end \in Int /\ earliest \in [reads : Int, at : Int] /\ EarliestInv
  BY DEF ListInv, ListTypes
<1>2. A \in SUBSET Rows /\ IsFiniteSet(A) /\ B \in SUBSET Rows /\ IsFiniteSet(B)
  BY <1>1, MatchingIs
<1>3. found \in Seq(TracesOf(A)) /\ Newest(A, found, q.limit)
  BY <1>1, <1>2, QueryIsNewest
<1>4. Newest(B, found, q.limit) /\ \A t \in ToSet(found) : LastMatch(B, t) = LastMatch(A, t)
  <2>1. CASE mid = q.start
    BY <1>3, <2>1
  <2>2. CASE Len(found) = q.limit
    BY <1>1, <1>3, <2>2, WiderIsNewest
  <2> QED BY <2>1, <2>2
<1>5. /\ earliest' \in [reads : Int, at : Int]
      /\ Zone >= 0 => earliest'.at <= earliest'.reads /\ \A t \in ToSet(found) : earliest'.at <= LastMatch(A, t)
  <2>1. earliest' = Seen(found, A)
    OBVIOUS
  <2> HIDE DEF A
  <2> QED BY <1>1, <1>2, <1>3, <2>1, SeenIs
<1>6. InRange' = B
  BY DEF InRange, Matching
<1>7. SearchInv'
  <2>1. Newest(InRange', ids', q.limit)
    BY <1>4, <1>6
  <2>2. Zone >= 0 => \A t \in ToSet(ids') : earliest'.at <= LastMatch(InRange', t)
    BY <1>4, <1>5, <1>6
  <2>3. ToSet(ids)' = ToSet(ids') /\ q' = q
    BY DEF ToSet
  <2> HIDE DEF B, A
  <2> QED BY <2>1, <2>2, <2>3 DEF SearchInv, Newest, LastMatch, TracesOf, Earlier
<1>8. found \in Seq(Traces)
  <2>1. TracesOf(A) \subseteq Traces
    BY <1>2 DEF TracesOf, Rows
  <2> HIDE DEF A
  <2> QED BY <1>3, <2>1
<1>9. ListTypes'
  BY <1>5, <1>8 DEF ListInv, ListTypes
<1>10. EarliestInv'
  BY <1>5 DEF EarliestInv
<1> QED BY <1>7, <1>9, <1>10 DEF ListInv, WaitInv, GroupInv, SummaryInv

LEMMA TryKeeps == ListInv /\ Try => ListInv'
<1> SUFFICES ASSUME ListInv, Try PROVE ListInv'
  OBVIOUS
<1>1. PICK found \in NewestTraces(Matching(rows, from, q.end), q.limit) :
        /\ earliest' = Seen(found, Matching(rows, from, q.end))
        /\ \/ Len(found) = q.limit /\ ids' = found /\ scanned' = rows /\ pc' = "fetch" /\ UNCHANGED <<from, step>>
           \/ Len(found) # q.limit /\ step' = step * 5 /\ from' = from - step' /\ UNCHANGED <<ids, scanned, pc>>
  BY Zenon DEF Try
<1>2. pc = "scan" /\ from > q.start /\ UNCHANGED <<rows, q, pending, shown>>
  BY DEF Try
<1>3. /\ ListTypes /\ rows \in SUBSET Rows /\ IsFiniteSet(rows) /\ q.limit \in Nat /\ q.limit >= 1
      /\ from \in Int /\ step \in Int /\ q.start \in Int /\ earliest \in [reads : Int, at : Int] /\ EarliestInv
  BY <1>2 DEF ListInv, ListTypes
<1>4. CASE Len(found) = q.limit
  <2>1. ids' = found /\ scanned' = rows /\ pc' = "fetch" /\ UNCHANGED <<from, step>>
    BY <1>1, <1>4
  <2>2. q.start <= from
    BY <1>2, <1>3
  <2> QED BY <1>1, <1>2, <1>3, <1>4, <2>1, <2>2, FoundKeeps
<1>5. CASE Len(found) # q.limit
  <2>1. step' = step * 5 /\ from' = from - step' /\ UNCHANGED <<ids, scanned, pc>>
    BY <1>1, <1>5
  <2>2. step' \in Int /\ from' \in Int
    BY <1>3, <2>1
  <2> DEFINE A == Matching(rows, from, q.end)
  <2>3. A \in SUBSET Rows /\ IsFiniteSet(A)
    BY <1>3, MatchingIs
  <2>4. found \in Seq(TracesOf(A))
    BY <1>1, <1>3, <2>3, QueryIsNewest
  <2>5. earliest' \in [reads : Int, at : Int] /\ (Zone >= 0 => earliest'.at <= earliest'.reads)
    <3>1. earliest' = Seen(found, A)
      BY <1>1
    <3> HIDE DEF A
    <3> QED BY <1>3, <2>3, <2>4, <3>1, SeenIs
  <2>6. ListTypes'
    BY <1>2, <2>1, <2>2, <2>5 DEF ListInv, ListTypes
  <2>7. EarliestInv'
    BY <2>5 DEF EarliestInv
  <2> QED BY <1>2, <2>1, <2>6, <2>7 DEF ListInv, WaitInv, SearchInv, Searched, GroupInv, SummaryInv
<1> QED BY <1>4, <1>5

LEMMA LastTryKeeps == ListInv /\ LastTry => ListInv'
<1> SUFFICES ASSUME ListInv, LastTry PROVE ListInv'
  OBVIOUS
<1>1. PICK found \in NewestTraces(Matching(rows, q.start, q.end), q.limit) :
        ids' = found /\ earliest' = Seen(found, Matching(rows, q.start, q.end))
  BY Zenon DEF LastTry
<1>2. pc = "scan" /\ scanned' = rows /\ pc' = "fetch" /\ UNCHANGED <<rows, q, from, step, pending, shown>>
  BY DEF LastTry
<1>3. q.start \in Int /\ q.start <= q.start
  BY DEF ListInv, ListTypes
<1> QED BY <1>1, <1>2, <1>3, FoundKeeps

-----------------------------------------------------------------------------
(* The second query and what is made of it.                                *)

LEMMA FetchKeeps == ListInv /\ Fetch => ListInv'
<1> SUFFICES ASSUME ListInv, Fetch PROVE ListInv'
  OBVIOUS
<1>1. /\ pc = "fetch" /\ UNCHANGED <<rows, q, from, step, ids, earliest, scanned>>
      /\ pending' = Fetched
      /\ pc' = IF q.api = "tempo" THEN "summarise" ELSE "group"
      /\ shown' = IF q.api = "tempo" THEN Nobody ELSE [t \in ToSet(ids) |-> {}]
  BY DEF Fetch, Fetched
<1>2. Fetched' = Fetched /\ Fetched \subseteq rows
  BY <1>1 DEF Fetched, ToSet
<1>3. ListTypes'
  BY <1>1, <1>2 DEF ListInv, ListTypes
<1>4. SearchInv'
  BY <1>1 DEF ListInv, SearchInv, Searched, InRange
<1>5. WaitInv' /\ EarliestInv'
  BY <1>1 DEF ListInv, ListTypes, WaitInv, EarliestInv
<1>6. GroupInv'
  <2> SUFFICES ASSUME pc' = "group", q.api = "jaeger"
               PROVE  pending' \subseteq Fetched' /\ shown' = [t \in ToSet(ids)' |-> Delivered(t)']
    BY <1>1 DEF GroupInv
  <2>1. \A t : Delivered(t)' = {}
    BY <1>1, <1>2 DEF Delivered
  <2>2. ToSet(ids)' = ToSet(ids)
    BY <1>1 DEF ToSet
  <2> QED BY <1>1, <1>2, <2>1, <2>2
<1>7. SummaryInv'
  <2> SUFFICES ASSUME q.api = "tempo"
               PROVE  pending' \subseteq Fetched' /\ DOMAIN shown' = TracesOf(Fetched' \ pending') /\ DOMAIN shown' = {}
    BY <1>1 DEF SummaryInv
  <2> QED BY <1>1, <1>2 DEF Nobody, TracesOf
<1> QED BY <1>3, <1>4, <1>5, <1>6, <1>7 DEF ListInv

LEMMA DeliveredGrows ==
    ASSUME ListTypes, pending \subseteq Fetched, NEW r \in pending, pending' = pending \ {r},
           UNCHANGED <<rows, q, ids, earliest>>
    PROVE  /\ Fetched' = Fetched /\ r \in Rows /\ pending' \subseteq Fetched
           /\ Fetched' \ pending' = (Fetched \ pending) \cup {r} /\ r \notin Fetched \ pending
           /\ \A t : Delivered(t)' = IF t = r.trace THEN Delivered(t) \cup {r} ELSE Delivered(t)
           /\ \A t : Delivered(t) \in SUBSET Rows /\ IsFiniteSet(Delivered(t))
<1>1. Fetched' = Fetched /\ Fetched \in SUBSET rows
  BY DEF Fetched, ToSet
<1>2. r \in Rows /\ pending' \subseteq Fetched
  BY <1>1 DEF ListTypes
<1>3. Fetched' \ pending' = (Fetched \ pending) \cup {r} /\ r \notin Fetched \ pending
  BY <1>1
<1>4. \A t : Delivered(t)' = IF t = r.trace THEN Delivered(t) \cup {r} ELSE Delivered(t)
  BY <1>3 DEF Delivered
<1>5. \A t : Delivered(t) \in SUBSET rows
  BY <1>1 DEF Delivered
<1>6. \A t : Delivered(t) \in SUBSET Rows /\ IsFiniteSet(Delivered(t))
  BY <1>5, FS_Subset DEF ListTypes
<1> QED BY <1>1, <1>2, <1>3, <1>4, <1>6

LEMMA SummariseKeeps == ListInv /\ Summarise => ListInv'
<1> SUFFICES ASSUME ListInv, Summarise PROVE ListInv'
  OBVIOUS
<1>1. PICK r \in pending :
        LET old == IF r.trace \in DOMAIN shown THEN shown[r.trace] ELSE NoRootYet
            widened == [old EXCEPT !.start = Earlier(@, r.time), !.end = Later(@, r.time)]
            rooted == IF r.root THEN [widened EXCEPT !.root = TRUE, !.start = r.time, !.end = r.time] ELSE widened
            kept == IF Len(old.spans) < q.preview THEN [rooted EXCEPT !.spans = Append(@, r)] ELSE rooted IN
        /\ pending' = pending \ {r}
        /\ shown' = [t \in DOMAIN shown \cup {r.trace} |-> IF t = r.trace THEN kept ELSE shown[t]]
  BY Zenon DEF Summarise
<1>2. pc = "summarise" /\ UNCHANGED <<rows, pc, q, from, step, ids, earliest, scanned>>
  BY DEF Summarise
<1>3. /\ ListTypes /\ q.api = "tempo" /\ q.preview \in Nat
      /\ pending \subseteq Fetched
      /\ DOMAIN shown = TracesOf(Fetched \ pending)
      /\ \A t \in DOMAIN shown : Summarises(shown[t], Delivered(t), q.preview)
  BY <1>2 DEF ListInv, ListTypes, WaitInv, SummaryInv
<1>4. pending' = pending \ {r}
  BY <1>1, Zenon
<1>5. /\ Fetched' = Fetched /\ r \in Rows /\ pending' \subseteq Fetched
      /\ Fetched' \ pending' = (Fetched \ pending) \cup {r} /\ r \notin Fetched \ pending
      /\ \A t : Delivered(t)' = IF t = r.trace THEN Delivered(t) \cup {r} ELSE Delivered(t)
      /\ \A t : Delivered(t) \in SUBSET Rows /\ IsFiniteSet(Delivered(t))
  <2>1. UNCHANGED <<rows, q, ids, earliest>>
    BY <1>2
  <2> QED BY <1>3, <1>4, <2>1, DeliveredGrows
<1> DEFINE old == IF r.trace \in DOMAIN shown THEN shown[r.trace] ELSE NoRootYet
           widened == [old EXCEPT !.start = Earlier(@, r.time), !.end = Later(@, r.time)]
           rooted == IF r.root THEN [widened EXCEPT !.root = TRUE, !.start = r.time, !.end = r.time] ELSE widened
           kept == IF Len(old.spans) < q.preview THEN [rooted EXCEPT !.spans = Append(@, r)] ELSE rooted
           D == Delivered(r.trace)
<1>6. shown' = [t \in DOMAIN shown \cup {r.trace} |-> IF t = r.trace THEN kept ELSE shown[t]]
  BY <1>1, Zenon
<1>7. IF D = {} THEN old = NoRootYet ELSE Summarises(old, D, q.preview)
  <2>1. r.trace \in DOMAIN shown <=> D # {}
    BY <1>3 DEF TracesOf, Delivered
  <2> QED BY <1>3, <2>1
<1>8. r \notin D /\ D \in SUBSET Rows /\ IsFiniteSet(D)
  BY <1>5 DEF Delivered
<1>9. PICK new : new = kept
  OBVIOUS
<1>10. Summarises(new, D \cup {r}, q.preview)
  <2>1. PICK o, E, n : o = old /\ E = D /\ n = q.preview
    OBVIOUS
  <2>2. LET wide == [o EXCEPT !.start = Earlier(@, r.time), !.end = Later(@, r.time)]
            root == IF r.root THEN [wide EXCEPT !.root = TRUE, !.start = r.time, !.end = r.time] ELSE wide
        IN  new = IF Len(o.spans) < n THEN [root EXCEPT !.spans = Append(@, r)] ELSE root
    BY <1>9, <2>1, Zenon
  <2>3. IF E = {} THEN o = NoRootYet ELSE Summarises(o, E, n)
    BY <1>7, <2>1, Zenon
  <2>4. r \notin E /\ E \in SUBSET Rows /\ IsFiniteSet(E) /\ r \in Rows /\ n \in Nat
    BY <1>3, <1>5, <1>8, <2>1
  <2>5. Summarises(new, E \cup {r}, n)
    BY <2>2, <2>3, <2>4, SummaryGrows
  <2> QED BY <2>1, <2>5
<1>11. /\ DOMAIN shown' = DOMAIN shown \cup {r.trace} /\ shown'[r.trace] = new
       /\ \A t \in DOMAIN shown \ {r.trace} : shown'[t] = shown[t]
  <2> HIDE DEF kept
  <2> QED BY <1>6, <1>9
<1> HIDE DEF old, widened, rooted, kept
<1>12. SummaryInv'
  <2>1. DOMAIN shown' = TracesOf(Fetched' \ pending')
    BY <1>3, <1>5, <1>11 DEF TracesOf
  <2>2. ASSUME NEW t \in DOMAIN shown' PROVE Summarises(shown'[t], Delivered(t)', q.preview)
    <3>1. CASE t = r.trace
      BY <1>5, <1>10, <1>11, <3>1
    <3>2. CASE t # r.trace
      <4>1. t \in DOMAIN shown /\ shown'[t] = shown[t] /\ Delivered(t)' = Delivered(t)
        BY <1>5, <1>11, <3>2
      <4> QED BY <1>3, <4>1
    <3> QED BY <3>1, <3>2
  <2>3. \A t \in DOMAIN shown' : Summarises(shown'[t], Delivered(t)', q.preview')
    BY <1>2, <2>2
  <2>4. \A t \in DOMAIN shown' : Summarises(shown[t], Delivered(t), q.preview)'
    BY <2>3 DEF Summarises, ToSet, Earlier
  <2> QED BY <1>5, <2>1, <2>4 DEF SummaryInv, TracesOf
<1>13. ListTypes'
  BY <1>2, <1>4 DEF ListInv, ListTypes
<1>14. SearchInv'
  BY <1>2 DEF ListInv, SearchInv, Searched, InRange
<1>15. WaitInv' /\ EarliestInv' /\ GroupInv'
  BY <1>2 DEF ListInv, WaitInv, EarliestInv, GroupInv
<1> QED BY <1>12, <1>13, <1>14, <1>15 DEF ListInv

LEMMA GroupKeeps == ListInv /\ GroupSpan => ListInv'
<1> SUFFICES ASSUME ListInv, GroupSpan PROVE ListInv'
  OBVIOUS
<1>1. PICK r \in pending : pending' = pending \ {r} /\ shown' = [shown EXCEPT ![r.trace] = @ \cup {r}]
  BY DEF GroupSpan
<1>2. pc = "group" /\ UNCHANGED <<rows, pc, q, from, step, ids, earliest, scanned>>
  BY DEF GroupSpan
<1>3. ListTypes /\ q.api = "jaeger" /\ pending \subseteq Fetched /\ shown = [t \in ToSet(ids) |-> Delivered(t)]
  BY <1>2 DEF ListInv, WaitInv, GroupInv
<1>4. /\ Fetched' = Fetched /\ r \in Rows /\ pending' \subseteq Fetched
      /\ \A t : Delivered(t)' = IF t = r.trace THEN Delivered(t) \cup {r} ELSE Delivered(t)
  <2>1. UNCHANGED <<rows, q, ids, earliest>>
    BY <1>2
  <2> QED BY <1>1, <1>3, <2>1, DeliveredGrows
<1>5. r.trace \in ToSet(ids) /\ ToSet(ids)' = ToSet(ids)
  BY <1>2, <1>3 DEF Fetched, ToSet
<1>6. shown' = [t \in ToSet(ids) |-> IF t = r.trace THEN Delivered(t) \cup {r} ELSE Delivered(t)]
  BY <1>1, <1>3, <1>5
<1>7. GroupInv'
  <2>1. shown' = [t \in ToSet(ids)' |-> Delivered(t)']
    BY <1>4, <1>5, <1>6
  <2> QED BY <1>4, <2>1 DEF GroupInv
<1>8. ListTypes'
  BY <1>1, <1>2 DEF ListInv, ListTypes
<1>9. SearchInv'
  BY <1>2 DEF ListInv, SearchInv, Searched, InRange
<1>10. WaitInv' /\ EarliestInv' /\ SummaryInv'
  BY <1>2 DEF ListInv, WaitInv, EarliestInv, SummaryInv
<1> QED BY <1>7, <1>8, <1>9, <1>10 DEF ListInv

LEMMA WriteKeeps == ListInv /\ WriteResponse => ListInv'
<1> SUFFICES ASSUME ListInv, WriteResponse PROVE ListInv'
  OBVIOUS
<1>1. /\ pc \in {"summarise", "group"} /\ pending = {} /\ pc' = "done"
      /\ UNCHANGED <<rows, q, from, step, ids, earliest, scanned, pending, shown>>
  BY DEF WriteResponse
<1>2. pc = IF q.api = "tempo" THEN "summarise" ELSE "group"
  BY <1>1 DEF ListInv, WaitInv
<1>3. Fetched' = Fetched /\ \A t : Delivered(t)' = Delivered(t)
  BY <1>1 DEF Fetched, Delivered, ToSet
<1>4. GroupInv'
  <2>1. ToSet(ids)' = ToSet(ids)
    BY <1>1 DEF ToSet
  <2> QED BY <1>1, <1>2, <1>3, <2>1 DEF ListInv, GroupInv
<1>5. SummaryInv'
  <2> SUFFICES ASSUME q.api = "tempo"
               PROVE  /\ pending' \subseteq Fetched' /\ DOMAIN shown' = TracesOf(Fetched' \ pending')
                      /\ \A t \in DOMAIN shown' : Summarises(shown[t], Delivered(t), q.preview)'
    BY <1>1 DEF SummaryInv, TracesOf
  <2>1. /\ pending \subseteq Fetched /\ DOMAIN shown = TracesOf(Fetched \ pending)
        /\ \A t \in DOMAIN shown : Summarises(shown[t], Delivered(t), q.preview)
    BY <1>1, <1>2 DEF ListInv, SummaryInv
  <2>2. \A t \in DOMAIN shown : Summarises(shown'[t], Delivered(t)', q'.preview)
    BY <1>1, <1>3, <2>1
  <2>3. \A t \in DOMAIN shown' : Summarises(shown[t], Delivered(t), q.preview)'
    BY <1>1, <2>2 DEF Summarises, ToSet, Earlier
  <2> QED BY <1>1, <1>3, <2>1, <2>3
<1>6. ListTypes'
  BY <1>1 DEF ListInv, ListTypes
<1>7. SearchInv'
  BY <1>1 DEF ListInv, SearchInv, Searched, InRange
<1>8. WaitInv' /\ EarliestInv'
  BY <1>1 DEF ListInv, WaitInv, EarliestInv
<1> QED BY <1>4, <1>5, <1>6, <1>7, <1>8 DEF ListInv

LEMMA ListStep == ListInv /\ [Next]_vars => ListInv'
<1> SUFFICES ASSUME ListInv, [Next]_vars PROVE ListInv'
  OBVIOUS
<1>1. CASE UNCHANGED vars
  <2>1. /\ Fetched' = Fetched /\ \A t : Delivered(t)' = Delivered(t)
        /\ UNCHANGED <<rows, pc, q, from, step, ids, earliest, scanned, pending, shown>>
    BY <1>1 DEF vars, Fetched, Delivered, ToSet
  <2>2. GroupInv'
    <3>1. ToSet(ids)' = ToSet(ids)
      BY <2>1 DEF ToSet
    <3> QED BY <2>1, <3>1 DEF ListInv, GroupInv
  <2> QED BY <1>1 DEF vars, ListInv, ListTypes, WaitInv, EarliestInv, SearchInv, Searched, InRange,
                     GroupInv, SummaryInv, Delivered, Fetched
<1>2. CASE Next
  BY <1>2, StoreKeeps, RequestKeeps, TryKeeps, LastTryKeeps, EndKeeps, FetchKeeps, SummariseKeeps, GroupKeeps, WriteKeeps
     DEF Next
<1> QED BY <1>1, <1>2

-----------------------------------------------------------------------------
(* What a search works with, and what it has delivered, is as described    *)
(* above, at every moment.                                                 *)
THEOREM ListInvariant == Spec => []ListInv
<1> QED BY ListInit, ListStep, PTL DEF Spec

LEMMA NewestShows ==
    ASSUME NEW stored \in SUBSET Rows, IsFiniteSet(stored), NEW limit \in Nat, NEW list, Newest(stored, list, limit)
    PROVE  LET listed == ToSet(list)
               others == TracesOf(stored) \ listed IN
           /\ Cardinality(listed) = Len(list) /\ listed \subseteq TracesOf(stored)
           /\ Len(list) = Earlier(limit, Cardinality(listed) + Cardinality(others))
           /\ \A t \in listed, u \in others : LastMatch(stored, t) >= LastMatch(stored, u)
<1> DEFINE F == TracesOf(stored)
           L == ToSet(list)
<1>1. IsFiniteSet(F) /\ Cardinality(F) \in Nat
  BY TracesFinite
<1>2. Cardinality(L) = Len(list) /\ L \in SUBSET F /\ Len(list) = Earlier(limit, Cardinality(F))
  BY DEF Newest
<1>3. IsFiniteSet(L) /\ Cardinality(L) \in Nat /\ F \cap L = L
  BY <1>1, <1>2, FS_Subset, FS_CardinalityType
<1>4. Cardinality(F \ L) = Cardinality(F) - Cardinality(L)
  BY <1>1, <1>3, FS_Difference
<1>5. Cardinality(L) + Cardinality(F \ L) = Cardinality(F)
  BY <1>1, <1>3, <1>4
<1> QED BY <1>2, <1>5 DEF Newest

(* The list is the one that a single search of the whole range would give, *)
(* whatever is stored between the windows, for any limit, and in whatever  *)
(* order the storage gives traces of the same time                         *)
(* (findTraceIDsSplitTimeRange).                                           *)
THEOREM ListedAreNewest == Spec => []ListIsNewest
<1>1. ListInv => ListIsNewest
  <2> SUFFICES ASSUME ListInv, pc = "fetch"
               PROVE  LET listed == ToSet(ids)
                          others == TracesOf(InRange) \ listed IN
                      /\ Cardinality(listed) = Len(ids) /\ listed \subseteq TracesOf(InRange)
                      /\ Len(ids) = Earlier(q.limit, Cardinality(listed) + Cardinality(others))
                      /\ \A t \in listed, u \in others : LastMatch(InRange, t) >= LastMatch(InRange, u)
    BY DEF ListIsNewest, InRange, TracesOf
  <2>1. Newest(InRange, ids, q.limit) /\ q.limit \in Nat
    BY DEF ListInv, ListTypes, SearchInv, Searched
  <2>2. InRange \in SUBSET Rows /\ IsFiniteSet(InRange)
    <3>1. InRange \in SUBSET rows
      BY DEF ListInv, ListTypes, InRange, Matching
    <3> QED BY <3>1, FS_Subset DEF ListInv, ListTypes
  <2> QED BY <2>1, <2>2, NewestShows
<1> QED BY <1>1, ListInvariant, PTL

(* A summary holds what was delivered of its trace and nothing else, in    *)
(* whatever order it was delivered, also for spans dated in the future     *)
(* (summarySearchTracesResult).                                            *)
THEOREM SummariesShowRoots == Spec => []SummaryShowsRoot
<1>1. ListInv => SummaryShowsRoot
  <2> SUFFICES ASSUME ListInv, pc \in {"summarise", "done"}, q.api = "tempo", NEW t \in DOMAIN shown
               PROVE  LET delivered == {r \in rows \ pending : r.trace = t} s == shown[t] IN
                      /\ t \in ToSet(ids) /\ s.start <= s.end
                      /\ {s.start, s.end} \subseteq {r.time : r \in delivered}
                      /\ s.root => \E r \in delivered : r.root /\ s.start <= r.time /\ r.time <= s.end
                      /\ pc = "done" => (s.root = \E r \in delivered : r.root /\ earliest.at - Window <= r.time
                                                                                /\ r.time <= q.until + Window)
                      /\ ToSet(s.spans) \subseteq delivered /\ Cardinality(ToSet(s.spans)) = Len(s.spans)
                      /\ Len(s.spans) <= q.preview
    BY DEF SummaryShowsRoot
  <2> DEFINE delivered == {r \in rows \ pending : r.trace = t}
             s == shown[t]
             D == Delivered(t)
  <2>1. /\ pending \subseteq Fetched /\ t \in TracesOf(Fetched \ pending) /\ Summarises(s, D, q.preview)
        /\ (pc = "done" => pending = {}) /\ D \in SUBSET rows /\ IsFiniteSet(D) /\ q.preview \in Nat
    <3>1. /\ pending \subseteq Fetched /\ t \in TracesOf(Fetched \ pending) /\ Summarises(s, D, q.preview)
          /\ (pc = "done" => pending = {}) /\ q.preview \in Nat /\ IsFiniteSet(rows)
      BY DEF ListInv, ListTypes, WaitInv, SummaryInv
    <3>2. D \in SUBSET rows
      BY DEF Delivered, Fetched
    <3> QED BY <3>1, <3>2, FS_Subset
  <2>2. t \in ToSet(ids)
    BY <2>1 DEF TracesOf, Fetched
  <2>3. D \subseteq delivered
    BY DEF Delivered, Fetched
  <2>4. \A r \in delivered : r.root /\ earliest.at - Window <= r.time /\ r.time <= q.until + Window => r \in D
    BY <2>2 DEF Delivered, Fetched
  <2>5. \A r \in D : earliest.at - Window <= r.time /\ r.time <= q.until + Window
    BY DEF Delivered, Fetched
  <2>6. Len(s.spans) <= q.preview
    <3>1. Cardinality(D) \in Nat
      BY <2>1, FS_CardinalityType
    <3> QED BY <2>1, <3>1, EarlierIs DEF Summarises
  <2>7. /\ s.start <= s.end /\ ToSet(s.spans) \subseteq D /\ Cardinality(ToSet(s.spans)) = Len(s.spans)
        /\ (\E r \in D : r.time = s.start) /\ (\E r \in D : r.time = s.end)
        /\ s.root => \E r \in D : r.root /\ s.start <= r.time /\ r.time <= s.end
        /\ s.root \in BOOLEAN /\ ((\E r \in D : r.root) <=> s.root)
    BY <2>1 DEF Summarises
  <2> HIDE DEF D, s, delivered
  <2>8. {s.start, s.end} \subseteq {r.time : r \in delivered}
    BY <2>3, <2>7
  <2>9. s.root => \E r \in delivered : r.root /\ s.start <= r.time /\ r.time <= s.end
    BY <2>3, <2>7
  <2>10. s.root <=> \E r \in delivered : r.root /\ earliest.at - Window <= r.time /\ r.time <= q.until + Window
    BY <2>3, <2>4, <2>5, <2>7
  <2>11. s.root = \E r \in delivered : r.root /\ earliest.at - Window <= r.time /\ r.time <= q.until + Window
    BY <2>7, <2>10
  <2> QED BY <2>2, <2>3, <2>6, <2>7, <2>8, <2>9, <2>11, Zenon DEF s, delivered
<1> QED BY <1>1, ListInvariant, PTL

(* Where local time is not west of UTC, no span that was stored near the   *)
(* matches of a listed trace is missing from the answer (GetTraceList).    *)
THEOREM NearbySpansAreShown ==
    ASSUME Zone >= 0
    PROVE  Spec => []NearbySpansShown
<1>1. ListInv => NearbySpansShown
  <2> SUFFICES ASSUME ListInv, pc = "done", ids # <<>>, NEW t \in ToSet(ids)
               PROVE  LET Near == {r \in scanned : r.trace = t /\ LastMatch(InRange, t) - Window <= r.time
                                                               /\ r.time <= LastMatch(InRange, t) + Window} IN
                      IF q.api = "jaeger" THEN Near \subseteq shown[t]
                      ELSE /\ t \in DOMAIN shown
                           /\ Len(shown[t].spans) >= Earlier(q.preview, Cardinality({r \in Near : r.match \/ r.root}))
    BY Zenon DEF NearbySpansShown, InRange
  <2> DEFINE last == LastMatch(InRange, t)
             Near == {r \in scanned : r.trace = t /\ last - Window <= r.time /\ r.time <= last + Window}
             W == {r \in Near : r.match \/ r.root}
             D == Delivered(t)
  <2>1. /\ rows \in SUBSET Rows /\ IsFiniteSet(rows) /\ scanned \in SUBSET rows /\ pending = {}
        /\ q.end \in Int /\ q.until \in Int /\ q.end <= q.until /\ q.api \in {"tempo", "jaeger"} /\ q.preview \in Nat
        /\ earliest.at \in Int /\ Window \in Nat
    BY ListAssumption DEF ListInv, ListTypes, WaitInv
  <2>2. Newest(InRange, ids, q.limit) /\ earliest.at <= last
    BY DEF ListInv, SearchInv, Searched
  <2>3. InRange \in SUBSET Rows /\ InRange \in SUBSET scanned /\ t \in TracesOf(InRange)
    BY <2>1, <2>2 DEF InRange, Matching, Newest
  <2>4. PICK m \in InRange : m.trace = t /\ m.time = last /\ last \in Nat
    BY <2>3, LastMatchIs
  <2>5. m.match /\ m.time <= q.end
    BY DEF InRange, Matching
  <2>6. \A r \in rows : r.time \in Nat
    BY <2>1, TimesOfRows
  <2>7. \A r \in Near : /\ r \in rows /\ r.trace = t
                        /\ earliest.at - Window <= r.time /\ r.time <= q.until + Window
    BY <2>1, <2>2, <2>4, <2>5, <2>6
  <2>8. \A r \in Near : q.api = "jaeger" \/ r.match \/ r.root => r \in D
    BY <2>1, <2>7 DEF Delivered, Fetched
  <2>9. m \in W
    BY <2>1, <2>3, <2>4, <2>5
  <2>10. CASE q.api = "jaeger"
    <3>1. shown = [u \in ToSet(ids) |-> Delivered(u)]
      BY <2>10 DEF ListInv, GroupInv
    <3>2. shown[t] = D
      BY <3>1
    <3> QED BY <2>8, <2>10, <3>2
  <2>11. CASE q.api = "tempo"
    <3>1. DOMAIN shown = TracesOf(Fetched \ pending) /\ \A u \in DOMAIN shown : Summarises(shown[u], Delivered(u), q.preview)
      BY <2>11 DEF ListInv, SummaryInv
    <3>2. W \subseteq D /\ t \in DOMAIN shown
      <4>1. W \subseteq D
        BY <2>8
      <4>2. m \in Fetched \ pending /\ m.trace = t
        BY <2>4, <2>9, <4>1 DEF Delivered
      <4> QED BY <3>1, <4>1, <4>2 DEF TracesOf
    <3>3. IsFiniteSet(D) /\ IsFiniteSet(W) /\ Cardinality(W) <= Cardinality(D) /\ Cardinality(W) \in Nat /\ Cardinality(D) \in Nat
      <4>1. D \in SUBSET rows /\ W \in SUBSET D
        BY <3>2 DEF Delivered, Fetched
      <4> HIDE DEF D, W
      <4> QED BY <2>1, <4>1, FS_Subset, FS_CardinalityType
    <3>4. Len(shown[t].spans) = Earlier(q.preview, Cardinality(D))
      BY <3>1, <3>2 DEF Summarises
    <3> HIDE DEF D, W
    <3>5. Earlier(q.preview, Cardinality(D)) >= Earlier(q.preview, Cardinality(W))
      BY <2>1, <3>3 DEF Earlier
    <3> QED BY <2>11, <3>2, <3>4, <3>5 DEF W
  <2> QED BY <2>1, <2>10, <2>11
<1> QED BY <1>1, ListInvariant, PTL
=============================================================================
