---------------------------- MODULE SearchProofs ----------------------------
(***************************************************************************)
(* Theorems about the two searches that walk back through time: the lookup *)
(* of a trace by its ID (TraceLookup), for every step, retention, clock    *)
(* and window of a request, and any number of spans; and the newest rows   *)
(* of a query (LastN), for any rows at any times, any limit and any time   *)
(* filter.  The two share no state; data comes in all the while.           *)
(***************************************************************************)
EXTENDS TraceLookup, LastN, Aggregates, TLAPS

-----------------------------------------------------------------------------
(* TraceLookup: what holds in every state.                                 *)

LatestEnd == MaxNow + Skew
Moments == 1..LatestEnd
IndexRow == [key : Keys, start : Moments, end : Moments]
SpanRange == [start : Moments, end : Moments]

IngestTypeOK ==
    /\ DOMAIN live \subseteq Keys
    /\ live \in [DOMAIN live -> SpanRange]
    /\ index \subseteq IndexRow
    /\ spans \subseteq SpanRange
    /\ now \in Nat /\ FirstNow <= now

QueryTypeOK ==
    /\ pc \in {"idle", "scan", "fetch", "done"}
    /\ asked \in Nat /\ asked <= now
    /\ given.start \in Int /\ given.end \in Nat
    /\ lo \in Int /\ hi \in Int
    /\ outcome # "none" => pc = "done"

(* What the query found when it began is still there.                      *)
KnownInv == knownIndex \subseteq index /\ knownSpans \subseteq spans

(* During the walk every row known lies below the end of the window or     *)
(* after all of them, and windows are a step long but for the first.       *)
WalkInv ==
    pc = "scan" =>
        /\ given.start # 0 => lo = given.start /\ hi = Latest
        /\ given.start = 0 => (lo = asked - Step /\ hi = Latest) \/ lo = hi - Step
        /\ \A r \in knownIndex : r.start <= hi \/ r.start > Latest

(* The range to fetch holds the range of every known row of the window.    *)
RangeInv ==
    pc = "fetch" =>
        /\ range \in [start : Nat, end : Nat]
        /\ \A r \in knownIndex :
              lo <= r.start /\ r.start <= hi => range.start <= r.start /\ r.end <= range.end

LookupInv ==
    /\ IngestTypeOK /\ QueryTypeOK /\ KnownInv /\ WalkInv /\ RangeInv
    /\ EmptyMeansAbsent /\ HitWindowIsComplete

-----------------------------------------------------------------------------
(* Ingestion.                                                              *)

LEMMA JoinType ==
    ASSUME NEW m, DOMAIN m \subseteq Keys, m \in [DOMAIN m -> SpanRange],
           NEW k \in Keys, NEW from \in Moments, NEW to \in Moments
    PROVE  /\ DOMAIN Join(m, k, from, to) \subseteq Keys
           /\ Join(m, k, from, to) \in [DOMAIN Join(m, k, from, to) -> SpanRange]
<1> DEFINE D == DOMAIN m \cup {k}
           F(x) == IF x # k THEN m[x]
                   ELSE IF k \notin DOMAIN m THEN [start |-> from, end |-> to]
                   ELSE [start |-> IF from < m[k].start THEN from ELSE m[k].start,
                         end   |-> IF to > m[k].end THEN to ELSE m[k].end]
<1>1. Join(m, k, from, to) = [x \in D |-> F(x)]
  BY DEF Join
<1>2. ASSUME NEW x \in D PROVE F(x) \in SpanRange
  <2>1. CASE x # k
    BY <2>1
  <2>2. CASE x = k /\ k \notin DOMAIN m
    BY <2>2 DEF SpanRange
  <2>3. CASE x = k /\ k \in DOMAIN m
    <3>1. m[k].start \in Moments /\ m[k].end \in Moments
      BY <2>3 DEF SpanRange
    <3> QED BY <2>3, <3>1 DEF SpanRange
  <2> QED BY <2>1, <2>2, <2>3
<1>3. D \subseteq Keys
  OBVIOUS
<1> HIDE DEF D, F
<1>4. DOMAIN Join(m, k, from, to) = D
  BY <1>1
<1>5. Join(m, k, from, to) \in [D -> SpanRange]
  BY <1>1, <1>2
<1> QED BY <1>3, <1>4, <1>5

(* What ingestion does to a query.                                         *)
Ingests ==
    /\ UNCHANGED queryVars
    /\ index \subseteq index' /\ spans \subseteq spans'
    /\ now' \in Nat /\ now' >= now

LEMMA IngestionIngests ==
    ASSUME IngestTypeOK,
           \/ \E from, to \in 1..(MaxNow + Skew) : StoreSpan(from, to)
           \/ PublishIndex
           \/ Advance
    PROVE  IngestTypeOK' /\ Ingests
<1> USE DEF Ingests
<1>0. LatestEnd \in Nat /\ Trace \in Keys /\ FirstNow \in Nat
  BY LookupAssumption DEF LatestEnd
<1>1. ASSUME NEW from \in Moments, NEW to \in Moments, StoreSpan(from, to)
      PROVE  IngestTypeOK' /\ Ingests
  <2>1. /\ live' = Join(live, Trace, from, to)
        /\ spans' = spans \cup {[start |-> from, end |-> to]}
        /\ UNCHANGED <<index, now, queryVars>>
    BY <1>1 DEF StoreSpan, Accept
  <2>2. DOMAIN live' \subseteq Keys /\ live' \in [DOMAIN live' -> SpanRange]
    BY <1>0, <2>1, JoinType DEF IngestTypeOK
  <2>3. spans' \subseteq SpanRange
    BY <2>1 DEF IngestTypeOK, SpanRange
  <2> QED BY <2>1, <2>2, <2>3 DEF IngestTypeOK
<1>2. ASSUME PublishIndex PROVE IngestTypeOK' /\ Ingests
  <2>1. /\ live # [k \in {} |-> 0]
        /\ index' = index \cup {[key |-> k, start |-> live[k].start, end |-> live[k].end] : k \in {Trace}}
        /\ live' = [k \in DOMAIN live \ {Trace} |-> live[k]]
        /\ UNCHANGED <<now, spans, queryVars>>
    BY <1>2 DEF PublishIndex, Publish
  <2>2. Trace \in DOMAIN live
    <3>1. SUFFICES ASSUME DOMAIN live = {} PROVE FALSE
      BY LookupAssumption DEF IngestTypeOK
    <3>2. live = [k \in {} |-> 0]
      BY <3>1 DEF IngestTypeOK
    <3> QED BY <2>1, <3>2
  <2>3. live[Trace] \in SpanRange
    BY <2>2 DEF IngestTypeOK
  <2>4. index' \subseteq IndexRow
    BY <1>0, <2>1, <2>3 DEF IngestTypeOK, IndexRow, SpanRange
  <2>5. DOMAIN live' \subseteq Keys /\ live' \in [DOMAIN live' -> SpanRange]
    BY <2>1 DEF IngestTypeOK
  <2> QED BY <2>1, <2>4, <2>5 DEF IngestTypeOK
<1>3. ASSUME Advance PROVE IngestTypeOK' /\ Ingests
  BY <1>0, <1>3 DEF Advance, IngestTypeOK
<1> QED BY <1>1, <1>2, <1>3 DEF Moments, LatestEnd

LEMMA IngestKeeps ==
    ASSUME LookupInv, Ingests
    PROVE  QueryTypeOK' /\ KnownInv' /\ WalkInv' /\ RangeInv'
           /\ EmptyMeansAbsent' /\ HitWindowIsComplete'
<1>1. /\ now \in Nat /\ now' \in Nat /\ now' >= now /\ Step \in Nat /\ Retention \in Nat
      /\ UNCHANGED <<pc, asked, given, lo, hi, range, result, outcome, knownIndex, knownSpans>>
      /\ index \subseteq index' /\ spans \subseteq spans'
  BY LookupAssumption DEF Ingests, queryVars, LookupInv, IngestTypeOK
<1>2. QueryTypeOK'
  BY <1>1 DEF LookupInv, QueryTypeOK
<1>3. KnownInv' /\ WalkInv' /\ RangeInv' /\ HitWindowIsComplete'
  BY <1>1 DEF LookupInv, KnownInv, WalkInv, RangeInv, HitWindowIsComplete, Latest
<1>4. EmptyMeansAbsent'
  <2>1. ASSUME NEW r \in knownIndex PROVE r.start \in Nat
    BY LookupAssumption DEF LookupInv, KnownInv, IngestTypeOK, IndexRow, Moments, LatestEnd
  <2>2. ASSUME NEW r \in knownIndex
        PROVE  /\ r.start < now - Retention => r.start < now' - Retention
               /\ TooOldToBeWalked(r) => \/ r.start < now' - Retention
                                         \/ TooOldToBeWalked(r)'
    BY <1>1, <2>1 DEF TooOldToBeWalked
  <2> QED BY <1>1, <2>2 DEF LookupInv, EmptyMeansAbsent, Latest
<1> QED BY <1>2, <1>3, <1>4

-----------------------------------------------------------------------------
(* The query.                                                              *)

LEMMA GetTraceKeeps ==
    ASSUME LookupInv, GetTrace
    PROVE  LookupInv'
<1>1. PICK w \in Windows :
        /\ given' = w
        /\ lo' = IF w.start = 0 THEN now - Step ELSE w.start
        /\ hi' = IF w.end = 0 THEN now ELSE w.end
  BY DEF GetTrace
<1>2. /\ pc' = "scan" /\ asked' = now /\ outcome' = "none"
      /\ knownIndex' = index /\ knownSpans' = spans
      /\ UNCHANGED <<live, index, now, spans>>
  BY DEF GetTrace, ingestVars
<1>3. w.start \in Int /\ w.end \in Nat /\ Step \in Nat /\ now \in Nat
  BY LookupAssumption DEF LookupInv, IngestTypeOK
<1> QED
  <2>1. IngestTypeOK'
    BY <1>2 DEF LookupInv, IngestTypeOK
  <2>2. QueryTypeOK'
    BY <1>1, <1>2, <1>3, LookupAssumption DEF QueryTypeOK
  <2>3. WalkInv'
    <3>1. hi' = Latest'
      BY <1>1, <1>2 DEF Latest
    <3>2. \A r \in knownIndex' : r.start \in Nat
      BY <1>2, LookupAssumption DEF LookupInv, IngestTypeOK, IndexRow, Moments, LatestEnd
    <3>3. hi' \in Int
      BY <1>1, <1>3
    <3> QED BY <1>1, <1>2, <3>1, <3>2, <3>3 DEF WalkInv
  <2> QED BY <1>2, <2>1, <2>2, <2>3
          DEF LookupInv, KnownInv, RangeInv, EmptyMeansAbsent, HitWindowIsComplete

LEMMA ScanMissKeeps ==
    ASSUME LookupInv, ScanMiss
    PROVE  LookupInv'
<1>1. /\ pc = "scan" /\ RowsBetween(lo, hi) = {} /\ given.start = 0
      /\ lo' = lo - Step /\ hi' = lo
      /\ UNCHANGED <<live, index, now, spans, pc, asked, given, range, result, outcome,
                     knownIndex, knownSpans>>
  BY DEF ScanMiss, NextWindow, ingestVars
<1>2. lo \in Int /\ hi \in Int /\ Step \in Nat /\ Latest \in Int
  BY LookupAssumption DEF LookupInv, QueryTypeOK, Latest
<1>3. outcome = "none"
  BY <1>1 DEF LookupInv, QueryTypeOK
<1>4. ASSUME NEW r \in knownIndex PROVE r.start <= lo \/ r.start > Latest
  <2>1. r \in index /\ r.start \in Nat
    BY LookupAssumption DEF LookupInv, KnownInv, IngestTypeOK, IndexRow, Moments, LatestEnd
  <2>2. ~ (lo <= r.start /\ r.start <= hi)
    BY <1>1, <2>1 DEF RowsBetween
  <2>3. r.start <= hi \/ r.start > Latest
    BY <1>1 DEF LookupInv, WalkInv
  <2> QED BY <1>2, <2>1, <2>2, <2>3
<1>5. WalkInv'
  BY <1>1, <1>2, <1>4 DEF WalkInv, Latest
<1> QED BY <1>1, <1>2, <1>3, <1>5
        DEF LookupInv, IngestTypeOK, QueryTypeOK, KnownInv, RangeInv, EmptyMeansAbsent,
            HitWindowIsComplete

(* The range taken from the rows found holds the range of each of them.    *)
LEMMA HullHoldsAll ==
    ASSUME NEW R \in SUBSET IndexRow, NEW r \in R
    PROVE  /\ HullOf(R) \in [start : Nat, end : Nat]
           /\ HullOf(R).start <= r.start /\ r.end <= HullOf(R).end
<1>1. LatestEnd \in Nat /\ Moments \subseteq Nat /\ \A x \in Moments : x <= LatestEnd
  BY LookupAssumption DEF LatestEnd, Moments
<1>2. {q.start : q \in R} \in SUBSET Nat /\ r.start \in {q.start : q \in R}
  BY <1>1 DEF IndexRow
<1>3. /\ {q.end : q \in R} \in SUBSET Nat /\ r.end \in {q.end : q \in R}
      /\ \A x \in {q.end : q \in R} : x <= LatestEnd
  BY <1>1 DEF IndexRow
<1>4. Min({q.start : q \in R}) \in Nat /\ Min({q.start : q \in R}) <= r.start
  BY <1>2, MinIsLeast
<1>5. Max({q.end : q \in R}) \in Nat /\ r.end <= Max({q.end : q \in R})
  BY <1>1, <1>3, MaxIsGreatest
<1> QED BY <1>4, <1>5 DEF HullOf

LEMMA ScanHitKeeps ==
    ASSUME LookupInv, ScanHit
    PROVE  LookupInv'
<1>1. /\ pc = "scan" /\ pc' = "fetch"
      /\ range' = HullOf(RowsBetween(lo, hi))
      /\ UNCHANGED <<live, index, now, spans, asked, given, lo, hi, result, outcome,
                     knownIndex, knownSpans>>
  BY DEF ScanHit, ingestVars
<1>2. outcome = "none"
  BY <1>1 DEF LookupInv, QueryTypeOK
<1>3. ASSUME NEW r \in knownIndex, lo <= r.start, r.start <= hi
      PROVE  range'.start <= r.start /\ r.end <= range'.end
  <2>1. RowsBetween(lo, hi) \in SUBSET IndexRow /\ r \in RowsBetween(lo, hi)
    BY <1>3 DEF RowsBetween, LookupInv, IngestTypeOK, KnownInv
  <2> QED BY <1>1, <2>1, HullHoldsAll
<1>4. range' \in [start : Nat, end : Nat]
  <2>1. RowsBetween(lo, hi) \in SUBSET IndexRow /\ \E r \in RowsBetween(lo, hi) : TRUE
    BY DEF ScanHit, RowsBetween, LookupInv, IngestTypeOK
  <2> QED BY <1>1, <2>1, HullHoldsAll
<1>5. RangeInv'
  BY <1>1, <1>3, <1>4 DEF RangeInv
<1> QED BY <1>1, <1>2, <1>5
        DEF LookupInv, IngestTypeOK, QueryTypeOK, KnownInv, WalkInv, EmptyMeansAbsent,
            HitWindowIsComplete, Latest

(* A walk that ends with nothing has gone past every row it was to find.   *)
LEMMA ScanEndsKeeps ==
    ASSUME LookupInv, ScanEnds
    PROVE  LookupInv'
<1>1. /\ pc = "scan" /\ pc' = "done" /\ outcome' = "empty"
      /\ lo <= 0 \/ OutOfRetention(hi) \/ (given.start # 0 /\ RowsBetween(lo, hi) = {})
      /\ UNCHANGED <<live, index, now, spans, asked, given, lo, hi, range, result,
                     knownIndex, knownSpans>>
  BY DEF ScanEnds, ingestVars
<1>2. /\ lo \in Int /\ hi \in Int /\ asked \in Nat /\ now \in Nat /\ given.start \in Int
      /\ Step \in Nat /\ Retention \in Nat /\ Latest \in Int
  BY LookupAssumption DEF LookupInv, IngestTypeOK, QueryTypeOK, Latest
<1>3. ASSUME given.start >= 0, NEW r \in knownIndex
      PROVE  \/ r.start < now - Retention
             \/ r.start > Latest
             \/ TooOldToBeWalked(r)
             \/ given.start # 0 /\ r.start < given.start
  <2>1. r \in index /\ r.start \in Nat
    BY LookupAssumption DEF LookupInv, KnownInv, IngestTypeOK, IndexRow, Moments, LatestEnd
  <2>2. /\ given.start # 0 => lo = given.start /\ hi = Latest
        /\ given.start = 0 => (lo = asked - Step /\ hi = Latest) \/ lo = hi - Step
        /\ r.start <= hi \/ r.start > Latest
    BY <1>1 DEF LookupInv, WalkInv
  <2>3. CASE OutOfRetention(hi)
    BY <1>2, <2>1, <2>2, <2>3 DEF OutOfRetention
  <2>4. CASE given.start # 0 /\ RowsBetween(lo, hi) = {}
    <3>1. ~ (lo <= r.start /\ r.start <= hi)
      BY <2>1, <2>4 DEF RowsBetween
    <3> QED BY <1>2, <2>1, <2>2, <2>4, <3>1
  <2>5. CASE lo <= 0
    <3>1. CASE given.start # 0
      BY <1>2, <1>3, <2>2, <2>5, <3>1
    <3>2. CASE given.start = 0 /\ lo = asked - Step
      BY <1>2, <2>5, <3>2 DEF TooOldToBeWalked
    <3>3. CASE given.start = 0 /\ lo = hi - Step
      BY <1>2, <2>1, <2>2, <2>5, <3>3 DEF TooOldToBeWalked
    <3> QED BY <2>2, <3>1, <3>2, <3>3
  <2> QED BY <1>1, <2>3, <2>4, <2>5
<1>4. EmptyMeansAbsent'
  BY <1>1, <1>3 DEF EmptyMeansAbsent, Latest, TooOldToBeWalked
<1> QED BY <1>1, <1>4
        DEF LookupInv, IngestTypeOK, QueryTypeOK, KnownInv, WalkInv, RangeInv,
            HitWindowIsComplete

LEMMA FindSpansKeeps ==
    ASSUME LookupInv, FindSpans
    PROVE  LookupInv'
<1>1. /\ pc = "fetch" /\ pc' = "done"
      /\ outcome' = "error" \/ (outcome' = "found" /\ result' = SpansIn(range))
      /\ UNCHANGED <<live, index, now, spans, asked, given, lo, hi, range,
                     knownIndex, knownSpans>>
  BY DEF FindSpans, ingestVars
<1>2. ASSUME outcome' = "found", NEW r \in knownIndex, lo <= r.start, r.start <= hi,
             NEW s \in knownSpans, r.start <= s.end, s.end <= r.end
      PROVE  s \in result'
  <2>1. range.start <= r.start /\ r.end <= range.end
    BY <1>1, <1>2 DEF LookupInv, RangeInv
  <2>2. s \in spans
    BY DEF LookupInv, KnownInv
  <2>3. result' = SpansIn(range)
    BY <1>1, <1>2
  <2>4. range.start <= s.end /\ s.end <= range.end
    <3>1. r.start \in Int /\ r.end \in Int /\ s.end \in Int
      BY <2>2 DEF LookupInv, KnownInv, IngestTypeOK, IndexRow, SpanRange, Moments
    <3>2. range.start \in Int /\ range.end \in Int
      BY <1>1 DEF LookupInv, RangeInv
    <3> QED BY <1>2, <2>1, <3>1, <3>2
  <2> QED BY <2>2, <2>3, <2>4 DEF SpansIn
<1>3. HitWindowIsComplete'
  BY <1>1, <1>2 DEF HitWindowIsComplete
<1> QED BY <1>1, <1>3
        DEF LookupInv, IngestTypeOK, QueryTypeOK, KnownInv, WalkInv, RangeInv,
            EmptyMeansAbsent

LEMMA QueryFailsKeeps ==
    ASSUME LookupInv, QueryFails
    PROVE  LookupInv'
BY DEF QueryFails, ingestVars, LookupInv, IngestTypeOK, QueryTypeOK, KnownInv, WalkInv,
       RangeInv, EmptyMeansAbsent, HitWindowIsComplete

LEMMA AnsweredKeeps ==
    ASSUME LookupInv, Answered
    PROVE  LookupInv'
<1>1. FirstNow \in Nat /\ FirstNow <= now
  BY LookupAssumption DEF LookupInv, IngestTypeOK
<1> QED BY <1>1 DEF Answered, ingestVars, NoWindow, LookupInv, IngestTypeOK, QueryTypeOK,
        KnownInv, WalkInv, RangeInv, EmptyMeansAbsent, HitWindowIsComplete

-----------------------------------------------------------------------------
(* The inductive invariant of a lookup: what the walk has left behind it   *)
(* and what the range of the fetch holds, while rows and spans arrive.     *)
THEOREM LookupInvariant == LookupSpec => []LookupInv
<1>1. LookupInit => LookupInv
  <2>1. SUFFICES ASSUME LookupInit PROVE LookupInv
    OBVIOUS
  <2> QED BY <2>1, LookupAssumption
          DEF LookupInit, Init, NoWindow, LookupInv, IngestTypeOK, QueryTypeOK, KnownInv,
              WalkInv, RangeInv, EmptyMeansAbsent, HitWindowIsComplete
<1>2. LookupInv /\ [LookupNext]_vars => LookupInv'
  <2> SUFFICES ASSUME LookupInv, [LookupNext]_vars PROVE LookupInv'
    OBVIOUS
  <2>1. ASSUME \/ \E from, to \in 1..(MaxNow + Skew) : StoreSpan(from, to)
               \/ PublishIndex
               \/ Advance
        PROVE  LookupInv'
    <3>1. IngestTypeOK' /\ Ingests
      BY <2>1, IngestionIngests DEF LookupInv
    <3> QED BY <3>1, IngestKeeps DEF LookupInv
  <2>2. ASSUME QueryStep PROVE LookupInv'
    BY <2>2, GetTraceKeeps, ScanMissKeeps, ScanHitKeeps, ScanEndsKeeps, FindSpansKeeps,
       QueryFailsKeeps, AnsweredKeeps DEF QueryStep
  <2>3. ASSUME UNCHANGED vars PROVE LookupInv'
    BY <2>3 DEF vars, LookupInv, IngestTypeOK, QueryTypeOK, KnownInv, WalkInv, RangeInv,
        EmptyMeansAbsent, HitWindowIsComplete, Latest, TooOldToBeWalked
  <2> QED BY <2>1, <2>2, <2>3 DEF LookupNext
<1> QED BY <1>1, <1>2, PTL DEF LookupSpec

(* A lookup that comes back empty has missed no row it was asked to find.  *)
THEOREM EmptyAnswersAreTrue == LookupSpec => []EmptyMeansAbsent
<1>1. LookupInv => EmptyMeansAbsent
  BY DEF LookupInv
<1> QED BY <1>1, LookupInvariant, PTL

(* A lookup that hits a window returns every span its rows account for.    *)
THEOREM HitsAreComplete == LookupSpec => []HitWindowIsComplete
<1>1. LookupInv => HitWindowIsComplete
  BY DEF LookupInv
<1> QED BY <1>1, LookupInvariant, PTL

-----------------------------------------------------------------------------
(* LastN: what holds in every state.                                       *)

RowsInv ==
    /\ rows \in [Times -> Nat] /\ known \in [Times -> Nat]
    /\ \A t \in Times : known[t] <= rows[t]

(* The range under search, and what the search begins with.                *)
SearchInv ==
    /\ phase \in {"first", "search", "failed"} => path = "none"
    /\ phase = "first" => found = None /\ n = Limit
    /\ phase = "search" => /\ found \in [Times -> Nat]
                        /\ start \in Int /\ end \in Int /\ n \in Int
                        /\ start <= end

LastNInv == RowsInv /\ SearchInv /\ FoundIsTail /\ EnoughIsNewest

-----------------------------------------------------------------------------
(* Bags.                                                                   *)

LEMMA TimesFinite == IsFiniteSet(Times) /\ Times \subseteq Nat
<1>1. IsFiniteSet(First..Last)
  BY LastNAssumption, FS_Interval
<1> QED BY <1>1, LastNAssumption, FS_Subset

LEMMA SizeIsSum ==
    ASSUME NEW b \in [Times -> Nat]
    PROVE  Size(b) = SumFunctionOnSet(b, Times) /\ Size(b) \in Nat
BY TimesFinite, SumType DEF Size, SumFunction

LEMMA SizeOfNone == Size(None) = 0
<1>1. None \in [Times -> Nat] /\ \A t \in Times : None[t] = 0
  BY DEF None
<1>2. SumFunctionOnSet(None, {}) = SumFunctionOnSet(None, Times)
  BY <1>1, TimesFinite, SumOfPart
<1> QED BY <1>1, <1>2, SumEmpty, SizeIsSum

LEMMA SizeOfPlus ==
    ASSUME NEW a \in [Times -> Nat], NEW b \in [Times -> Nat]
    PROVE  Plus(a, b) \in [Times -> Nat] /\ Size(Plus(a, b)) = Size(a) + Size(b)
<1> DEFINE c == Plus(a, b)
<1>1. /\ c \in [Times -> Nat]
      /\ \A t \in Times : a[t] \in Nat /\ b[t] \in Nat /\ c[t] = a[t] + b[t]
  BY DEF Plus
<1> HIDE DEF c
<1>2. SumFunctionOnSet(c, Times) = SumFunctionOnSet(a, Times) + SumFunctionOnSet(b, Times)
  <2>1. IsFiniteSet(Times)
    BY TimesFinite
  <2>2. \A t \in Times : a[t] \in Nat /\ b[t] \in Nat /\ c[t] = a[t] + b[t]
    BY <1>1
  <2> QED BY <2>1, <2>2, SumPlus
<1>3. Size(c) = Size(a) + Size(b)
  BY <1>1, <1>2, SizeIsSum
<1> QED BY <1>1, <1>3 DEF c

(* getLastNRows leaves the newest k rows, or all when there are fewer.     *)
LEMMA NewestType ==
    ASSUME NEW b \in [Times -> Nat], NEW k \in Nat
    PROVE  /\ NewestOf(b, k) \in [Times -> Nat]
           /\ \A t \in Times : NewestOf(b, k)[t] <= b[t]
           /\ \A t, u \in Times : t < u /\ NewestOf(b, k)[t] > 0 => NewestOf(b, k)[u] = b[u]
<1> DEFINE Newer(t) == SumFunctionOnSet(b, {u \in Times : u > t})
           N == NewestOf(b, k)
<1>1. N = [t \in Times |-> IF Newer(t) >= k THEN 0
                           ELSE IF Newer(t) + b[t] <= k THEN b[t] ELSE k - Newer(t)]
  BY DEF NewestOf
<1>2. \A t \in Times : Newer(t) \in Nat
  <2>1. ASSUME NEW t \in Times PROVE Newer(t) \in Nat
    <3>1. IsFiniteSet({u \in Times : u > t})
      BY TimesFinite, FS_Subset
    <3> QED BY <3>1, SumType
  <2> QED BY <2>1
<1>3. ASSUME NEW t \in Times, NEW u \in Times, t < u PROVE Newer(u) + b[u] <= Newer(t)
  <2> DEFINE A == {x \in Times : x > t}
             B == {x \in Times : x > u} \cup {u}
  <2>1. IsFiniteSet(A) /\ IsFiniteSet(B) /\ B \in SUBSET A
    <3>1. B \in SUBSET A /\ A \in SUBSET Times
      <4>1. ASSUME NEW x \in B PROVE x \in A
        <5>1. x \in Nat /\ t \in Nat /\ u \in Nat /\ x \in Times /\ (x > u \/ x = u)
          BY TimesFinite
        <5> QED BY <1>3, <5>1
      <4> QED BY <4>1
    <3> QED BY <3>1, TimesFinite, FS_Subset
  <2>2. (\A x \in A : b[x] \in Nat) /\ (\A x \in B : b[x] \in Nat)
    OBVIOUS
  <2>3. SumFunctionOnSet(b, B) <= SumFunctionOnSet(b, A)
    <3> HIDE DEF A, B
    <3> QED BY <2>1, <2>2, SumOfSubset
  <2>4. B \ {u} = {x \in Times : x > u} /\ u \in B
    BY TimesFinite
  <2>5. SumFunctionOnSet(b, B) = b[u] + SumFunctionOnSet(b, B \ {u})
    <3> HIDE DEF A, B
    <3> QED BY <2>1, <2>2, <2>4, SumRemove
  <2>6. Newer(u) \in Nat /\ Newer(t) \in Nat /\ b[u] \in Nat /\ SumFunctionOnSet(b, B) = b[u] + Newer(u)
    BY <1>2, <2>4, <2>5
  <2> HIDE DEF B
  <2> QED BY <2>3, <2>6
<1> HIDE DEF Newer
<1>4. N \in [Times -> Nat] /\ \A t \in Times : N[t] <= b[t]
  BY <1>1, <1>2
<1>5. ASSUME NEW t \in Times, NEW u \in Times, t < u, N[t] > 0 PROVE N[u] = b[u]
  <2>1. Newer(t) < k
    BY <1>1, <1>2, <1>5
  <2> QED BY <1>1, <1>2, <1>3, <1>5, <2>1
<1> QED BY <1>4, <1>5

LEMMA NewestSize ==
    ASSUME NEW b \in [Times -> Nat], NEW k \in Nat
    PROVE  Size(NewestOf(b, k)) = IF Size(b) <= k THEN Size(b) ELSE k
<1> DEFINE N == NewestOf(b, k)
           Newer(t) == {u \in Times : u > t}
           S(s) == SumFunctionOnSet(b, s)
           M(s) == SumFunctionOnSet(N, s)
           G == {s \in SUBSET Times : (\A t \in s : Newer(t) \subseteq s) =>
                                         M(s) = IF S(s) <= k THEN S(s) ELSE k}
<1>1. N \in [Times -> Nat]
  BY NewestType
<1>2. \A s \in SUBSET Times : IsFiniteSet(s) /\ S(s) \in Nat /\ M(s) \in Nat
  BY <1>1, TimesFinite, FS_Subset, SumType
<1>3. ASSUME NEW s \in SUBSET Times, \A x \in s : s \ {x} \in G PROVE s \in G
  <2> SUFFICES ASSUME \A t \in s : Newer(t) \subseteq s
               PROVE  M(s) = IF S(s) <= k THEN S(s) ELSE k
    OBVIOUS
  <2>1. CASE s = {}
    BY <2>1, SumEmpty
  <2>2. CASE s # {}
    <3>1. PICK m \in s : \A x \in s : m <= x
      BY <2>2, TimesFinite, LeastElement
    <3>2. s \ {m} = Newer(m)
      <4>1. ASSUME NEW x \in s \ {m} PROVE x \in Newer(m)
        <5>1. x \in Nat /\ m \in Nat /\ x \in Times /\ m <= x /\ x # m
          BY <3>1, TimesFinite
        <5> QED BY <5>1
      <4>2. m \in Times /\ ~ (m > m)
        BY TimesFinite
      <4> QED BY <3>1, <4>1, <4>2
    <3>3. \A t \in s \ {m} : Newer(t) \subseteq s \ {m}
      BY <3>2, TimesFinite
    <3>4. M(s \ {m}) = IF S(s \ {m}) <= k THEN S(s \ {m}) ELSE k
      BY <1>3, <3>3
    <3>5. S(s) = b[m] + S(s \ {m}) /\ M(s) = N[m] + M(s \ {m})
      BY <1>1, <1>2, SumRemove
    <3>6. N[m] = IF S(s \ {m}) >= k THEN 0
                 ELSE IF S(s \ {m}) + b[m] <= k THEN b[m] ELSE k - S(s \ {m})
      BY <3>2 DEF NewestOf
    <3>7. b[m] \in Nat /\ S(s \ {m}) \in Nat
      BY <1>2
    <3> HIDE DEF S, M, N
    <3> QED BY <3>4, <3>5, <3>6, <3>7
  <2> QED BY <2>1, <2>2
<1>4. SUBSET Times \subseteq G
  <2> HIDE DEF G
  <2> QED BY <1>3, SubsetInduction, TimesFinite
<1>5. \A t \in Times : Newer(t) \subseteq Times
  OBVIOUS
<1>6. M(Times) = IF S(Times) <= k THEN S(Times) ELSE k
  BY <1>4, <1>5
<1> QED BY <1>1, <1>6, SizeIsSum

-----------------------------------------------------------------------------
(* The range under search.                                                 *)

LEMMA HalfBounds ==
    ASSUME NEW x \in Int, NEW y \in Int, x <= y
    PROVE  /\ HalfOf(x, y) \in Int
           /\ x + HalfOf(x, y) <= y
<1>1. \A z \in Int : /\ Half(z) \in Int
                     /\ z >= 0 => 2 * Half(z) <= z /\ z <= 2 * Half(z) + 1
                     /\ z < 0 => z <= 2 * Half(z) /\ 2 * Half(z) <= z + 1
  BY DEF Half
<1>2. HalfOf(x, y) = Half(y) - Half(x)
  BY DEF HalfOf
<1>3. Half(x) \in Int /\ Half(y) \in Int
  BY <1>1
<1>4. CASE x >= 0
  BY <1>1, <1>2, <1>3, <1>4
<1>5. CASE x < 0 /\ y < 0
  BY <1>1, <1>2, <1>3, <1>5
<1>6. CASE x < 0 /\ y >= 0
  BY <1>1, <1>2, <1>3, <1>6
<1> QED BY <1>4, <1>5, <1>6

LEMMA RowsInType ==
    ASSUME RowsInv, NEW from, NEW to
    PROVE  RowsIn(from, to) \in [Times -> Nat]
BY DEF RowsIn, RowsInv

(* What a step of the search that does not return does to the rest.        *)
LEMMA ReachBackKeeps ==
    ASSUME LastNInv, ReachBack
    PROVE  LastNInv'
<1>1. /\ phase = "search" /\ HalfOf(start, end) > 0
      /\ found' = Plus(found, Probed) /\ n' = n - Size(Probed)
      /\ start' = start - HalfOf(start, end) /\ end' = start
      /\ UNCHANGED <<rows, known, phase, lastNonEmpty, returned, path>>
  BY DEF ReachBack, Older
<1>2. /\ found \in [Times -> Nat] /\ start \in Int /\ end \in Int /\ n \in Int
      /\ start <= end /\ path = "none" /\ Size(found) + n = Limit
  BY <1>1 DEF LastNInv, SearchInv, FoundIsTail
<1>3. Probed \in [Times -> Nat] /\ Size(Probed) \in Nat /\ Size(found) \in Nat
  BY <1>2, RowsInType, SizeIsSum DEF LastNInv, Probed
<1>4. /\ found' \in [Times -> Nat]
      /\ Size(found') = Size(found) + Size(Probed)
  BY <1>1, <1>2, <1>3, SizeOfPlus
<1>5. HalfOf(start, end) \in Int
  BY <1>2, HalfBounds
<1>6. SearchInv'
  BY <1>1, <1>2, <1>3, <1>4, <1>5 DEF SearchInv
<1>7. Size(found') + n' = Limit
  BY <1>1, <1>2, <1>3, <1>4
<1>8. ASSUME NEW t \in Times
      PROVE  IF t < end' THEN found'[t] = 0
             ELSE known'[t] <= found'[t] /\ found'[t] <= rows'[t]
  <2>1. /\ t \in Nat /\ rows[t] \in Nat /\ known[t] \in Nat /\ known[t] <= rows[t]
        /\ found[t] \in Nat
    BY <1>2, TimesFinite DEF LastNInv, RowsInv
  <2>2. found'[t] = found[t] + IF start <= t /\ t <= end - 1 THEN rows[t] ELSE 0
    BY <1>1 DEF Plus, Probed, RowsIn
  <2>3. IF t < end THEN found[t] = 0 ELSE known[t] <= found[t] /\ found[t] <= rows[t]
    BY <1>1 DEF LastNInv, FoundIsTail
  <2> QED BY <1>1, <1>2, <2>1, <2>2, <2>3
<1>9. FoundIsTail'
  BY <1>7, <1>8 DEF FoundIsTail
<1>10. RowsInv' /\ EnoughIsNewest'
  BY <1>1, <1>2 DEF LastNInv, RowsInv, EnoughIsNewest
<1> QED BY <1>6, <1>9, <1>10 DEF LastNInv

LEMMA NewerHalfKeeps ==
    ASSUME LastNInv, SearchNewerHalf
    PROVE  LastNInv'
<1>1. /\ phase = "search" /\ start' = start + HalfOf(start, end)
      /\ UNCHANGED <<rows, known, phase, end, n, found, returned, path>>
  BY DEF SearchNewerHalf
<1>2. start' \in Int /\ start' <= end /\ path = "none"
  BY <1>1, HalfBounds DEF LastNInv, SearchInv
<1>3. SearchInv'
  BY <1>1, <1>2 DEF LastNInv, SearchInv
<1> QED BY <1>1, <1>2, <1>3 DEF LastNInv, RowsInv, FoundIsTail, EnoughIsNewest

LEMMA FirstSlowKeeps ==
    ASSUME LastNInv, FirstSlow
    PROVE  LastNInv'
<1>1. /\ phase = "first" /\ phase' = "search" /\ end' = Last + 1
      /\ start' = First + HalfOf(First, Last + 1)
      /\ UNCHANGED <<rows, known, n, found, lastNonEmpty, returned, path>>
  BY DEF FirstSlow
<1>2. found = None /\ n = Limit /\ path = "none"
  BY <1>1 DEF LastNInv, SearchInv
<1>3. ASSUME NEW t \in Times PROVE found[t] = 0 /\ t < Last + 1
  BY <1>2, LastNAssumption DEF None
<1>4. Size(found) + n = Limit /\ found \in [Times -> Nat]
  BY <1>2, SizeOfNone, LastNAssumption DEF None
<1>5. FoundIsTail'
  BY <1>1, <1>3, <1>4 DEF FoundIsTail
<1>6. First <= Last
  <2>1. RowsIn(First, Last) \in [Times -> Nat]
    BY RowsInType DEF LastNInv
  <2>2. Size(RowsIn(First, Last)) > 0
    BY <2>1, SizeIsSum, LastNAssumption DEF FirstSlow
  <2>3. Times # {}
    <3> DEFINE b == RowsIn(First, Last)
    <3>1. Size(b) = SumFunctionOnSet(b, Times) /\ Size(b) > 0
      BY <2>1, <2>2, SizeIsSum
    <3> HIDE DEF b
    <3>2. SumFunctionOnSet(b, {}) = 0
      BY SumEmpty
    <3> QED BY <3>1, <3>2
  <2>4. PICK t \in Times : TRUE
    BY <2>3
  <2>5. t \in Int /\ First <= t /\ t <= Last /\ First \in Int /\ Last \in Int
    BY LastNAssumption
  <2> QED BY <2>5
<1>7. start' \in Int /\ end' \in Int /\ start' <= end'
  BY <1>1, <1>6, HalfBounds, LastNAssumption
<1>8. SearchInv'
  BY <1>1, <1>2, <1>4, <1>7, LastNAssumption DEF SearchInv
<1> QED BY <1>1, <1>2, <1>5, <1>8 DEF LastNInv, RowsInv, EnoughIsNewest

(* A return with the rows from some time on, b, when they are enough.      *)
LEMMA ReturnsNewest ==
    ASSUME LastNInv, NEW b \in [Times -> Nat], NEW how, Return(b, how),
           NEW from \in Int,
           \A t \in Times : IF t < from THEN b[t] = 0 ELSE known[t] <= b[t] /\ b[t] <= rows[t],
           Size(b) >= Limit \/ Size(b) >= Size(known)
    PROVE  LastNInv'
<1>1. /\ phase' = "done" /\ returned' = NewestOf(b, Limit)
      /\ UNCHANGED <<rows, known>>
  BY DEF Return
<1>2. /\ returned' \in [Times -> Nat]
      /\ \A t \in Times : returned'[t] <= b[t]
      /\ \A t, u \in Times : t < u /\ returned'[t] > 0 => returned'[u] = b[u]
  BY <1>1, NewestType, LastNAssumption
<1>3. Size(returned') >= IF Size(known) < Limit THEN Size(known) ELSE Limit
  <2>1. Size(returned') = IF Size(b) <= Limit THEN Size(b) ELSE Limit
    BY <1>1, NewestSize, LastNAssumption
  <2>2. Size(b) \in Nat /\ Size(known) \in Nat /\ Limit \in Nat
    BY SizeIsSum, LastNAssumption DEF LastNInv, RowsInv
  <2> QED BY <2>1, <2>2
<1>4. ASSUME NEW t \in Times PROVE returned'[t] <= rows[t]
  <2>1. returned'[t] \in Nat /\ b[t] \in Nat /\ rows[t] \in Nat /\ returned'[t] <= b[t]
    BY <1>2 DEF LastNInv, RowsInv
  <2> QED BY <2>1
<1>5. ASSUME NEW t \in Times, NEW u \in Times, t < u, returned'[t] > 0
      PROVE  returned'[u] >= known[u]
  <2>1. t \in Nat /\ u \in Nat /\ b[t] \in Nat /\ returned'[t] \in Nat /\ returned'[t] <= b[t]
        /\ b[u] \in Nat /\ known[u] \in Nat
    BY <1>2, TimesFinite DEF LastNInv, RowsInv
  <2>2. ~ (t < from)
    BY <1>5, <2>1
  <2>3. known[u] <= b[u] /\ returned'[u] = b[u]
    BY <1>2, <1>5, <2>1, <2>2
  <2> QED BY <2>1, <2>3
<1>6. EnoughIsNewest'
  BY <1>1, <1>3, <1>4, <1>5 DEF EnoughIsNewest
<1> QED BY <1>1, <1>6 DEF LastNInv, RowsInv, SearchInv, FoundIsTail

LEMMA FirstFastKeeps ==
    ASSUME LastNInv, FirstFast
    PROVE  LastNInv'
<1> DEFINE b == RowsIn(First, Last)
<1>1. b = rows
  BY LastNAssumption DEF RowsIn, LastNInv, RowsInv
<1>2. rows \in [Times -> Nat] /\ known \in [Times -> Nat]
      /\ \A t \in Times : rows[t] \in Nat /\ known[t] \in Nat /\ known[t] <= rows[t]
  BY DEF LastNInv, RowsInv
<1>3. Size(rows) >= Size(known)
  <2>1. IsFiniteSet(Times)
    BY TimesFinite
  <2>2. SumFunctionOnSet(known, Times) <= SumFunctionOnSet(rows, Times)
    BY <1>2, <2>1, SumMonotone
  <2> QED BY <1>2, <2>2, SizeIsSum
<1>4. Return(rows, "fast")
  BY <1>1 DEF FirstFast
<1>5. \A t \in Times : IF t < First THEN rows[t] = 0 ELSE known[t] <= rows[t] /\ rows[t] <= rows[t]
  BY <1>2, LastNAssumption
<1>6. First \in Int
  BY LastNAssumption
<1> QED BY <1>2, <1>3, <1>4, <1>5, <1>6, ReturnsNewest

LEMMA EnoughKeeps ==
    ASSUME LastNInv, Enough
    PROVE  LastNInv'
<1>1. /\ phase = "search" /\ HalfOf(start, end) > 0 /\ ~ IsFull(n)
      /\ Size(found) + Size(Probed) >= Limit
  BY DEF Enough
<1>2. /\ found \in [Times -> Nat] /\ start \in Int /\ end \in Int /\ n \in Int
      /\ Size(found) + n = Limit
  BY <1>1 DEF LastNInv, SearchInv, FoundIsTail
<1>3. Probed \in [Times -> Nat] /\ Size(Probed) \in Nat
  BY RowsInType, SizeIsSum DEF LastNInv, Probed
<1>4. Limited(Probed, 2 * n) = {Probed}
  <2>1. Size(Probed) <= 2 * n
    BY <1>1, <1>2, <1>3 DEF IsFull
  <2> QED BY <2>1 DEF Limited
<1> DEFINE b == Plus(found, Probed)
<1>5. Return(b, "enough")
  BY <1>4 DEF Enough
<1>6. b \in [Times -> Nat] /\ Size(b) = Size(found) + Size(Probed)
  BY <1>2, <1>3, SizeOfPlus
<1>7. ASSUME NEW t \in Times
      PROVE  IF t < start THEN b[t] = 0 ELSE known[t] <= b[t] /\ b[t] <= rows[t]
  <2>1. /\ t \in Nat /\ rows[t] \in Nat /\ known[t] \in Nat /\ known[t] <= rows[t]
        /\ found[t] \in Nat
    BY <1>2, TimesFinite DEF LastNInv, RowsInv
  <2>2. b[t] = found[t] + IF start <= t /\ t <= end - 1 THEN rows[t] ELSE 0
    BY DEF Plus, Probed, RowsIn
  <2>3. IF t < end THEN found[t] = 0 ELSE known[t] <= found[t] /\ found[t] <= rows[t]
    BY <1>1 DEF LastNInv, FoundIsTail
  <2>4. start <= end
    BY <1>1 DEF LastNInv, SearchInv
  <2> HIDE DEF b
  <2> QED BY <1>2, <2>1, <2>2, <2>3, <2>4
<1> HIDE DEF b
<1> QED BY <1>1, <1>2, <1>5, <1>6, <1>7, ReturnsNewest

(* The other two returns are no concern of the properties.                 *)
LEMMA ReturnElse ==
    ASSUME LastNInv, NEW b, NEW how, how \notin {"fast", "enough"}, Return(b, how)
    PROVE  LastNInv'
BY DEF Return, LastNInv, RowsInv, SearchInv, FoundIsTail, EnoughIsNewest

LEMMA StoredRowKeeps ==
    ASSUME LastNInv, NEW t \in Times, Ingest(t)
    PROVE  LastNInv'
<1>1. /\ rows' = [rows EXCEPT ![t] = @ + 1] /\ phase \in {"first", "search"}
      /\ UNCHANGED <<phase, start, end, n, found, lastNonEmpty, returned, path, known>>
  BY DEF Ingest
<1>2. rows' \in [Times -> Nat] /\ \A u \in Times : rows[u] <= rows'[u]
  BY <1>1 DEF LastNInv, RowsInv
<1>3. RowsInv'
  BY <1>1, <1>2 DEF LastNInv, RowsInv
<1>4. path' = "none"
  BY <1>1 DEF LastNInv, SearchInv
<1>5. FoundIsTail'
  <2>1. ASSUME phase = "search", NEW u \in Times
        PROVE  found[u] <= rows[u] => found[u] <= rows'[u]
    BY <1>1, <1>2, <2>1 DEF LastNInv, RowsInv, SearchInv
  <2> QED BY <1>1, <2>1 DEF LastNInv, FoundIsTail
<1> QED BY <1>1, <1>3, <1>4, <1>5 DEF LastNInv, SearchInv, EnoughIsNewest

-----------------------------------------------------------------------------
(* The inductive invariant of the search: the rows found are the tail of   *)
(* the range, and with those still missing make up the limit.              *)
THEOREM LastNInvariant == LastNSpec => []LastNInv
<1>1. LastNInit => LastNInv
  <2> SUFFICES ASSUME LastNInit PROVE LastNInv
    OBVIOUS
  <2>1. rows \in [Times -> 0..MaxSame] /\ 0..MaxSame \subseteq Nat
    BY LastNAssumption DEF LastNInit, Bags
  <2>2. RowsInv
    BY <2>1 DEF RowsInv, LastNInit
  <2> QED BY <2>2 DEF LastNInit, LastNInv, SearchInv, FoundIsTail, EnoughIsNewest
<1>2. LastNInv /\ [LastNNext]_lastNVars => LastNInv'
  <2> SUFFICES ASSUME LastNInv, [LastNNext]_lastNVars PROVE LastNInv'
    OBVIOUS
  <2>1. ASSUME Narrowest \/ SortShortRange PROVE LastNInv'
    <3>1. PICK b, how : how \notin {"fast", "enough"} /\ Return(b, how)
      BY <2>1 DEF Narrowest, SortShortRange
    <3> QED BY <3>1, ReturnElse
  <2>2. ASSUME Fail PROVE LastNInv'
    BY <2>2 DEF Fail, LastNInv, RowsInv, SearchInv, FoundIsTail, EnoughIsNewest
  <2>3. ASSUME UNCHANGED lastNVars PROVE LastNInv'
    BY <2>3 DEF lastNVars, LastNInv, RowsInv, SearchInv, FoundIsTail, EnoughIsNewest
  <2> QED BY <2>1, <2>2, <2>3, FirstFastKeeps, FirstSlowKeeps, NewerHalfKeeps, EnoughKeeps,
             ReachBackKeeps, StoredRowKeeps DEF LastNNext, SearchStep
<1> QED BY <1>1, <1>2, PTL DEF LastNSpec

(* Halving and reaching back skip no row and count none twice.             *)
THEOREM NoRowIsSkipped == LastNSpec => []FoundIsTail
<1>1. LastNInv => FoundIsTail
  BY DEF LastNInv
<1> QED BY <1>1, LastNInvariant, PTL

(* A range with few enough rows gives the newest Limit rows.               *)
THEOREM NewestAreReturned == LastNSpec => []EnoughIsNewest
<1>1. LastNInv => EnoughIsNewest
  BY DEF LastNInv
<1> QED BY <1>1, LastNInvariant, PTL
=============================================================================
