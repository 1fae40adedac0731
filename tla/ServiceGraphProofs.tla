-------------------------- MODULE ServiceGraphProofs --------------------------
(***************************************************************************)
(* Theorems about ServiceGraph, for any tenants, spans, intervals and      *)
(* limits.                                                                 *)
(***************************************************************************)
EXTENDS ServiceGraph, Aggregates, TLAPS

Services == {s.service : s \in Spans}
Names == Services \cup {s.db : s \in Spans} \cup {None}
GraphRows == [parent : Names, child : Names \X Names, count : Nat]
Busy == run.step # "idle"
(* What is left over when the ticker is started.                           *)
Shift == Boot % Interval

EdgeRows == [run : Nat, tenant : Tenants, at : Nat, parent : Names, child : Names \X Names, count : Nat]
Runs == [step : {"idle", "tenants", "services", "databases", "persist"}, number : Nat, start : Int, end : Nat,
         deadline : Nat, todo : SUBSET Tenants, tenant : Tenants \cup {None}, rows : SUBSET GraphRows,
         saw : SUBSET Spans, sawDb : SUBSET Spans]
GraphTypeOK ==
    /\ clock \in Nat /\ Boot <= clock /\ tick \in Nat
    /\ stored \in SUBSET Spans /\ IsFiniteSet(stored)
    /\ edges \in SUBSET EdgeRows /\ IsFiniteSet(edges)
    /\ run \in Runs
    /\ done \in SUBSET [tenant : Tenants, end : Nat, saw : SUBSET Spans, sawDb : SUBSET Spans]

(* A tick is taken up in the interval in which it is sent, a run is over   *)
(* before the next tick, and so no two runs have the same window.          *)
Multiple(x) == \E k \in Nat : x = Interval * k
TimeInv ==
    /\ \A e \in edges : Multiple(e.at) /\ e.at + Shift <= clock /\ e.run <= run.number
    /\ \A e, f \in edges : e.at = f.at <=> e.run = f.run
    /\ tick # 0 => /\ ~ Busy
                   /\ tick >= Shift /\ Multiple(tick - Shift) /\ tick <= clock /\ clock <= tick + Delay
                   /\ \A e \in edges : e.at + Shift < tick
    /\ Busy => /\ Multiple(run.end) /\ run.start = run.end - Lookbehind
               /\ run.end + Shift <= clock /\ clock <= run.deadline
               /\ run.deadline <= run.end + Shift + Delay + TaskTimeout
               /\ \A e \in edges : e.at <= run.end /\ (e.run = run.number <=> e.at = run.end)

(* What a run carries is what the queries found for its tenant.            *)
Found(rows, saw, sawDb) ==
    \E A \in Limited(ServiceGraphRows(saw), TaskLimit) :
    \E B \in IF DbLimit > 0 THEN Limited(ServiceDBGraphRows(sawDb), DbLimit) ELSE {{}} : rows = A \cup B
RunInv ==
    /\ run.step \in {"services", "databases", "persist"} => run.tenant \in Tenants /\ run.tenant \notin run.todo
    /\ Busy => \A e \in edges : e.run = run.number =>
                  run.step # "tenants" /\ e.tenant \notin run.todo /\ e.tenant # run.tenant
    /\ run.saw \subseteq InWindow(run.tenant, run.start, run.end)
    /\ run.sawDb \subseteq InWindow(run.tenant, run.start, run.end)
    /\ run.step = "databases" => DbLimit > 0 /\ run.rows \in Limited(ServiceGraphRows(run.saw), TaskLimit)
    /\ run.step = "persist" => Found(run.rows, run.saw, run.sawDb)

(* The calls that a row may stand for.                                     *)
WindowOf(e) == InWindow(e.tenant, e.at - Lookbehind, e.at)
CallsBehind(e) == {c \in Calls(WindowOf(e)) : c[1].service = e.parent /\ <<None, c[2].service>> = e.child}
DbCallsBehind(e) == {s \in DbCalls(WindowOf(e)) : s.service = e.parent /\ <<s.service, s.db>> = e.child}

(* The rows are those of two books, one per query, each with at most one   *)
(* row per run, tenant and pair of services.                               *)
OnePerRun(A) ==
    \A e, f \in A : e.run = f.run /\ e.tenant = f.tenant /\ e.parent = f.parent /\ e.child = f.child => e = f
Books(A, B) ==
    /\ edges = A \cup B /\ OnePerRun(A) /\ OnePerRun(B)
    /\ \A e \in A : e.count <= Cardinality(CallsBehind(e))
    /\ \A e \in B : e.count <= Cardinality(DbCallsBehind(e))
RowsInv == (\E A, B : Books(A, B)) /\ \A e \in edges : e.count # 0

(* The rows of a persisted window stay.                                    *)
Kept(w, r) == \E e \in edges : e.tenant = w.tenant /\ e.at = w.end /\ e.parent = r.parent /\ e.child = r.child
DoneInv ==
    \A w \in done :
        /\ w.saw \subseteq stored /\ w.sawDb \subseteq stored
        /\ \E rows \in SUBSET GraphRows : Found(rows, w.saw, w.sawDb) /\ \A r \in rows : Kept(w, r)

GraphInv == GraphTypeOK /\ TimeInv /\ RunInv /\ RowsInv /\ DoneInv

-----------------------------------------------------------------------------
(* Time.                                                                   *)

LEMMA ShiftIs ==
    /\ Shift \in Nat /\ Shift + Delay < Interval
    /\ \E k \in Nat : Boot = Interval * k + Shift
<1>1. PICK k \in Nat : Boot = Interval * k + (Boot % Interval) /\ Boot % Interval \in 0..(Interval - 1)
  BY GraphAssumption, Division
<1> QED BY <1>1, GraphAssumption DEF Shift

(* The clock, in the interval of a tick, is cut to the start of it.        *)
LEMMA TruncatedIs ==
    ASSUME NEW k \in Nat, NEW x \in Nat, Interval * k <= x, x < Interval * k + Interval
    PROVE  Truncated(x) = Interval * k
<1> DEFINE r == x - Interval * k
<1>1. Interval \in Nat \ {0} /\ Interval * k \in Nat
  BY GraphAssumption
<1>2. r \in 0..(Interval - 1) /\ x = Interval * k + r
  BY <1>1
<1> HIDE DEF r
<1>3. (Interval * k + r) \div Interval = k
  BY <1>1, <1>2
<1>4. k * Interval = Interval * k
  BY <1>1
<1> QED BY <1>2, <1>3, <1>4 DEF Truncated

LEMMA MultiplesApart ==
    ASSUME NEW x \in Nat, NEW y \in Nat, Multiple(x), Multiple(y), x < y
    PROVE  x + Interval <= y
<1>1. PICK k \in Nat : x = Interval * k
  BY DEF Multiple
<1>2. PICK m \in Nat : y = Interval * m
  BY DEF Multiple
<1>3. Interval \in Nat \ {0}
  BY GraphAssumption
<1>4. m >= k + 1
  <2> SUFFICES ASSUME m <= k PROVE FALSE
    OBVIOUS
  <2>1. Interval * m <= Interval * k
    BY <1>3
  <2> QED BY <1>1, <1>2, <2>1
<1>5. Interval * (k + 1) <= Interval * m
  BY <1>3, <1>4
<1>6. Interval * (k + 1) = Interval * k + Interval
  BY <1>3
<1> QED BY <1>1, <1>2, <1>5, <1>6

(* Ticks come Shift after the multiples of the interval.                   *)
LEMMA TickTimes ==
    ASSUME NEW x \in Nat, Boot <= x, (x - Boot) % Interval = 0
    PROVE  x >= Shift /\ Multiple(x - Shift)
<1>1. PICK b \in Nat : Boot = Interval * b + Shift
  BY ShiftIs
<1>2. Interval \in Nat \ {0} /\ Boot \in Nat /\ x - Boot \in Nat
  BY GraphAssumption
<1>3. PICK k \in Nat : x - Boot = Interval * k + ((x - Boot) % Interval)
  BY <1>2, Division
<1>4. x - Boot = Interval * k
  BY <1>2, <1>3
<1>5. Interval * (b + k) = Interval * b + Interval * k
  BY <1>2
<1>6. Interval * b \in Nat /\ Interval * k \in Nat /\ Shift \in Nat
  BY <1>2, ShiftIs
<1>7. x - Shift = Interval * (b + k) /\ x >= Shift
  BY <1>1, <1>2, <1>4, <1>5, <1>6
<1> QED BY <1>7 DEF Multiple

-----------------------------------------------------------------------------
(* What the queries find.                                                  *)

LEMMA LimitedIs ==
    ASSUME NEW G, NEW l, NEW A \in Limited(G, l)
    PROVE  A \subseteq G /\ (A = G \/ Cardinality(A) = l)
BY DEF Limited, kSubset

LEMMA CallsType ==
    ASSUME NEW S \in SUBSET Spans, IsFiniteSet(S)
    PROVE  /\ Calls(S) \subseteq S \X S /\ IsFiniteSet(Calls(S))
           /\ DbCalls(S) \subseteq S /\ IsFiniteSet(DbCalls(S))
<1>1. Calls(S) \subseteq S \X S /\ DbCalls(S) \subseteq S
  BY DEF Calls, DbCalls
<1>2. IsFiniteSet(S \X S)
  BY FS_Product
<1> QED BY <1>1, <1>2, FS_Subset

(* A row stands for the calls of its pair.                                 *)
CallsIn(S, r) == {c \in Calls(S) : c[1].service = r.parent /\ <<None, c[2].service>> = r.child}
DbCallsIn(S, r) == {s \in DbCalls(S) : s.service = r.parent /\ <<s.service, s.db>> = r.child}

LEMMA RowsAre ==
    ASSUME NEW S \in SUBSET Spans, IsFiniteSet(S)
    PROVE  /\ \A r \in ServiceGraphRows(S) :
                 r \in GraphRows /\ r.count = Cardinality(CallsIn(S, r)) /\ r.count # 0
           /\ \A r \in ServiceDBGraphRows(S) :
                 r \in GraphRows /\ r.count = Cardinality(DbCallsIn(S, r)) /\ r.count # 0
<1>1. ASSUME NEW r \in ServiceGraphRows(S)
      PROVE  r \in GraphRows /\ r.count = Cardinality(CallsIn(S, r)) /\ r.count # 0
  <2>1. PICK c \in Calls(S) :
           r = [parent |-> c[1].service, child |-> <<None, c[2].service>>,
                count |-> Cardinality({d \in Calls(S) : d[1].service = c[1].service /\ d[2].service = c[2].service})]
    BY DEF ServiceGraphRows
  <2>2. {d \in Calls(S) : d[1].service = c[1].service /\ d[2].service = c[2].service} = CallsIn(S, r)
    BY <2>1 DEF CallsIn
  <2>3. c \in CallsIn(S, r)
    BY <2>1 DEF CallsIn
  <2>4. IsFiniteSet(CallsIn(S, r)) /\ Cardinality(CallsIn(S, r)) \in Nat
    BY CallsType, FS_Subset, FS_CardinalityType DEF CallsIn
  <2>5. Cardinality(CallsIn(S, r)) # 0
    BY <2>3, <2>4, FS_EmptySet
  <2>6. c[1].service \in Names /\ c[2].service \in Names /\ None \in Names
    BY CallsType DEF Names, Services
  <2> QED BY <2>1, <2>2, <2>4, <2>5, <2>6 DEF GraphRows
<1>2. ASSUME NEW r \in ServiceDBGraphRows(S)
      PROVE  r \in GraphRows /\ r.count = Cardinality(DbCallsIn(S, r)) /\ r.count # 0
  <2>1. PICK s \in DbCalls(S) :
           r = [parent |-> s.service, child |-> <<s.service, s.db>>,
                count |-> Cardinality({d \in DbCalls(S) : d.service = s.service /\ d.db = s.db})]
    BY DEF ServiceDBGraphRows
  <2>2. {d \in DbCalls(S) : d.service = s.service /\ d.db = s.db} = DbCallsIn(S, r)
    BY <2>1 DEF DbCallsIn
  <2>3. s \in DbCallsIn(S, r)
    BY <2>1 DEF DbCallsIn
  <2>4. IsFiniteSet(DbCallsIn(S, r)) /\ Cardinality(DbCallsIn(S, r)) \in Nat
    BY CallsType, FS_Subset, FS_CardinalityType DEF DbCallsIn
  <2>5. Cardinality(DbCallsIn(S, r)) # 0
    BY <2>3, <2>4, FS_EmptySet
  <2>6. s.service \in Names /\ s.db \in Names
    BY CallsType DEF Names, Services
  <2> QED BY <2>1, <2>2, <2>4, <2>5, <2>6 DEF GraphRows
<1> QED BY <1>1, <1>2

(* A query finds one row per pair.                                         *)
OnePerPair(A) == \A r, s \in A : r.parent = s.parent /\ r.child = s.child => r = s

LEMMA RowsOnePerPair ==
    ASSUME NEW S \in SUBSET Spans, IsFiniteSet(S)
    PROVE  OnePerPair(ServiceGraphRows(S)) /\ OnePerPair(ServiceDBGraphRows(S))
<1>1. ASSUME NEW r \in GraphRows, NEW s \in GraphRows, r.parent = s.parent, r.child = s.child, r.count = s.count
      PROVE  r = s
  BY <1>1 DEF GraphRows
<1>2. ASSUME NEW r \in ServiceGraphRows(S), NEW s \in ServiceGraphRows(S), r.parent = s.parent, r.child = s.child
      PROVE  r = s
  <2>1. CallsIn(S, r) = CallsIn(S, s)
    BY <1>2 DEF CallsIn
  <2> QED BY <1>1, <1>2, <2>1, RowsAre
<1>3. ASSUME NEW r \in ServiceDBGraphRows(S), NEW s \in ServiceDBGraphRows(S), r.parent = s.parent, r.child = s.child
      PROVE  r = s
  <2>1. DbCallsIn(S, r) = DbCallsIn(S, s)
    BY <1>3 DEF DbCallsIn
  <2> QED BY <1>1, <1>3, <2>1, RowsAre
<1> QED BY <1>2, <1>3 DEF OnePerPair

-----------------------------------------------------------------------------
(* Init, and what no action takes away.                                    *)

LEMMA IdleType == /\ Idle \in Runs /\ Idle.step = "idle" /\ Idle.number = 0 /\ Idle.saw = {} /\ Idle.sawDb = {}
BY DEF Idle, Runs

LEMMA InitGraph == Init => GraphInv
<1> SUFFICES ASSUME Init PROVE GraphInv
  OBVIOUS
<1>1. GraphTypeOK
  BY IdleType, GraphAssumption, FS_EmptySet DEF Init, GraphTypeOK
<1>2. TimeInv /\ RunInv /\ DoneInv
  BY IdleType DEF Init, TimeInv, RunInv, DoneInv, Busy
<1>3. Books({}, {}) /\ edges = {}
  BY DEF Init, Books, OnePerRun
<1> QED BY <1>1, <1>2, <1>3 DEF GraphInv, RowsInv

LEMMA WindowsAre ==
    ASSUME stored \in SUBSET Spans, IsFiniteSet(stored), NEW t, NEW lo, NEW hi
    PROVE  InWindow(t, lo, hi) \in SUBSET Spans /\ InWindow(t, lo, hi) \in SUBSET stored /\ IsFiniteSet(InWindow(t, lo, hi))
BY FS_Subset DEF InWindow

LEMMA CallsGrow ==
    ASSUME NEW S \in SUBSET Spans, NEW U \in SUBSET Spans, S \subseteq U, IsFiniteSet(U), NEW r
    PROVE  /\ Cardinality(CallsIn(S, r)) \in Nat /\ Cardinality(CallsIn(U, r)) \in Nat
           /\ Cardinality(DbCallsIn(S, r)) \in Nat /\ Cardinality(DbCallsIn(U, r)) \in Nat
           /\ Cardinality(CallsIn(S, r)) <= Cardinality(CallsIn(U, r))
           /\ Cardinality(DbCallsIn(S, r)) <= Cardinality(DbCallsIn(U, r))
<1>1. CallsIn(S, r) \subseteq CallsIn(U, r) /\ CallsIn(U, r) \subseteq Calls(U)
  BY DEF CallsIn, Calls
<1>2. DbCallsIn(S, r) \subseteq DbCallsIn(U, r) /\ DbCallsIn(U, r) \subseteq DbCalls(U)
  BY DEF DbCallsIn, DbCalls
<1>3. IsFiniteSet(CallsIn(U, r)) /\ IsFiniteSet(DbCallsIn(U, r))
  BY <1>1, <1>2, CallsType, FS_Subset
<1> QED BY <1>1, <1>2, <1>3, FS_Subset, FS_CardinalityType

LEMMA BehindIs ==
    ASSUME NEW e PROVE CallsBehind(e) = CallsIn(WindowOf(e), e) /\ DbCallsBehind(e) = DbCallsIn(WindowOf(e), e)
BY DEF CallsBehind, DbCallsBehind, CallsIn, DbCallsIn

(* Spans are not taken away, so a row stands for as many calls as before.  *)
LEMMA StandsFor ==
    ASSUME GraphTypeOK, GraphTypeOK', stored \subseteq stored', NEW e \in EdgeRows
    PROVE  /\ e.count <= Cardinality(CallsBehind(e)) => e.count <= Cardinality(CallsBehind(e)')
           /\ e.count <= Cardinality(DbCallsBehind(e)) => e.count <= Cardinality(DbCallsBehind(e)')
<1> DEFINE S == WindowOf(e)
           U == WindowOf(e)'
<1>1. S \in SUBSET Spans /\ U \in SUBSET Spans /\ S \subseteq U /\ IsFiniteSet(U)
  <2>1. S \in SUBSET Spans /\ S \subseteq U
    BY DEF GraphTypeOK, WindowOf, InWindow
  <2>2. U \in SUBSET stored' /\ stored' \in SUBSET Spans /\ IsFiniteSet(stored')
    BY DEF GraphTypeOK, WindowOf, InWindow
  <2> QED BY <2>1, <2>2, FS_Subset
<1>2. CallsBehind(e) = CallsIn(S, e) /\ DbCallsBehind(e) = DbCallsIn(S, e)
  BY BehindIs
<1>3. CallsBehind(e)' = CallsIn(U, e) /\ DbCallsBehind(e)' = DbCallsIn(U, e)
  BY DEF CallsBehind, DbCallsBehind, CallsIn, DbCallsIn
<1>4. e.count \in Nat
  BY DEF EdgeRows
<1> HIDE DEF S, U
<1>5. /\ Cardinality(CallsIn(S, e)) \in Nat /\ Cardinality(CallsIn(U, e)) \in Nat
      /\ Cardinality(DbCallsIn(S, e)) \in Nat /\ Cardinality(DbCallsIn(U, e)) \in Nat
      /\ Cardinality(CallsIn(S, e)) <= Cardinality(CallsIn(U, e))
      /\ Cardinality(DbCallsIn(S, e)) <= Cardinality(DbCallsIn(U, e))
  BY <1>1, CallsGrow
<1> QED BY <1>2, <1>3, <1>4, <1>5

LEMMA SameRows ==
    ASSUME GraphTypeOK, GraphTypeOK', RowsInv, DoneInv, UNCHANGED <<edges, done>>, stored \subseteq stored'
    PROVE  RowsInv' /\ DoneInv'
<1>1. PICK A, B : Books(A, B)
  BY DEF RowsInv
<1>2. A \subseteq EdgeRows /\ B \subseteq EdgeRows
  BY <1>1 DEF Books, GraphTypeOK
<1>3. /\ \A e \in A : e.count <= Cardinality(CallsBehind(e)')
      /\ \A e \in B : e.count <= Cardinality(DbCallsBehind(e)')
  BY <1>1, <1>2, StandsFor DEF Books
<1>4. Books(A, B)'
  BY <1>1, <1>3 DEF Books, OnePerRun
<1>5. DoneInv'
  BY DEF DoneInv, Kept
<1> QED BY <1>4, <1>5 DEF RowsInv

-----------------------------------------------------------------------------
(* The steps of a run.                                                     *)

(* On to the next tenant, or to the end of the run.                        *)
LEMMA NextTenantIs ==
    ASSUME run \in Runs, NEW todo \in SUBSET Tenants, NEW r \in NextTenant(todo)
    PROVE  /\ r \in Runs /\ r.number = run.number /\ r.saw = {} /\ r.sawDb = {}
           /\ \/ r.step = "idle"
              \/ /\ r.step = "services" /\ r.tenant \in todo /\ r.todo = todo \ {r.tenant}
                 /\ r.start = run.start /\ r.end = run.end /\ r.deadline = run.deadline
                 /\ todo # {}
<1>1. CASE todo = {}
  <2>1. r = [Idle EXCEPT !.number = run.number]
    BY <1>1 DEF NextTenant, EndRun
  <2>2. run.number \in Nat
    BY DEF Runs
  <2> QED BY <2>1, <2>2 DEF Idle, Runs
<1>2. CASE todo # {}
  <2>1. PICK t \in todo :
           r = [run EXCEPT !.step = "services", !.todo = todo \ {t}, !.tenant = t, !.saw = {}, !.sawDb = {}]
    BY <1>2 DEF NextTenant
  <2>2. r \in Runs
    BY <2>1 DEF Runs
  <2>3. /\ r.step = "services" /\ r.todo = todo \ {t} /\ r.tenant = t /\ r.saw = {} /\ r.sawDb = {}
        /\ r.number = run.number /\ r.start = run.start /\ r.end = run.end /\ r.deadline = run.deadline
    BY <2>1 DEF Runs
  <2> QED BY <1>2, <2>2, <2>3
<1> QED BY <1>1, <1>2

LEMMA NextTenantKeeps ==
    ASSUME GraphTypeOK, TimeInv, Busy, NEW todo \in SUBSET Tenants, run' \in NextTenant(todo),
           UNCHANGED <<clock, tick>>, edges' \in SUBSET EdgeRows,
           \A e \in edges' : e \in edges \/ (e.run = run.number /\ e.at = run.end),
           \A e \in edges' : e.run = run.number => e.tenant \notin todo
    PROVE  run' \in Runs /\ TimeInv' /\ RunInv'
<1>1. run \in Runs
  BY DEF GraphTypeOK
<1>2. /\ run' \in Runs /\ run'.number = run.number /\ run'.saw = {} /\ run'.sawDb = {}
      /\ \/ run'.step = "idle"
         \/ /\ run'.step = "services" /\ run'.tenant \in todo /\ run'.todo = todo \ {run'.tenant}
            /\ run'.start = run.start /\ run'.end = run.end /\ run'.deadline = run.deadline
  BY <1>1, NextTenantIs
<1>3. tick = 0
  BY DEF TimeInv
<1>4. \A e \in edges' : /\ Multiple(e.at) /\ e.at + Shift <= clock /\ e.run <= run.number
                        /\ e.at <= run.end /\ (e.run = run.number <=> e.at = run.end)
  <2> SUFFICES ASSUME NEW e \in edges'
               PROVE  /\ Multiple(e.at) /\ e.at + Shift <= clock /\ e.run <= run.number
                      /\ e.at <= run.end /\ (e.run = run.number <=> e.at = run.end)
    OBVIOUS
  <2>1. CASE e \in edges
    BY <2>1 DEF TimeInv
  <2>2. CASE e.run = run.number /\ e.at = run.end
    <3>1. run.number \in Nat /\ run.end \in Nat
      BY <1>1 DEF Runs
    <3> QED BY <2>2, <3>1 DEF TimeInv
  <2> QED BY <2>1, <2>2
<1>5. \A e, f \in edges' : e.at = f.at <=> e.run = f.run
  <2> SUFFICES ASSUME NEW e \in edges', NEW f \in edges' PROVE e.at = f.at <=> e.run = f.run
    OBVIOUS
  <2>1. CASE e \in edges /\ f \in edges
    BY <2>1 DEF TimeInv
  <2>2. CASE e \notin edges \/ f \notin edges
    BY <1>4, <2>2
  <2> QED BY <2>1, <2>2
<1>6. TimeInv'
  <2>1. Busy' => /\ Multiple(run'.end) /\ run'.start = run'.end - Lookbehind
                 /\ run'.end + Shift <= clock' /\ clock' <= run'.deadline
                 /\ run'.deadline <= run'.end + Shift + Delay + TaskTimeout
                 /\ \A e \in edges' : e.at <= run'.end /\ (e.run = run'.number <=> e.at = run'.end)
    BY <1>2, <1>4 DEF TimeInv, Busy
  <2> QED BY <1>2, <1>3, <1>4, <1>5, <2>1 DEF TimeInv, Multiple, Shift
<1>7. RunInv'
  BY <1>2 DEF RunInv, Busy
<1> QED BY <1>2, <1>6, <1>7

LEMMA StartRunKeeps == GraphInv /\ StartRun => GraphInv'
<1> SUFFICES ASSUME GraphInv, StartRun PROVE GraphInv'
  OBVIOUS
<1> DEFINE new == [Idle EXCEPT !.step = "tenants", !.number = run.number + 1, !.deadline = clock + TaskTimeout,
                               !.end = Truncated(clock), !.start = Truncated(clock) - Lookbehind]
<1>0. GraphTypeOK /\ TimeInv /\ RunInv /\ RowsInv /\ DoneInv
  BY DEF GraphInv
<1>1. /\ ~ Busy /\ tick # 0 /\ tick' = 0 /\ run' = new /\ UNCHANGED <<clock, stored, edges, open, done>>
  BY DEF StartRun, Busy
<1>2. /\ clock \in Nat /\ tick \in Nat /\ run.number \in Nat /\ Interval \in Nat \ {0} /\ Delay \in Nat
      /\ TaskTimeout \in Nat /\ Lookbehind \in Nat /\ Shift \in Nat /\ Shift + Delay < Interval
      /\ \A e \in edges : e.at \in Nat /\ e.run \in Nat
  BY <1>0, GraphAssumption, ShiftIs DEF GraphTypeOK, Runs, EdgeRows
<1>3. PICK k \in Nat : tick - Shift = Interval * k
  BY <1>0, <1>1 DEF TimeInv, Multiple
<1>4. /\ tick >= Shift /\ tick <= clock /\ clock <= tick + Delay
      /\ \A e \in edges : e.at + Shift < tick /\ e.run <= run.number
  BY <1>0, <1>1 DEF TimeInv
<1>5. Truncated(clock) = Interval * k /\ Interval * k \in Nat
  <2>1. Interval * k \in Nat
    BY <1>2
  <2>2. Interval * k <= clock /\ clock < Interval * k + Interval
    BY <1>2, <1>3, <1>4, <2>1
  <2> QED BY <1>2, <2>1, <2>2, TruncatedIs
<1> DEFINE end == Truncated(clock)
<1>6. end \in Nat /\ end = tick - Shift /\ Multiple(end)
  BY <1>3, <1>5 DEF Multiple
<1> HIDE DEF end
<1>7. /\ new \in Runs /\ new.step = "tenants" /\ new.number = run.number + 1 /\ new.deadline = clock + TaskTimeout
      /\ new.end = end /\ new.start = end - Lookbehind /\ new.saw = {} /\ new.sawDb = {}
  <2>1. run.number + 1 \in Nat /\ clock + TaskTimeout \in Nat /\ end \in Nat /\ end - Lookbehind \in Int
    BY <1>2, <1>6
  <2> QED BY <2>1 DEF Idle, Runs, end
<1> HIDE DEF new
<1>8. GraphTypeOK'
  BY <1>0, <1>1, <1>7 DEF GraphTypeOK
<1>9. \A e \in edges : e.run # run.number + 1 /\ e.run <= run.number + 1 /\ e.at < end
  BY <1>2, <1>4, <1>6
<1>10. TimeInv'
  <2>1. /\ end + Shift <= clock /\ clock <= clock + TaskTimeout
        /\ clock + TaskTimeout <= end + Shift + Delay + TaskTimeout
    BY <1>2, <1>4, <1>6
  <2>2. Busy' => /\ Multiple(run'.end) /\ run'.start = run'.end - Lookbehind
                 /\ run'.end + Shift <= clock' /\ clock' <= run'.deadline
                 /\ run'.deadline <= run'.end + Shift + Delay + TaskTimeout
                 /\ \A e \in edges' : e.at <= run'.end /\ (e.run = run'.number <=> e.at = run'.end)
    <3>1. \A e \in edges : e.at <= end /\ e.at # end
      BY <1>2, <1>6, <1>9
    <3> QED BY <1>1, <1>6, <1>7, <1>9, <2>1, <3>1
  <2>3. \A e \in edges' : Multiple(e.at) /\ e.at + Shift <= clock' /\ e.run <= run'.number
    BY <1>0, <1>1, <1>7, <1>9 DEF TimeInv
  <2>4. tick' = 0 /\ \A e, f \in edges' : e.at = f.at <=> e.run = f.run
    BY <1>0, <1>1 DEF TimeInv
  <2> QED BY <2>2, <2>3, <2>4 DEF TimeInv, Multiple, Shift
<1>11. RunInv'
  BY <1>1, <1>7, <1>9 DEF RunInv, Busy
<1> QED BY <1>0, <1>1, <1>8, <1>10, <1>11, SameRows DEF GraphInv

LEMMA GetTenantIDsKeeps == GraphInv /\ GetTenantIDs => GraphInv'
<1> SUFFICES ASSUME GraphInv, GetTenantIDs PROVE GraphInv'
  OBVIOUS
<1>0. GraphTypeOK /\ TimeInv /\ RunInv /\ RowsInv /\ DoneInv
  BY DEF GraphInv
<1>1. run.step = "tenants" /\ Busy /\ UNCHANGED <<clock, tick, stored, edges, open, done>>
  BY DEF GetTenantIDs, Busy
<1>2. PICK todo \in SUBSET Tenants : run' \in NextTenant(todo)
  <2>1. CASE run' = EndRun
    BY <2>1 DEF NextTenant
  <2>2. CASE run' \in NextTenant({s.tenant : s \in stored})
    <3>1. {s.tenant : s \in stored} \in SUBSET Tenants
      BY <1>0 DEF GraphTypeOK, Tenants
    <3> QED BY <2>2, <3>1
  <2> QED BY <2>1, <2>2 DEF GetTenantIDs
<1>3. edges' \in SUBSET EdgeRows /\ (\A e \in edges' : e \in edges) /\ \A e \in edges' : e.run # run.number
  BY <1>0, <1>1 DEF GraphTypeOK, RunInv
<1>4. run' \in Runs /\ TimeInv' /\ RunInv'
  BY <1>0, <1>1, <1>2, <1>3, NextTenantKeeps
<1>5. GraphTypeOK'
  BY <1>0, <1>1, <1>4 DEF GraphTypeOK
<1> QED BY <1>0, <1>1, <1>4, <1>5, SameRows DEF GraphInv

LEMMA QueryFailsKeeps == GraphInv /\ QueryFails => GraphInv'
<1> SUFFICES ASSUME GraphInv, QueryFails PROVE GraphInv'
  OBVIOUS
<1>0. GraphTypeOK /\ TimeInv /\ RunInv /\ RowsInv /\ DoneInv
  BY DEF GraphInv
<1>1. Busy /\ run' \in NextTenant(run.todo) /\ UNCHANGED <<clock, tick, stored, edges, open, done>>
  BY DEF QueryFails, Busy
<1>2. run.todo \in SUBSET Tenants
  BY <1>0 DEF GraphTypeOK, Runs
<1>3. /\ edges' \in SUBSET EdgeRows /\ \A e \in edges' : e \in edges
      /\ \A e \in edges' : e.run = run.number => e.tenant \notin run.todo
  BY <1>0, <1>1 DEF GraphTypeOK, RunInv
<1>4. run' \in Runs /\ TimeInv' /\ RunInv'
  BY <1>0, <1>1, <1>2, <1>3, NextTenantKeeps
<1>5. GraphTypeOK'
  BY <1>0, <1>1, <1>4 DEF GraphTypeOK
<1> QED BY <1>0, <1>1, <1>4, <1>5, SameRows DEF GraphInv

(* A query changes what the run has found, and its next step.              *)
LEMMA QueryKeeps ==
    ASSUME GraphInv, Busy, run.step # "tenants", UNCHANGED <<clock, tick, stored, edges, open, done>>,
           NEW s \in {"databases", "persist"}, NEW rows \in SUBSET GraphRows,
           NEW saw \in SUBSET InWindow(run.tenant, run.start, run.end),
           NEW sawDb \in SUBSET InWindow(run.tenant, run.start, run.end),
           run' = [run EXCEPT !.step = s, !.rows = rows, !.saw = saw, !.sawDb = sawDb],
           s = "databases" => DbLimit > 0 /\ rows \in Limited(ServiceGraphRows(saw), TaskLimit),
           s = "persist" => Found(rows, saw, sawDb)
    PROVE  GraphInv'
<1>0. GraphTypeOK /\ TimeInv /\ RunInv /\ RowsInv /\ DoneInv
  BY DEF GraphInv
<1>1. run \in Runs /\ saw \in SUBSET Spans /\ sawDb \in SUBSET Spans
  BY <1>0, WindowsAre DEF GraphTypeOK
<1>2. run' \in Runs
  BY <1>1 DEF Runs
<1>3. /\ run'.step = s /\ run'.rows = rows /\ run'.saw = saw /\ run'.sawDb = sawDb
      /\ run'.number = run.number /\ run'.start = run.start /\ run'.end = run.end /\ run'.deadline = run.deadline
      /\ run'.todo = run.todo /\ run'.tenant = run.tenant
  BY <1>1 DEF Runs
<1>4. GraphTypeOK'
  BY <1>0, <1>2 DEF GraphTypeOK
<1>5. TimeInv'
  BY <1>0, <1>3 DEF TimeInv, Busy, Multiple, Shift
<1>6. InWindow(run.tenant, run.start, run.end)' = InWindow(run.tenant, run.start, run.end)
  BY <1>3 DEF InWindow
<1>7. RunInv'
  <2>1. /\ run.step \in {"services", "databases", "persist"}
        /\ run.tenant \in Tenants /\ run.tenant \notin run.todo
        /\ \A e \in edges : e.run = run.number => e.tenant \notin run.todo /\ e.tenant # run.tenant
    BY <1>0, <1>1 DEF RunInv, Busy, Runs
  <2> QED BY <1>3, <1>6, <2>1 DEF RunInv, Found
<1> QED BY <1>0, <1>4, <1>5, <1>7, SameRows DEF GraphInv

LEMMA RowsType ==
    ASSUME stored \in SUBSET Spans, IsFiniteSet(stored), NEW S \in SUBSET stored
    PROVE  /\ ServiceGraphRows(S) \in SUBSET GraphRows /\ IsFiniteSet(ServiceGraphRows(S))
           /\ ServiceDBGraphRows(S) \in SUBSET GraphRows /\ IsFiniteSet(ServiceDBGraphRows(S))
<1>1. S \in SUBSET Spans /\ IsFiniteSet(S)
  BY FS_Subset
<1>2. ServiceGraphRows(S) \in SUBSET GraphRows /\ ServiceDBGraphRows(S) \in SUBSET GraphRows
  BY <1>1, RowsAre
<1>3. IsFiniteSet(ServiceGraphRows(S))
  <2> DEFINE f == [c \in Calls(S) |->
                     [parent |-> c[1].service, child |-> <<None, c[2].service>>,
                      count |-> Cardinality({d \in Calls(S) : d[1].service = c[1].service /\ d[2].service = c[2].service})]]
  <2>1. f \in Surjection(Calls(S), ServiceGraphRows(S))
    <3>1. f \in [Calls(S) -> ServiceGraphRows(S)]
      BY DEF ServiceGraphRows
    <3>2. \A r \in ServiceGraphRows(S) : \E c \in Calls(S) : f[c] = r
      BY DEF ServiceGraphRows
    <3> QED BY <3>1, <3>2, Zenon DEF Surjection
  <2> HIDE DEF f
  <2> QED BY <1>1, <2>1, CallsType, FS_Surjection
<1>4. IsFiniteSet(ServiceDBGraphRows(S))
  <2> DEFINE f == [c \in DbCalls(S) |->
                     [parent |-> c.service, child |-> <<c.service, c.db>>,
                      count |-> Cardinality({d \in DbCalls(S) : d.service = c.service /\ d.db = c.db})]]
  <2>1. f \in Surjection(DbCalls(S), ServiceDBGraphRows(S))
    <3>1. f \in [DbCalls(S) -> ServiceDBGraphRows(S)]
      BY DEF ServiceDBGraphRows
    <3>2. \A r \in ServiceDBGraphRows(S) : \E c \in DbCalls(S) : f[c] = r
      BY DEF ServiceDBGraphRows
    <3> QED BY <3>1, <3>2, Zenon DEF Surjection
  <2> HIDE DEF f
  <2> QED BY <1>1, <2>1, CallsType, FS_Surjection
<1> QED BY <1>2, <1>3, <1>4

LEMMA ServicesKeeps == GraphInv /\ GetServiceGraphTimeRange => GraphInv'
<1> SUFFICES ASSUME GraphInv, GetServiceGraphTimeRange PROVE GraphInv'
  OBVIOUS
<1> DEFINE spans == InWindow(run.tenant, run.start, run.end)
           s == IF DbLimit > 0 THEN "databases" ELSE "persist"
<1>0. GraphTypeOK /\ RunInv
  BY DEF GraphInv
<1>1. run.step = "services" /\ Busy /\ UNCHANGED <<clock, tick, stored, edges, open, done>>
  BY DEF GetServiceGraphTimeRange, Busy
<1>2. PICK rows \in Limited(ServiceGraphRows(spans), TaskLimit) :
         run' = [run EXCEPT !.step = s, !.rows = rows, !.saw = spans]
  BY DEF GetServiceGraphTimeRange
<1>3. spans \in SUBSET stored /\ stored \in SUBSET Spans /\ IsFiniteSet(stored)
  BY <1>0 DEF GraphTypeOK, InWindow
<1>4. rows \in SUBSET GraphRows
  BY <1>2, <1>3, LimitedIs, RowsType
<1>5. run' = [run EXCEPT !.step = s, !.rows = rows, !.saw = spans, !.sawDb = run.sawDb]
  BY <1>0, <1>2 DEF GraphTypeOK, Runs
<1>6. run.sawDb \in SUBSET spans /\ spans \in SUBSET spans
  BY <1>0 DEF RunInv
<1>7. s = "persist" => Found(rows, spans, run.sawDb)
  <2> SUFFICES ASSUME ~ (DbLimit > 0) PROVE Found(rows, spans, run.sawDb)
    OBVIOUS
  <2>1. rows = rows \cup {} /\ {} \in {{}}
    OBVIOUS
  <2> QED BY <1>2, <2>1 DEF Found
<1>8. s \in {"databases", "persist"}
  OBVIOUS
<1>9. s = "databases" => DbLimit > 0 /\ rows \in Limited(ServiceGraphRows(spans), TaskLimit)
  BY <1>2
<1>10. run.step # "tenants"
  BY <1>1
<1> HIDE DEF s
<1> QED BY <1>1, <1>4, <1>5, <1>6, <1>7, <1>8, <1>9, <1>10, QueryKeeps

LEMMA DatabasesKeeps == GraphInv /\ GetServiceDBGraphTimeRange => GraphInv'
<1> SUFFICES ASSUME GraphInv, GetServiceDBGraphTimeRange PROVE GraphInv'
  OBVIOUS
<1> DEFINE spans == InWindow(run.tenant, run.start, run.end)
<1>0. GraphTypeOK /\ RunInv
  BY DEF GraphInv
<1>1. run.step = "databases" /\ Busy /\ UNCHANGED <<clock, tick, stored, edges, open, done>>
  BY DEF GetServiceDBGraphTimeRange, Busy
<1>2. PICK found \in Limited(ServiceDBGraphRows(spans), DbLimit) :
         run' = [run EXCEPT !.step = "persist", !.rows = run.rows \cup found, !.sawDb = spans]
  BY DEF GetServiceDBGraphTimeRange
<1>3. spans \in SUBSET stored /\ stored \in SUBSET Spans /\ IsFiniteSet(stored)
  BY <1>0 DEF GraphTypeOK, InWindow
<1> DEFINE rows == run.rows \cup found
<1>4. rows \in SUBSET GraphRows
  <2>1. run.rows \in SUBSET GraphRows
    BY <1>0 DEF GraphTypeOK, Runs
  <2>2. found \in SUBSET GraphRows
    BY <1>2, <1>3, LimitedIs, RowsType
  <2> QED BY <2>1, <2>2
<1>5. run' = [run EXCEPT !.step = "persist", !.rows = rows, !.saw = run.saw, !.sawDb = spans]
  BY <1>0, <1>2 DEF GraphTypeOK, Runs
<1>6. run.saw \in SUBSET spans /\ spans \in SUBSET spans
  BY <1>0 DEF RunInv
<1>7. Found(rows, run.saw, spans)
  <2>1. run.rows \in Limited(ServiceGraphRows(run.saw), TaskLimit)
    BY <1>0, <1>1 DEF RunInv
  <2>2. found \in IF DbLimit > 0 THEN Limited(ServiceDBGraphRows(spans), DbLimit) ELSE {{}}
    <3>1. DbLimit > 0
      BY <1>0, <1>1 DEF RunInv
    <3> QED BY <1>2, <3>1
  <2> QED BY <2>1, <2>2 DEF Found
<1>8. run.step # "tenants"
  BY <1>1
<1> HIDE DEF rows
<1> QED BY <1>1, <1>4, <1>5, <1>6, <1>7, <1>8, QueryKeeps

(* The rows under which a run stores what it found.                        *)
EdgeOf(r) == [run |-> run.number, tenant |-> run.tenant, at |-> run.end,
              parent |-> r.parent, child |-> r.child, count |-> r.count]

LEMMA EdgeOfIs ==
    ASSUME run \in Runs, run.tenant \in Tenants, NEW r \in GraphRows
    PROVE  /\ EdgeOf(r) \in EdgeRows
           /\ EdgeOf(r).run = run.number /\ EdgeOf(r).tenant = run.tenant /\ EdgeOf(r).at = run.end
           /\ EdgeOf(r).parent = r.parent /\ EdgeOf(r).child = r.child /\ EdgeOf(r).count = r.count
BY DEF EdgeOf, EdgeRows, Runs, GraphRows

(* A book to which the rows of one query are added.                        *)
LEMMA BookGrows ==
    ASSUME run \in Runs, run.tenant \in Tenants, NEW A \in SUBSET EdgeRows, OnePerRun(A),
           \A e \in A : e.run = run.number => e.tenant # run.tenant,
           NEW R \in SUBSET GraphRows, OnePerPair(R)
    PROVE  OnePerRun(A \cup {EdgeOf(r) : r \in R})
<1> DEFINE N == {EdgeOf(r) : r \in R}
<1>1. ASSUME NEW e \in N, NEW f \in N, e.parent = f.parent, e.child = f.child PROVE e = f
  <2>1. PICK r \in R : e = EdgeOf(r)
    OBVIOUS
  <2>2. PICK q \in R : f = EdgeOf(q)
    OBVIOUS
  <2>3. r.parent = q.parent /\ r.child = q.child
    BY <1>1, <2>1, <2>2, EdgeOfIs
  <2> QED BY <2>1, <2>2, <2>3 DEF OnePerPair
<1>2. \A e \in N : e.run = run.number /\ e.tenant = run.tenant
  BY EdgeOfIs
<1> HIDE DEF N
<1> SUFFICES ASSUME NEW e \in A \cup N, NEW f \in A \cup N,
                    e.run = f.run, e.tenant = f.tenant, e.parent = f.parent, e.child = f.child
             PROVE  e = f
  BY DEF OnePerRun, N
<1>3. CASE e \in N /\ f \in N
  BY <1>1, <1>3
<1>4. CASE e \in A /\ f \in A
  BY <1>4 DEF OnePerRun
<1>5. CASE ~ (e \in N /\ f \in N) /\ ~ (e \in A /\ f \in A)
  BY <1>2, <1>5
<1> QED BY <1>3, <1>4, <1>5

LEMMA PersistKeeps == GraphInv /\ PersistServiceGraph => GraphInv'
<1> SUFFICES ASSUME GraphInv, PersistServiceGraph PROVE GraphInv'
  OBVIOUS
<1>0. GraphTypeOK /\ TimeInv /\ RunInv /\ RowsInv /\ DoneInv
  BY DEF GraphInv
<1> DEFINE N(R) == {EdgeOf(r) : r \in R}
           w == [tenant |-> run.tenant, end |-> run.end, saw |-> run.saw, sawDb |-> run.sawDb]
<1>1. /\ run.step = "persist" /\ Busy /\ UNCHANGED <<clock, tick, stored, open>>
      /\ edges' = edges \cup N(run.rows) /\ done' = done \cup {w} /\ run' \in NextTenant(run.todo)
  BY DEF PersistServiceGraph, Busy, EdgeOf
<1>2. /\ run \in Runs /\ run.tenant \in Tenants /\ run.todo \in SUBSET Tenants /\ run.tenant \notin run.todo
      /\ run.rows \in SUBSET GraphRows /\ run.saw \in SUBSET Spans /\ run.sawDb \in SUBSET Spans /\ run.end \in Nat
      /\ edges \in SUBSET EdgeRows /\ IsFiniteSet(edges)
      /\ stored \in SUBSET Spans /\ IsFiniteSet(stored)
  BY <1>0, <1>1 DEF GraphTypeOK, RunInv, Runs
<1>3. /\ run.saw \in SUBSET InWindow(run.tenant, run.start, run.end)
      /\ run.sawDb \in SUBSET InWindow(run.tenant, run.start, run.end)
      /\ \A e \in edges : e.run = run.number => e.tenant \notin run.todo /\ e.tenant # run.tenant
      /\ Found(run.rows, run.saw, run.sawDb)
      /\ run.start = run.end - Lookbehind
  BY <1>0, <1>1 DEF RunInv, TimeInv
<1>4. /\ run.saw \in SUBSET stored /\ run.sawDb \in SUBSET stored
      /\ IsFiniteSet(run.saw) /\ IsFiniteSet(run.sawDb)
      /\ IsFiniteSet(InWindow(run.tenant, run.start, run.end))
      /\ InWindow(run.tenant, run.start, run.end) \in SUBSET Spans
  BY <1>2, <1>3, WindowsAre, FS_Subset
<1>5. PICK A \in Limited(ServiceGraphRows(run.saw), TaskLimit),
           B \in IF DbLimit > 0 THEN Limited(ServiceDBGraphRows(run.sawDb), DbLimit) ELSE {{}} :
         run.rows = A \cup B
  BY <1>3 DEF Found
<1>6. A \subseteq ServiceGraphRows(run.saw) /\ B \subseteq ServiceDBGraphRows(run.sawDb)
  BY <1>5, LimitedIs
<1>7. /\ A \in SUBSET GraphRows /\ B \in SUBSET GraphRows /\ OnePerPair(A) /\ OnePerPair(B)
      /\ IsFiniteSet(run.rows)
  <2>1. A \in SUBSET GraphRows /\ B \in SUBSET GraphRows /\ IsFiniteSet(A) /\ IsFiniteSet(B)
    BY <1>2, <1>4, <1>6, RowsType, FS_Subset
  <2>2. OnePerPair(A) /\ OnePerPair(B)
    BY <1>2, <1>4, <1>6, RowsOnePerPair DEF OnePerPair
  <2> QED BY <1>5, <2>1, <2>2, FS_Union
<1>8. /\ \A R \in SUBSET GraphRows : N(R) \in SUBSET EdgeRows
      /\ \A r \in GraphRows :
            /\ EdgeOf(r) \in EdgeRows
            /\ EdgeOf(r).run = run.number /\ EdgeOf(r).tenant = run.tenant /\ EdgeOf(r).at = run.end
            /\ EdgeOf(r).parent = r.parent /\ EdgeOf(r).child = r.child /\ EdgeOf(r).count = r.count
  BY <1>2, EdgeOfIs
<1>9. IsFiniteSet(N(run.rows))
  <2> DEFINE f == [r \in run.rows |-> EdgeOf(r)]
  <2>1. f \in Surjection(run.rows, N(run.rows))
    <3>1. f \in [run.rows -> N(run.rows)]
      OBVIOUS
    <3>2. \A e \in N(run.rows) : \E r \in run.rows : f[r] = e
      OBVIOUS
    <3> QED BY <3>1, <3>2, Zenon DEF Surjection
  <2> HIDE DEF f, N
  <2> QED BY <1>7, <2>1, FS_Surjection
<1>10. /\ edges' \in SUBSET EdgeRows /\ IsFiniteSet(edges')
       /\ \A e \in edges' : e \in edges \/ (e.run = run.number /\ e.at = run.end)
       /\ \A e \in edges' : e.run = run.number => e.tenant \notin run.todo
  <2>1. \A e \in N(run.rows) : e.run = run.number /\ e.at = run.end /\ e.tenant = run.tenant
    BY <1>2, <1>8
  <2>2. N(run.rows) \in SUBSET EdgeRows
    BY <1>2, <1>8
  <2> HIDE DEF N
  <2> QED BY <1>1, <1>2, <1>3, <1>9, <2>1, <2>2, FS_Union
<1>11. run' \in Runs /\ TimeInv' /\ RunInv'
  BY <1>0, <1>1, <1>2, <1>10, NextTenantKeeps
<1>12. GraphTypeOK'
  <2>1. w \in [tenant : Tenants, end : Nat, saw : SUBSET Spans, sawDb : SUBSET Spans]
    BY <1>2
  <2> HIDE DEF w, N
  <2> QED BY <1>0, <1>1, <1>10, <1>11, <2>1 DEF GraphTypeOK
<1>13. RowsInv'
  <2>1. PICK P, Q : Books(P, Q)
    BY <1>0 DEF RowsInv
  <2>2. P \in SUBSET EdgeRows /\ Q \in SUBSET EdgeRows /\ P \subseteq edges /\ Q \subseteq edges
    BY <1>2, <2>1 DEF Books
  <2>3. edges' = (P \cup N(A)) \cup (Q \cup N(B))
    BY <1>1, <1>5, <2>1 DEF Books
  <2>4. OnePerRun(P \cup N(A)) /\ OnePerRun(Q \cup N(B))
    BY <1>2, <1>3, <1>7, <2>1, <2>2, BookGrows DEF Books
  <2>5. /\ \A e \in P : e.count <= Cardinality(CallsBehind(e)')
        /\ \A e \in Q : e.count <= Cardinality(DbCallsBehind(e)')
    BY <1>0, <1>1, <1>12, <2>1, <2>2, StandsFor DEF Books
  <2>6. ASSUME NEW e \in N(A) PROVE e.count <= Cardinality(CallsBehind(e)')
    <3>1. PICK r \in A : e = EdgeOf(r)
      OBVIOUS
    <3>2. /\ e.tenant = run.tenant /\ e.at = run.end /\ e.parent = r.parent /\ e.child = r.child /\ e.count = r.count
          /\ r.count = Cardinality(CallsIn(run.saw, r)) /\ r.count \in Nat
      BY <1>2, <1>4, <1>6, <1>7, <1>8, <3>1, RowsAre DEF GraphRows
    <3>3. WindowOf(e) = InWindow(run.tenant, run.start, run.end)
      BY <1>3, <3>2 DEF WindowOf
    <3>4. CallsBehind(e)' = CallsIn(WindowOf(e), e)
      BY <1>1 DEF CallsBehind, CallsIn, WindowOf, InWindow
    <3>5. CallsIn(WindowOf(e), e) = CallsIn(WindowOf(e), r)
      BY <3>2 DEF CallsIn
    <3>6. Cardinality(CallsIn(run.saw, r)) <= Cardinality(CallsIn(WindowOf(e), r))
      BY <1>2, <1>3, <1>4, <3>3, CallsGrow
    <3> QED BY <3>2, <3>4, <3>5, <3>6
  <2>7. ASSUME NEW e \in N(B) PROVE e.count <= Cardinality(DbCallsBehind(e)')
    <3>1. PICK r \in B : e = EdgeOf(r)
      OBVIOUS
    <3>2. /\ e.tenant = run.tenant /\ e.at = run.end /\ e.parent = r.parent /\ e.child = r.child /\ e.count = r.count
          /\ r.count = Cardinality(DbCallsIn(run.sawDb, r)) /\ r.count \in Nat
      BY <1>2, <1>4, <1>6, <1>7, <1>8, <3>1, RowsAre DEF GraphRows
    <3>3. WindowOf(e) = InWindow(run.tenant, run.start, run.end)
      BY <1>3, <3>2 DEF WindowOf
    <3>4. DbCallsBehind(e)' = DbCallsIn(WindowOf(e), e)
      BY <1>1 DEF DbCallsBehind, DbCallsIn, WindowOf, InWindow
    <3>5. DbCallsIn(WindowOf(e), e) = DbCallsIn(WindowOf(e), r)
      BY <3>2 DEF DbCallsIn
    <3>6. Cardinality(DbCallsIn(run.sawDb, r)) <= Cardinality(DbCallsIn(WindowOf(e), r))
      BY <1>2, <1>3, <1>4, <3>3, CallsGrow
    <3> QED BY <3>2, <3>4, <3>5, <3>6
  <2>8. \A e \in N(run.rows) : e.count # 0
    BY <1>2, <1>4, <1>5, <1>6, <1>7, <1>8, RowsAre
  <2> HIDE DEF N
  <2>9. \E C, D : Books(C, D)'
    <3>1. PICK C, D : C = P \cup N(A) /\ D = Q \cup N(B)
      OBVIOUS
    <3>2. Books(C, D)'
      BY <2>3, <2>4, <2>5, <2>6, <2>7, <3>1 DEF Books, OnePerRun
    <3> QED BY <3>2
  <2>10. \A e \in edges' : e.count # 0
    BY <1>0, <1>1, <2>8 DEF RowsInv
  <2> QED BY <2>9, <2>10 DEF RowsInv
<1>14. DoneInv'
  <2>1. ASSUME NEW v \in done
        PROVE  /\ v.saw \subseteq stored' /\ v.sawDb \subseteq stored'
               /\ \E rows \in SUBSET GraphRows : Found(rows, v.saw, v.sawDb) /\ \A r \in rows : Kept(v, r)'
    <3>1. PICK rows \in SUBSET GraphRows : Found(rows, v.saw, v.sawDb) /\ \A r \in rows : Kept(v, r)
      BY <1>0 DEF DoneInv
    <3> HIDE DEF N
    <3>2. \A r \in rows : Kept(v, r)'
      BY <1>1, <3>1 DEF Kept
    <3> QED BY <1>0, <1>1, <3>1, <3>2 DEF DoneInv
  <2>2. ASSUME NEW v, v = w
        PROVE  /\ v.saw \subseteq stored' /\ v.sawDb \subseteq stored'
               /\ \E rows \in SUBSET GraphRows : Found(rows, v.saw, v.sawDb) /\ \A r \in rows : Kept(v, r)'
    <3>1. v.tenant = run.tenant /\ v.end = run.end /\ v.saw = run.saw /\ v.sawDb = run.sawDb
      BY <2>2
    <3>2. ASSUME NEW r \in run.rows PROVE Kept(v, r)'
      <4>1. /\ EdgeOf(r) \in edges'
            /\ EdgeOf(r).tenant = v.tenant /\ EdgeOf(r).at = v.end
            /\ EdgeOf(r).parent = r.parent /\ EdgeOf(r).child = r.child
        BY <1>1, <1>2, <1>8, <3>1
      <4>2. \E e \in edges' : e.tenant = v.tenant /\ e.at = v.end /\ e.parent = r.parent /\ e.child = r.child
        BY <4>1
      <4> QED BY <4>2 DEF Kept
    <3>3. v.saw \subseteq stored' /\ v.sawDb \subseteq stored'
      BY <1>1, <1>4, <3>1
    <3> QED BY <1>2, <1>3, <3>1, <3>2, <3>3
  <2> HIDE DEF w
  <2>3. \A v \in done' : v \in done \/ v = w
    BY <1>1
  <2> QED BY <2>1, <2>2, <2>3 DEF DoneInv, Found
<1> QED BY <1>11, <1>12, <1>13, <1>14 DEF GraphInv

-----------------------------------------------------------------------------
(* Everything around the task.                                             *)

LEMMA AdvanceKeeps == GraphInv /\ Advance => GraphInv'
<1> SUFFICES ASSUME GraphInv, Advance PROVE GraphInv'
  OBVIOUS
<1>0. GraphTypeOK /\ TimeInv /\ RunInv /\ RowsInv /\ DoneInv
  BY DEF GraphInv
<1>1. /\ clock' = clock + 1 /\ UNCHANGED <<stored, edges, run, open, done>>
      /\ Busy => clock < run.deadline
      /\ tick # 0 /\ ~ Busy => clock < tick + Delay
      /\ \/ tick' = tick
         \/ tick = 0 /\ (clock + 1 - Boot) % Interval = 0 /\ tick' = clock + 1
  BY DEF Advance, Busy
<1>2. /\ clock \in Nat /\ Boot \in Nat /\ Boot <= clock /\ tick \in Nat /\ run \in Runs
      /\ Interval \in Nat \ {0} /\ Delay \in Nat /\ TaskTimeout \in Nat /\ Shift \in Nat
      /\ Shift + Delay < Interval /\ Delay + TaskTimeout < Interval
      /\ run.end \in Nat /\ run.deadline \in Nat /\ \A e \in edges : e.at \in Nat
  BY <1>0, GraphAssumption, ShiftIs DEF GraphTypeOK, Runs, EdgeRows
<1>3. GraphTypeOK'
  <2>1. clock' \in Nat /\ Boot <= clock' /\ tick' \in Nat
    BY <1>1, <1>2
  <2> QED BY <1>0, <1>1, <2>1 DEF GraphTypeOK
<1>4. RunInv'
  BY <1>0, <1>1 DEF RunInv, Busy, Found, InWindow
<1>5. \A e \in edges : Multiple(e.at) /\ e.at + Shift <= clock + 1 /\ e.run <= run.number
  BY <1>0, <1>2 DEF TimeInv
<1>6. Busy => /\ Multiple(run.end) /\ run.start = run.end - Lookbehind
              /\ run.end + Shift <= clock + 1 /\ clock + 1 <= run.deadline
              /\ run.deadline <= run.end + Shift + Delay + TaskTimeout
              /\ \A e \in edges : e.at <= run.end /\ (e.run = run.number <=> e.at = run.end)
  BY <1>0, <1>1, <1>2 DEF TimeInv
(* A tick finds the run before it over.                                    *)
<1>7. CASE tick = 0 /\ (clock + 1 - Boot) % Interval = 0 /\ tick' = clock + 1
  <2> PICK T \in Nat : T = clock + 1
    BY <1>2
  <2>0. Boot <= T /\ (T - Boot) % Interval = 0 /\ tick' = T /\ clock' = T
    BY <1>1, <1>2, <1>7
  <2>1. T >= Shift /\ Multiple(T - Shift) /\ T - Shift \in Nat
    <3>1. T >= Shift /\ Multiple(T - Shift)
      BY <2>0, TickTimes
    <3> QED BY <1>2, <3>1
  <2>2. ~ Busy
    <3> SUFFICES ASSUME Busy PROVE FALSE
      OBVIOUS
    <3>1. run.end < T - Shift
      <4>1. run.end + Shift <= clock
        BY <1>0 DEF TimeInv
      <4> QED BY <1>2, <2>1, <4>1
    <3>2. run.end + Interval <= T - Shift
      BY <1>2, <1>6, <2>1, <3>1, MultiplesApart
    <3>3. T - Shift < run.end + Interval
      BY <1>2, <1>6
    <3> QED BY <1>2, <3>2, <3>3
  <2>3. \A e \in edges : e.at + Shift < T
    BY <1>0, <1>2 DEF TimeInv
  <2>4. T <= T + Delay /\ T <= T
    BY <1>2
  <2>5. TimeInv'
    <3>1. \A e \in edges' : Multiple(e.at) /\ e.at + Shift <= clock' /\ e.run <= run'.number
      BY <1>1, <1>5
    <3>2. \A e, f \in edges' : e.at = f.at <=> e.run = f.run
      BY <1>0, <1>1 DEF TimeInv
    <3>3. ~ Busy' /\ edges' = edges
      BY <1>1, <2>2 DEF Busy
    <3>4. /\ tick' >= Shift /\ Multiple(tick' - Shift) /\ tick' <= clock' /\ clock' <= tick' + Delay
          /\ \A e \in edges' : e.at + Shift < tick'
      BY <2>0, <2>1, <2>3, <2>4, <3>3
    <3> QED BY <3>1, <3>2, <3>3, <3>4 DEF TimeInv, Shift, Multiple
  <2> QED BY <1>0, <1>1, <1>3, <1>4, <2>5, SameRows DEF GraphInv
<1>8. CASE tick' = tick
  <2>1. tick # 0 => tick <= clock + 1 /\ clock + 1 <= tick + Delay
    BY <1>0, <1>1, <1>2 DEF TimeInv
  <2>2. TimeInv'
    BY <1>0, <1>1, <1>5, <1>6, <1>8, <2>1 DEF TimeInv, Busy, Multiple, Shift
  <2> QED BY <1>0, <1>1, <1>3, <1>4, <2>2, SameRows DEF GraphInv
<1> QED BY <1>1, <1>7, <1>8

LEMMA StoreSpanKeeps == GraphInv /\ StoreSpan => GraphInv'
<1> SUFFICES ASSUME GraphInv, StoreSpan PROVE GraphInv'
  OBVIOUS
<1>0. GraphTypeOK /\ TimeInv /\ RunInv /\ RowsInv /\ DoneInv
  BY DEF GraphInv
<1>1. PICK s \in Spans \ stored : stored' = stored \cup {s} /\ UNCHANGED <<clock, tick, edges, run, open, done>>
  BY DEF StoreSpan
<1>2. GraphTypeOK'
  BY <1>0, <1>1, FS_AddElement DEF GraphTypeOK
<1>3. TimeInv'
  BY <1>0, <1>1 DEF TimeInv, Busy, Multiple, Shift
<1>4. InWindow(run.tenant, run.start, run.end) \subseteq InWindow(run.tenant, run.start, run.end)'
  BY <1>1 DEF InWindow
<1>5. RunInv'
  BY <1>0, <1>1, <1>4 DEF RunInv, Busy, Found
<1> QED BY <1>0, <1>1, <1>2, <1>3, <1>5, SameRows DEF GraphInv

LEMMA StoppingKeeps == GraphInv /\ (Stop \/ LeaveLoop \/ CloseStorage \/ UNCHANGED vars) => GraphInv'
<1> SUFFICES ASSUME GraphInv, Stop \/ LeaveLoop \/ CloseStorage \/ UNCHANGED vars PROVE GraphInv'
  OBVIOUS
<1>0. GraphTypeOK /\ TimeInv /\ RunInv /\ RowsInv /\ DoneInv
  BY DEF GraphInv
<1>1. /\ UNCHANGED <<clock, stored, edges, run, done>> /\ tick' \in {tick, 0}
      /\ open' \in {open, "stopping", "closed"}
  BY DEF Stop, LeaveLoop, CloseStorage, vars
<1>2. GraphTypeOK'
  BY <1>0, <1>1 DEF GraphTypeOK
<1>3. TimeInv'
  BY <1>0, <1>1 DEF TimeInv, Busy, Multiple, Shift
<1>4. RunInv'
  BY <1>0, <1>1 DEF RunInv, Busy, Found, InWindow
<1> QED BY <1>0, <1>1, <1>2, <1>3, <1>4, SameRows DEF GraphInv

(* The inductive invariant: no two runs have the same window, what a run   *)
(* carries is what was found for its tenant, and each row stands for calls *)
(* in its window.                                                          *)
THEOREM GraphInvariant == Spec => []GraphInv
<1>1. GraphInv /\ [Next]_vars => GraphInv'
  BY StartRunKeeps, GetTenantIDsKeeps, ServicesKeeps, DatabasesKeeps, QueryFailsKeeps, PersistKeeps, AdvanceKeeps,
     StoreSpanKeeps, StoppingKeeps DEF Next
<1> QED BY InitGraph, <1>1, PTL DEF Spec
-----------------------------------------------------------------------------
(* What the dependencies show.                                             *)

CountOf(S) == MapThenSumSet(LAMBDA e : e.count, S)
RowsFor(t, end, lookback, p) ==
    {e \in edges : /\ e.tenant = t /\ end - lookback <= e.at /\ e.at <= end
                   /\ <<e.parent, e.child>> = p}

LEMMA CountIs ==
    ASSUME NEW S, IsFiniteSet(S), NEW f, \A e \in S : f[e] = e.count
    PROVE  CountOf(S) = SumFunctionOnSet(f, S)
<1> DEFINE P(g) == g = [s \in SUBSET S |-> IF s = {} THEN 0 ELSE Pick(s).count + g[s \ {Pick(s)}]]
           h == CHOOSE g : P(g)
<1>1. CountOf(S) = h[S]
  BY DEF CountOf, MapThenSumSet, MapThenFoldSet, Pick
<1>2. \A s \in SUBSET S : s # {} => f[Pick(s)] = Pick(s).count
  BY PickIn
<1>3. ASSUME NEW g PROVE P(g) <=> Unfolds(g, f, S)
  <2>1. [s \in SUBSET S |-> IF s = {} THEN 0 ELSE Pick(s).count + g[s \ {Pick(s)}]]
           = [s \in SUBSET S |-> IF s = {} THEN 0 ELSE f[Pick(s)] + g[s \ {Pick(s)}]]
    BY <1>2
  <2> QED BY <2>1 DEF Unfolds
<1> HIDE DEF P
<1>4. \E g : P(g)
  BY <1>3, UnfoldingExists
<1>5. P(h)
  BY <1>4
<1> HIDE DEF h
<1> QED BY <1>1, <1>3, <1>5, UnfoldedSum

LEMMA DependenciesAre ==
    ASSUME NEW t, NEW end, NEW lookback, NEW p
    PROVE  /\ p \in DOMAIN Dependencies(t, end, lookback)
                <=> RowsFor(t, end, lookback, p) # {} /\ CountOf(RowsFor(t, end, lookback, p)) > 0
           /\ p \in DOMAIN Dependencies(t, end, lookback)
                => Dependencies(t, end, lookback)[p] = CountOf(RowsFor(t, end, lookback, p))
<1> DEFINE rows == {e \in edges : e.tenant = t /\ end - lookback <= e.at /\ e.at <= end}
           sums == GetServiceGraphList(t, end, lookback)
           pairs == {<<e.parent, e.child>> : e \in rows}
<1>1. \A q : {e \in rows : <<e.parent, e.child>> = q} = RowsFor(t, end, lookback, q)
  BY DEF RowsFor
<1>2. sums = [q \in pairs |-> CountOf({e \in rows : <<e.parent, e.child>> = q})]
  BY DEF GetServiceGraphList, CountOf
<1>3. p \in pairs <=> RowsFor(t, end, lookback, p) # {}
  BY DEF RowsFor
<1> HIDE DEF rows, pairs
<1>4. DOMAIN sums = pairs /\ (p \in pairs => sums[p] = CountOf(RowsFor(t, end, lookback, p)))
  BY <1>1, <1>2
<1>5. Dependencies(t, end, lookback) = [q \in {r \in DOMAIN sums : sums[r] > 0} |-> sums[q]]
  BY DEF Dependencies
<1> HIDE DEF sums
<1> QED BY <1>3, <1>4, <1>5

(* A span in two windows lies on the boundary of the earlier one.          *)
LEMMA InTwoWindows ==
    ASSUME Lookbehind <= Interval, NEW x \in Nat, NEW y \in Nat, Multiple(x), Multiple(y), x < y,
           NEW s \in Spans, y - Lookbehind <= s.at, s.at <= x
    PROVE  s.at = x /\ AtBoundary(s)
<1>1. /\ Interval \in Nat \ {0} /\ Lookbehind \in Nat /\ s.at \in Nat
  BY GraphAssumption
<1>2. x + Interval <= y
  BY MultiplesApart
<1>3. s.at = x
  BY <1>1, <1>2
<1>4. PICK k \in Nat : x = Interval * k
  BY DEF Multiple
<1>5. Interval * k <= x /\ x < Interval * k + Interval
  BY <1>1, <1>4
<1>6. Truncated(x) = Interval * k
  BY <1>5, TruncatedIs
<1> QED BY <1>3, <1>4, <1>6 DEF AtBoundary

(* Rows of a book for one tenant and pair have different windows. *)
RowsOf(A, t, p) == {e \in A : e.tenant = t /\ <<e.parent, e.child>> = p}

LEMMA WindowsDiffer ==
    ASSUME GraphTypeOK, TimeInv, NEW A \in SUBSET edges, OnePerRun(A), NEW t, NEW p,
           NEW e \in RowsOf(A, t, p), NEW f \in RowsOf(A, t, p), e # f
    PROVE  e.at \in Nat /\ f.at \in Nat /\ Multiple(e.at) /\ Multiple(f.at) /\ e.at # f.at
<1>1. e \in edges /\ f \in edges /\ e \in A /\ f \in A
  BY DEF RowsOf
<1>2. e.tenant = f.tenant /\ e.parent = f.parent /\ e.child = f.child
  BY DEF RowsOf
<1>3. e.run # f.run
  BY <1>1, <1>2 DEF OnePerRun
<1>4. e.at \in Nat /\ f.at \in Nat
  BY <1>1 DEF GraphTypeOK, EdgeRows
<1> QED BY <1>1, <1>3, <1>4 DEF TimeInv

LEMMA CountsAreSmall ==
    ASSUME GraphInv, Lookbehind <= Interval, NEW t, NEW p, NEW lookback \in Nat, NEW end \in Nat
    PROVE  CountOf(RowsFor(t, end, lookback, p))
              <= Cardinality(CallsOf(t, p)) + Cardinality({c \in CallsOf(t, p) : AtBoundary(c[1]) /\ AtBoundary(c[2])})
                 + Cardinality(DbCallsOf(t, p)) + Cardinality({s \in DbCallsOf(t, p) : AtBoundary(s)})
<1>0. GraphTypeOK /\ TimeInv /\ RowsInv
  BY DEF GraphInv
<1> DEFINE R == RowsFor(t, end, lookback, p)
           f == [e \in edges |-> e.count]
           C == CallsOf(t, p)
           CB == {c \in CallsOf(t, p) : AtBoundary(c[1]) /\ AtBoundary(c[2])}
           D == DbCallsOf(t, p)
           DB == {s \in DbCallsOf(t, p) : AtBoundary(s)}
           mine == {s \in stored : s.tenant = t}
<1>1. PICK A, B : Books(A, B)
  BY <1>0 DEF RowsInv
<1>2. /\ edges \in SUBSET EdgeRows /\ IsFiniteSet(edges) /\ edges = A \cup B
      /\ A \in SUBSET edges /\ B \in SUBSET edges /\ OnePerRun(A) /\ OnePerRun(B)
  BY <1>0, <1>1 DEF GraphTypeOK, Books
<1>3. \A e \in edges : f[e] = e.count /\ f[e] \in Nat /\ e.at \in Nat /\ Multiple(e.at)
  BY <1>0, <1>2 DEF EdgeRows, TimeInv
<1>4. mine \in SUBSET Spans /\ mine \in SUBSET stored /\ IsFiniteSet(mine)
  BY <1>0, FS_Subset DEF GraphTypeOK
<1>5. /\ IsFiniteSet(C) /\ C \subseteq mine \X mine /\ IsFiniteSet(D) /\ D \subseteq mine
      /\ CB \in SUBSET C /\ DB \in SUBSET D
  <2>1. C \subseteq Calls(mine) /\ D \subseteq DbCalls(mine)
    BY DEF CallsOf, DbCallsOf
  <2> QED BY <1>4, <2>1, CallsType, FS_Subset
(* The book of the calls.                                                  *)
<1>6. SumFunctionOnSet(f, RowsOf(A, t, p)) <= Cardinality(C) + Cardinality(CB)
  <2> DEFINE S == RowsOf(A, t, p)
             T == [e \in S |-> CallsBehind(e)]
             At == [c \in C |-> c[2].at]
  <2>1. \A e \in S : e \in A /\ e \in edges /\ e.tenant = t /\ <<e.parent, e.child>> = p
    BY <1>2 DEF RowsOf
  <2>2. ASSUME NEW e \in S PROVE T[e] \subseteq C /\ f[e] \in Nat /\ f[e] <= Cardinality(T[e])
    <3>1. CallsBehind(e) \subseteq C
      BY <2>1 DEF CallsBehind, CallsOf, Calls, WindowOf, InWindow
    <3> QED BY <1>1, <1>3, <2>1, <3>1 DEF Books
  <2>3. ASSUME NEW e \in S, NEW g \in S, NEW c \in T[e] \cap T[g], e.at < g.at
        PROVE  c \in CB /\ At[c] = e.at
    <3>1. c \in C /\ c[1] \in Spans /\ c[2] \in Spans
      BY <1>4, <1>5, <2>2
    <3>2. /\ g.at - Lookbehind <= c[1].at /\ c[1].at <= e.at
          /\ g.at - Lookbehind <= c[2].at /\ c[2].at <= e.at
      BY DEF CallsBehind, Calls, WindowOf, InWindow
    <3>3. e.at \in Nat /\ g.at \in Nat /\ Multiple(e.at) /\ Multiple(g.at)
      BY <1>3, <2>1
    <3>4. AtBoundary(c[1]) /\ AtBoundary(c[2]) /\ c[2].at = e.at
      BY <2>3, <3>1, <3>2, <3>3, InTwoWindows
    <3> QED BY <3>1, <3>4
  <2> HIDE DEF C, CB, T, f, At, S
  <2>4. IsFiniteSet(S) /\ \A e, g \in S : e # g => e.at \in Nat /\ g.at \in Nat /\ e.at # g.at
    BY <1>0, <1>2, WindowsDiffer, FS_Subset DEF S, RowsOf
  <2>5. \A e \in S : T[e] \subseteq C /\ f[e] \in Nat /\ f[e] <= Cardinality(T[e])
    BY <2>2
  <2>6. \A e, g \in S : \A c \in T[e] \cap T[g] : e.at < g.at => c \in CB /\ At[c] = e.at
    BY <2>3
  <2>7. \A e, g \in S : \A c \in T[e] \cap T[g] : e # g => c \in CB
    BY <2>4, <2>6
  <2>8. \A e, g, h \in S : e # g /\ g # h /\ e # h => T[e] \cap T[g] \cap T[h] = {}
    <3>1. \A e, g \in S : \A c \in T[e] \cap T[g] : e # g => At[c] = e.at \/ At[c] = g.at
      BY <2>4, <2>6
    <3> QED BY <2>4, <3>1
  <2>9. SumFunctionOnSet(f, S) <= Cardinality(C) + Cardinality(CB)
    BY <1>5, <2>4, <2>5, <2>7, <2>8, CountedTwiceAtMost
  <2> QED BY <2>9 DEF S
(* The book of the calls to databases.                                     *)
<1>7. SumFunctionOnSet(f, RowsOf(B, t, p)) <= Cardinality(D) + Cardinality(DB)
  <2> DEFINE S == RowsOf(B, t, p)
             T == [e \in S |-> DbCallsBehind(e)]
             At == [s \in D |-> s.at]
  <2>1. \A e \in S : e \in B /\ e \in edges /\ e.tenant = t /\ <<e.parent, e.child>> = p
    BY <1>2 DEF RowsOf
  <2>2. ASSUME NEW e \in S PROVE T[e] \subseteq D /\ f[e] \in Nat /\ f[e] <= Cardinality(T[e])
    <3>1. DbCallsBehind(e) \subseteq D
      BY <2>1 DEF DbCallsBehind, DbCallsOf, DbCalls, WindowOf, InWindow
    <3> QED BY <1>1, <1>3, <2>1, <3>1 DEF Books
  <2>3. ASSUME NEW e \in S, NEW g \in S, NEW c \in T[e] \cap T[g], e.at < g.at
        PROVE  c \in DB /\ At[c] = e.at
    <3>1. c \in D /\ c \in Spans
      BY <1>4, <1>5, <2>2
    <3>2. g.at - Lookbehind <= c.at /\ c.at <= e.at
      BY DEF DbCallsBehind, DbCalls, WindowOf, InWindow
    <3>3. e.at \in Nat /\ g.at \in Nat /\ Multiple(e.at) /\ Multiple(g.at)
      BY <1>3, <2>1
    <3>4. AtBoundary(c) /\ c.at = e.at
      BY <2>3, <3>1, <3>2, <3>3, InTwoWindows
    <3> QED BY <3>1, <3>4
  <2> HIDE DEF D, DB, T, f, At, S
  <2>4. IsFiniteSet(S) /\ \A e, g \in S : e # g => e.at \in Nat /\ g.at \in Nat /\ e.at # g.at
    BY <1>0, <1>2, WindowsDiffer, FS_Subset DEF S, RowsOf
  <2>5. \A e \in S : T[e] \subseteq D /\ f[e] \in Nat /\ f[e] <= Cardinality(T[e])
    BY <2>2
  <2>6. \A e, g \in S : \A c \in T[e] \cap T[g] : e.at < g.at => c \in DB /\ At[c] = e.at
    BY <2>3
  <2>7. \A e, g \in S : \A c \in T[e] \cap T[g] : e # g => c \in DB
    BY <2>4, <2>6
  <2>8. \A e, g, h \in S : e # g /\ g # h /\ e # h => T[e] \cap T[g] \cap T[h] = {}
    <3>1. \A e, g \in S : \A c \in T[e] \cap T[g] : e # g => At[c] = e.at \/ At[c] = g.at
      BY <2>4, <2>6
    <3> QED BY <2>4, <3>1
  <2>9. SumFunctionOnSet(f, S) <= Cardinality(D) + Cardinality(DB)
    BY <1>5, <2>4, <2>5, <2>7, <2>8, CountedTwiceAtMost
  <2> QED BY <2>9 DEF S
(* The two together.                                                       *)
<1> DEFINE U == RowsOf(edges, t, p)
<1>8. /\ IsFiniteSet(U) /\ R \in SUBSET U /\ U = RowsOf(A, t, p) \cup RowsOf(B, t, p)
      /\ \A e \in U : f[e] \in Nat /\ f[e] = e.count
  <2>1. IsFiniteSet(U)
    BY <1>2, FS_Subset DEF RowsOf
  <2>2. R \in SUBSET U /\ U = RowsOf(A, t, p) \cup RowsOf(B, t, p)
    BY <1>2 DEF RowsOf, RowsFor
  <2> QED BY <1>3, <2>1, <2>2 DEF RowsOf
<1> HIDE DEF f, C, CB, D, DB, R, U
<1>9. SumFunctionOnSet(f, U) <= SumFunctionOnSet(f, RowsOf(A, t, p)) + SumFunctionOnSet(f, RowsOf(B, t, p))
  <2>1. RowsOf(A, t, p) \in SUBSET U /\ RowsOf(B, t, p) \in SUBSET U
    BY <1>8
  <2> QED BY <1>8, <2>1, SumOfUnion
<1>10. SumFunctionOnSet(f, R) <= SumFunctionOnSet(f, U)
  BY <1>8, SumOfSubset
<1>11. CountOf(R) = SumFunctionOnSet(f, R)
  <2>1. IsFiniteSet(R) /\ \A e \in R : f[e] = e.count
    BY <1>8, FS_Subset
  <2> QED BY <2>1, CountIs
<1>12. /\ SumFunctionOnSet(f, R) \in Nat /\ SumFunctionOnSet(f, U) \in Nat
       /\ SumFunctionOnSet(f, RowsOf(A, t, p)) \in Nat /\ SumFunctionOnSet(f, RowsOf(B, t, p)) \in Nat
  <2>1. \A V \in SUBSET U : IsFiniteSet(V) /\ \A e \in V : f[e] \in Nat
    BY <1>8, FS_Subset
  <2>2. \A V \in SUBSET U : SumFunctionOnSet(f, V) \in Nat
    BY <2>1, SumType
  <2>3. RowsOf(A, t, p) \in SUBSET U /\ RowsOf(B, t, p) \in SUBSET U /\ U \in SUBSET U
    BY <1>8
  <2> QED BY <1>8, <2>2, <2>3
<1>13. Cardinality(C) \in Nat /\ Cardinality(CB) \in Nat /\ Cardinality(D) \in Nat /\ Cardinality(DB) \in Nat
  <2>1. IsFiniteSet(CB) /\ IsFiniteSet(DB)
    BY <1>5, FS_Subset
  <2> QED BY <1>5, <2>1, FS_CardinalityType
<1>14. CountOf(R) <= Cardinality(C) + Cardinality(CB) + Cardinality(D) + Cardinality(DB)
  BY <1>6, <1>7, <1>9, <1>10, <1>11, <1>12, <1>13
<1> QED BY <1>14 DEF C, CB, D, DB, R

(* For any intervals, limits, spans and tenants, with a look-behind of no  *)
(* more than the interval: the dependencies never count more calls than    *)
(* there are, but for those on the boundary of two windows                 *)
(* (GenerateServiceGraphTimeRange, PersistServiceGraph).                   *)
THEOREM CallsCountOnce == Spec => []CallsAreCountedOnce
<1>1. GraphInv => CallsAreCountedOnce
  <2> SUFFICES ASSUME GraphInv, Lookbehind <= Interval, NEW t \in Tenants,
                      NEW p \in DOMAIN Dependencies(t, MaxClock, MaxClock)
               PROVE  Dependencies(t, MaxClock, MaxClock)[p]
                         <= Cardinality(CallsOf(t, p))
                            + Cardinality({c \in CallsOf(t, p) : AtBoundary(c[1]) /\ AtBoundary(c[2])})
                            + Cardinality(DbCallsOf(t, p)) + Cardinality({s \in DbCallsOf(t, p) : AtBoundary(s)})
    BY DEF CallsAreCountedOnce
  <2>1. Dependencies(t, MaxClock, MaxClock)[p] = CountOf(RowsFor(t, MaxClock, MaxClock, p))
    BY DependenciesAre
  <2>2. MaxClock \in Nat
    BY GraphAssumption
  <2> QED BY <2>1, <2>2, CountsAreSmall
<1> QED BY <1>1, GraphInvariant, PTL
(* A row that is kept is shown.                                            *)
LEMMA KeptIsShown ==
    ASSUME GraphInv, NEW w \in done, NEW r, Kept(w, r)
    PROVE  <<r.parent, r.child>> \in DOMAIN Dependencies(w.tenant, w.end, Lookbehind)
<1>0. GraphTypeOK /\ RowsInv
  BY DEF GraphInv
<1> DEFINE p == <<r.parent, r.child>>
           R == RowsFor(w.tenant, w.end, Lookbehind, p)
           f == [e \in edges |-> e.count]
<1>1. PICK e \in edges : e.tenant = w.tenant /\ e.at = w.end /\ e.parent = r.parent /\ e.child = r.child
  BY DEF Kept
<1>2. w.end \in Nat /\ Lookbehind \in Nat /\ w.end - Lookbehind <= w.end /\ w.end <= w.end
  BY <1>0, GraphAssumption DEF GraphTypeOK
<1>3. e \in R
  BY <1>1, <1>2 DEF RowsFor
<1>4. IsFiniteSet(R) /\ IsFiniteSet(R \ {e}) /\ \A d \in R : f[d] = d.count /\ f[d] \in Nat
  <2>1. R \in SUBSET edges /\ R \ {e} \in SUBSET edges
    BY DEF RowsFor
  <2>2. \A d \in edges : d.count \in Nat
    BY <1>0 DEF GraphTypeOK, EdgeRows
  <2> QED BY <1>0, <2>1, <2>2, FS_Subset DEF GraphTypeOK
<1>5. f[e] \in Nat /\ f[e] # 0
  BY <1>0, <1>3, <1>4 DEF RowsInv
<1> HIDE DEF f, R, p
<1>6. SumFunctionOnSet(f, R) = f[e] + SumFunctionOnSet(f, R \ {e})
  BY <1>3, <1>4, SumRemove
<1>7. SumFunctionOnSet(f, R \ {e}) \in Nat
  BY <1>4, SumType
<1>8. CountOf(R) = SumFunctionOnSet(f, R)
  BY <1>4, CountIs
<1>9. R # {} /\ CountOf(R) > 0
  BY <1>3, <1>5, <1>6, <1>7, <1>8
<1>10. p \in DOMAIN Dependencies(w.tenant, w.end, Lookbehind)
  BY <1>9, DependenciesAre DEF R
<1> QED BY <1>10 DEF p

(* A query that was cut shows as many groups as its limit.                 *)
LEMMA ShownUpToLimit ==
    ASSUME NEW G, IsFiniteSet(G), OnePerPair(G), NEW l \in Nat, NEW A \in Limited(G, l), NEW shown,
           \A r \in A : <<r.parent, r.child>> \in shown
    PROVE  Cardinality({<<r.parent, r.child>> : r \in G} \cap shown)
              >= Min({Cardinality({<<r.parent, r.child>> : r \in G}), l})
<1> DEFINE P == {<<r.parent, r.child>> : r \in G}
           f == [r \in G |-> <<r.parent, r.child>>]
           g == [r \in A |-> <<r.parent, r.child>>]
<1>1. IsFiniteSet(P) /\ IsFiniteSet(P \cap shown) /\ Cardinality(P) \in Nat /\ Cardinality(P \cap shown) \in Nat
  <2>1. f \in Surjection(G, P)
    <3>1. f \in [G -> P] /\ \A q \in P : \E r \in G : f[r] = q
      OBVIOUS
    <3> QED BY <3>1, Zenon DEF Surjection
  <2> HIDE DEF f, P
  <2> QED BY <2>1, FS_Surjection, FS_Subset, FS_CardinalityType
<1>2. A \subseteq G /\ (A = G \/ Cardinality(A) = l)
  BY LimitedIs
<1>3. Min({Cardinality(P), l}) <= Cardinality(P) /\ Min({Cardinality(P), l}) <= l /\ Min({Cardinality(P), l}) \in Nat
  <2> DEFINE T == {Cardinality(P), l}
  <2>1. T \in SUBSET Nat /\ T # {} /\ Cardinality(P) \in T /\ l \in T
    BY <1>1
  <2> HIDE DEF T, P
  <2>2. Min(T) \in T /\ \A y \in T : Min(T) <= y
    BY <2>1, MinIsLeast
  <2> QED BY <2>1, <2>2 DEF T
<1>4. CASE A = G
  <2>1. P \cap shown = P
    BY <1>4
  <2> HIDE DEF P
  <2> QED BY <1>1, <1>3, <2>1 DEF P
<1>5. CASE Cardinality(A) = l
  <2>1. g \in Injection(A, P \cap shown)
    <3>1. g \in [A -> P \cap shown]
      BY <1>2
    <3>2. \A r, s \in A : g[r] = g[s] => r = s
      BY <1>2 DEF OnePerPair
    <3> HIDE DEF g, P
    <3> QED BY <3>1, <3>2, Zenon DEF Injection, IsInjective
  <2> HIDE DEF g, P
  <2>2. Cardinality(A) <= Cardinality(P \cap shown)
    BY <1>1, <2>1, FS_Injection
  <2>3. Min({Cardinality(P), l}) <= Cardinality(P \cap shown)
    BY <1>1, <1>3, <1>5, <2>2
  <2> QED BY <1>1, <1>3, <2>3 DEF P
<1> QED BY <1>2, <1>4, <1>5

(* For any limits, spans and schedule: what was found in a persisted       *)
(* window is shown, up to the limits, from then on (PersistServiceGraph,   *)
(* GetServiceGraphList).                                                   *)
THEOREM PersistedIsShown == Spec => []PersistedWindowsAreShown
<1>1. GraphInv => PersistedWindowsAreShown
  <2> SUFFICES ASSUME GraphInv, NEW w \in done
               PROVE  LET shown == DOMAIN Dependencies(w.tenant, w.end, Lookbehind)
                          called == {<<r.parent, r.child>> : r \in ServiceGraphRows(w.saw)}
                          dbs == {<<r.parent, r.child>> : r \in ServiceDBGraphRows(w.sawDb)} IN
                      /\ Cardinality(called \cap shown) >= Min({Cardinality(called), TaskLimit})
                      /\ DbLimit > 0 => Cardinality(dbs \cap shown) >= Min({Cardinality(dbs), DbLimit})
    BY DEF PersistedWindowsAreShown
  <2> DEFINE shown == DOMAIN Dependencies(w.tenant, w.end, Lookbehind)
             G == ServiceGraphRows(w.saw)
             D == ServiceDBGraphRows(w.sawDb)
  <2>0. GraphTypeOK /\ DoneInv /\ TaskLimit \in Nat /\ DbLimit \in Nat
    BY GraphAssumption DEF GraphInv
  <2>1. PICK rows \in SUBSET GraphRows : Found(rows, w.saw, w.sawDb) /\ \A r \in rows : Kept(w, r)
    BY <2>0 DEF DoneInv
  <2>2. PICK A \in Limited(G, TaskLimit), B \in IF DbLimit > 0 THEN Limited(D, DbLimit) ELSE {{}} : rows = A \cup B
    BY <2>1 DEF Found
  <2>3. \A r \in rows : <<r.parent, r.child>> \in shown
    BY <2>1, KeptIsShown
  <2>4. /\ w.saw \in SUBSET stored /\ w.sawDb \in SUBSET stored /\ stored \in SUBSET Spans /\ IsFiniteSet(stored)
        /\ w.saw \in SUBSET Spans /\ w.sawDb \in SUBSET Spans /\ IsFiniteSet(w.saw) /\ IsFiniteSet(w.sawDb)
    <3>1. w.saw \in SUBSET stored /\ w.sawDb \in SUBSET stored /\ stored \in SUBSET Spans /\ IsFiniteSet(stored)
      BY <2>0 DEF DoneInv, GraphTypeOK
    <3> QED BY <3>1, FS_Subset
  <2>5. IsFiniteSet(G) /\ OnePerPair(G) /\ IsFiniteSet(D) /\ OnePerPair(D)
    BY <2>4, RowsType, RowsOnePerPair
  <2> HIDE DEF shown, G, D
  <2>6. Cardinality({<<r.parent, r.child>> : r \in G} \cap shown)
           >= Min({Cardinality({<<r.parent, r.child>> : r \in G}), TaskLimit})
    <3>1. A \in Limited(G, TaskLimit) /\ \A r \in A : <<r.parent, r.child>> \in shown
      BY <2>2, <2>3
    <3> QED BY <2>0, <2>5, <3>1, ShownUpToLimit
  <2>7. ASSUME DbLimit > 0
        PROVE  Cardinality({<<r.parent, r.child>> : r \in D} \cap shown)
                  >= Min({Cardinality({<<r.parent, r.child>> : r \in D}), DbLimit})
    <3>1. B \in Limited(D, DbLimit) /\ \A r \in B : <<r.parent, r.child>> \in shown
      BY <2>2, <2>3, <2>7
    <3> QED BY <2>0, <2>5, <3>1, ShownUpToLimit
  <2> QED BY <2>6, <2>7 DEF shown, G, D
<1> QED BY <1>1, GraphInvariant, PTL
=============================================================================
