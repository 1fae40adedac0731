----------------------------- MODULE ServiceGraph -----------------------------
(***************************************************************************)
(* The background task that counts calls between services (servicegraph.go *)
(* with its queries in query.go and PersistServiceGraph in                 *)
(* opentelemetry.go), and the Jaeger dependencies that sum its rows.       *)
(*                                                                         *)
(* Spans keep being stored, in any order and with any delay.  A run of the *)
(* task looks at one window that ends at the last multiple of Interval,    *)
(* tenant after tenant, and stores one row per pair of services.           *)
(***************************************************************************)
EXTENDS Integers, FiniteSets, FiniteSetsExt

CONSTANTS
    Spans,        \* [tenant, id, parent, kind, service, db, at]: the spans clients may send
    Interval,     \* -servicegraph.taskInterval
    Lookbehind,   \* -servicegraph.taskLookbehind
    TaskTimeout,  \* -servicegraph.taskTimeout
    TaskLimit,    \* -servicegraph.taskLimit
    DbLimit,      \* -servicegraph.databaseTaskLimit
    Boot,         \* when the ticker is started
    Delay,        \* bound: the longest time from a tick to the run reading the clock
    MaxClock      \* bound on the clock
None == "none"
(* A run is over before the next tick, and a delayed run still reads the   *)
(* clock in the interval of its tick.  The defaults (a minute and 30       *)
(* seconds) give the first; the second depends on when the process starts. *)
ASSUME GraphAssumption ==
    /\ Interval \in Nat \ {0} /\ Lookbehind \in Nat /\ TaskTimeout \in Nat /\ Delay \in Nat /\ Boot \in Nat \ {0}
    /\ TaskLimit \in Nat \ {0} /\ DbLimit \in Nat /\ MaxClock \in Nat
    /\ Delay + TaskTimeout < Interval /\ (Boot % Interval) + Delay < Interval
    /\ \A s \in Spans : s.at \in Nat /\ s.kind \in 1..5

VARIABLES
    clock,
    tick,      \* when the tick waiting in the ticker's channel was sent; 0 is no tick
    stored,    \* the spans stored so far
    edges,     \* service graph rows: [run, tenant, at, parent, child, count]
    run,       \* the run of the task
    open,      \* neither Stop: "running", "stopping" after servicegraph.Stop, "closed" after vtstorage.Stop
    done       \* history: [tenant, end, saw, sawDb] of the windows whose rows were persisted
vars == <<clock, tick, stored, edges, run, open, done>>

Tenants == {s.tenant : s \in Spans}
Idle == [step |-> "idle", number |-> 0, start |-> 0, end |-> 0, deadline |-> 0, todo |-> {}, tenant |-> None,
         rows |-> {}, saw |-> {}, sawDb |-> {}]

Init ==
    /\ clock = Boot /\ tick = 0 /\ stored = {} /\ edges = {} /\ run = Idle /\ open = "running" /\ done = {}

(***************************************************************************)
(* What the two queries count in a window.                                 *)
(***************************************************************************)
(* Both ends of a time filter are inside.                                  *)
InWindow(t, from, to) == {s \in stored : s.tenant = t /\ from <= s.at /\ s.at <= to}
(* A server or consumer span joined with a client or producer span by its  *)
(* parent's ID, both in the window, unless both are of one service.        *)
Calls(spans) ==
    {c \in spans \X spans : /\ c[2].kind \in {2, 5} /\ c[2].parent # None
                            /\ c[1].kind \in {3, 4} /\ c[1].id # None
                            /\ c[1].id = c[2].parent /\ c[1].service # c[2].service}
DbCalls(spans) == {s \in spans : s.kind = 3 /\ s.db # None}
(* Any `limit' of the groups when there are more; no limit is 0.           *)
Limited(groups, limit) ==
    IF Cardinality(groups) <= limit \/ limit = 0 THEN {groups} ELSE kSubset(limit, groups)

ServiceGraphRows(spans) ==
    {[parent |-> c[1].service, child |-> <<None, c[2].service>>,
      count |-> Cardinality({d \in Calls(spans) : d[1].service = c[1].service /\ d[2].service = c[2].service})]
        : c \in Calls(spans)}
(* The child of a database row is renamed to parent:child.                 *)
ServiceDBGraphRows(spans) ==
    {[parent |-> s.service, child |-> <<s.service, s.db>>,
      count |-> Cardinality({d \in DbCalls(spans) : d.service = s.service /\ d.db = s.db})] : s \in DbCalls(spans)}

(***************************************************************************)
(* The task.                                                               *)
(***************************************************************************)
Truncated(t) == (t \div Interval) * Interval
(* After Stop a tick that is ready too may still win the select.           *)
StartRun ==
    /\ run.step = "idle" /\ tick # 0 /\ open # "closed"
    /\ tick' = 0
    /\ run' = [Idle EXCEPT !.step = "tenants", !.number = run.number + 1, !.deadline = clock + TaskTimeout,
                           !.end = Truncated(clock), !.start = Truncated(clock) - Lookbehind]
    /\ UNCHANGED <<clock, stored, edges, open, done>>
EndRun == [Idle EXCEPT !.number = run.number]
NextTenant(todo) ==
    IF todo = {} THEN {EndRun}
    ELSE {[run EXCEPT !.step = "services", !.todo = todo \ {t}, !.tenant = t, !.saw = {}, !.sawDb = {}] : t \in todo}
(* A query ends with an error when the deadline is reached, and may fail   *)
(* earlier.  The context is the same for all the tenants.                  *)
InTime == clock < run.deadline
(* Tenants with rows in the partitions, one a day, that meet the window.   *)
GetTenantIDs ==
    /\ run.step = "tenants" /\ open # "closed"
    /\ \/ InTime /\ run' \in NextTenant({s.tenant : s \in stored})
       \/ run' = EndRun
    /\ UNCHANGED <<clock, tick, stored, edges, open, done>>
(* Variant for the checks: what was found for the last tenant stays.       *)
AppendServiceGraphRows ==
    LET spans == InWindow(run.tenant, run.start, run.end) IN
    /\ run.step = "services" /\ InTime /\ open # "closed"
    /\ \E rows \in Limited(ServiceGraphRows(spans), TaskLimit) :
          run' = [run EXCEPT !.step = IF DbLimit > 0 THEN "databases" ELSE "persist", !.rows = @ \cup rows, !.saw = spans]
    /\ UNCHANGED <<clock, tick, stored, edges, open, done>>
GetServiceGraphTimeRange ==
    LET spans == InWindow(run.tenant, run.start, run.end) IN
    /\ run.step = "services" /\ InTime /\ open # "closed"
    /\ \E rows \in Limited(ServiceGraphRows(spans), TaskLimit) :
          run' = [run EXCEPT !.step = IF DbLimit > 0 THEN "databases" ELSE "persist", !.rows = rows, !.saw = spans]
    /\ UNCHANGED <<clock, tick, stored, edges, open, done>>
GetServiceDBGraphTimeRange ==
    LET spans == InWindow(run.tenant, run.start, run.end) IN
    /\ run.step = "databases" /\ InTime /\ open # "closed"
    /\ \E rows \in Limited(ServiceDBGraphRows(spans), DbLimit) :
          run' = [run EXCEPT !.step = "persist", !.rows = @ \cup rows, !.sawDb = spans]
    /\ UNCHANGED <<clock, tick, stored, edges, open, done>>
(* An error drops what the run found for the tenant so far.                *)
QueryFails ==
    /\ run.step \in {"services", "databases"} /\ open # "closed"
    /\ run' \in NextTenant(run.todo)
    /\ UNCHANGED <<clock, tick, stored, edges, open, done>>
(* Variant for the checks: rows get the time at which they are stored.     *)
PersistAtNow ==
    /\ run.step = "persist" /\ open # "closed"
    /\ edges' = edges \cup {[run |-> run.number, tenant |-> run.tenant, at |-> clock,
                             parent |-> r.parent, child |-> r.child, count |-> r.count] : r \in run.rows}
    /\ done' = done \cup {[tenant |-> run.tenant, end |-> run.end, saw |-> run.saw, sawDb |-> run.sawDb]}
    /\ run' \in NextTenant(run.todo)
    /\ UNCHANGED <<clock, tick, stored, open>>
PersistServiceGraph ==
    /\ run.step = "persist" /\ open # "closed"
    /\ edges' = edges \cup {[run |-> run.number, tenant |-> run.tenant, at |-> run.end,
                             parent |-> r.parent, child |-> r.child, count |-> r.count] : r \in run.rows}
    /\ done' = done \cup {[tenant |-> run.tenant, end |-> run.end, saw |-> run.saw, sawDb |-> run.sawDb]}
    /\ run' \in NextTenant(run.todo)
    /\ UNCHANGED <<clock, tick, stored, open>>

(***************************************************************************)
(* Everything around it.                                                   *)
(***************************************************************************)
(* A query does not outlive its deadline, nor a tick its Delay.  A tick is *)
(* dropped when one is waiting.                                            *)
Advance ==
    /\ clock < MaxClock
    /\ run.step # "idle" => clock < run.deadline
    /\ tick # 0 /\ run.step = "idle" => clock < tick + Delay
    /\ clock' = clock + 1
    /\ tick' = IF tick = 0 /\ (clock + 1 - Boot) % Interval = 0 /\ open = "running" THEN clock + 1 ELSE tick
    /\ UNCHANGED <<stored, edges, run, open, done>>
(* Spans are stored when they are over or later.                           *)
StoreSpan ==
    /\ open = "running"
    /\ \E s \in Spans \ stored : s.at <= clock /\ stored' = stored \cup {s}
    /\ UNCHANGED <<clock, tick, edges, run, open, done>>
(* main stops the HTTP server first, so nothing is stored from here on.    *)
(* Stop closes the channel and does not wait for the run, which loses the  *)
(* rest of its tenants when the storage is closed under it.                *)
Stop ==
    /\ open = "running" /\ open' = "stopping"
    /\ UNCHANGED <<clock, tick, stored, edges, run, done>>
LeaveLoop ==
    /\ open = "stopping" /\ run.step = "idle" /\ tick # 0 /\ tick' = 0
    /\ UNCHANGED <<clock, stored, edges, run, open, done>>
CloseStorage ==
    /\ open = "stopping" /\ open' = "closed"
    /\ UNCHANGED <<clock, tick, stored, edges, run, done>>

Next ==
    \/ StartRun \/ GetTenantIDs \/ GetServiceGraphTimeRange \/ GetServiceDBGraphTimeRange \/ QueryFails
    \/ PersistServiceGraph \/ Advance \/ StoreSpan \/ Stop \/ LeaveLoop \/ CloseStorage
Spec == Init /\ [][Next]_vars

(***************************************************************************)
(* What the Jaeger API answers: the sum of the rows in [end - lookback,    *)
(* end].                                                                   *)
(***************************************************************************)
GetServiceGraphList(t, end, lookback) ==
    LET rows == {e \in edges : e.tenant = t /\ end - lookback <= e.at /\ e.at <= end} IN
    [p \in {<<e.parent, e.child>> : e \in rows} |->
        MapThenSumSet(LAMBDA e : e.count, {e \in rows : <<e.parent, e.child>> = p})]
Dependencies(t, end, lookback) ==
    LET sums == GetServiceGraphList(t, end, lookback) IN
    [p \in {r \in DOMAIN sums : sums[r] > 0} |-> sums[p]]

(***************************************************************************)
(* Properties.                                                             *)
(***************************************************************************)
CallsOf(t, p) == {c \in Calls({s \in stored : s.tenant = t}) : <<c[1].service, <<None, c[2].service>>>> = p}
DbCallsOf(t, p) == {s \in DbCalls({s \in stored : s.tenant = t}) : <<s.service, <<s.service, s.db>>>> = p}
AtBoundary(s) == Truncated(s.at) = s.at
(* The dependencies of a tenant never count more calls of a pair of        *)
(* services than the tenant's spans make, except that a call whose spans   *)
(* all lie on the boundary of two windows counts in both: windows are not  *)
(* repeated, tenants are not mixed up, and what one tenant's query found   *)
(* is not stored for another (GenerateServiceGraphTimeRange).              *)
CallsAreCountedOnce ==
    Lookbehind <= Interval =>
    \A t \in Tenants : LET seen == Dependencies(t, MaxClock, MaxClock) IN
        \A p \in DOMAIN seen :
            seen[p] <= Cardinality(CallsOf(t, p)) + Cardinality({c \in CallsOf(t, p) : AtBoundary(c[1]) /\ AtBoundary(c[2])})
                     + Cardinality(DbCallsOf(t, p)) + Cardinality({s \in DbCallsOf(t, p) : AtBoundary(s)})
(* When the window of a run was persisted, the dependencies asked for with *)
(* that window show every pair of services with a call both of whose spans *)
(* were in the window when its query ran, and every database called in it  *)
(* when the other query ran, up to the limits: no later run,               *)
(* tenant or error takes them away, and they are found under the end of    *)
(* the window (PersistServiceGraph, GetServiceGraphList).                  *)
PersistedWindowsAreShown ==
    \A w \in done :
        LET shown == DOMAIN Dependencies(w.tenant, w.end, Lookbehind)
            called == {<<r.parent, r.child>> : r \in ServiceGraphRows(w.saw)}
            dbs == {<<r.parent, r.child>> : r \in ServiceDBGraphRows(w.sawDb)} IN
        /\ Cardinality(called \cap shown) >= Min({Cardinality(called), TaskLimit})
        /\ DbLimit > 0 => Cardinality(dbs \cap shown) >= Min({Cardinality(dbs), DbLimit})
=============================================================================
