------------------------------ MODULE NetInsert ------------------------------
(***************************************************************************)
(* How vtinsert spreads rows over the vtstorage nodes:                     *)
(* app/vtstorage/netinsert/netinsert.go.                                   *)
(*                                                                         *)
(* Rows are collected in one buffer per node.  A buffer that is full, or   *)
(* old enough for the node's background flusher, is swapped for an empty   *)
(* one from a bounded pool and sent; when its own node fails, the block is *)
(* re-routed to the nodes that are not disabled, again and again until one *)
(* accepts it or the storage is stopped.  Writers (the log message         *)
(* processors of requests) and flushers do this concurrently.              *)
(***************************************************************************)
EXTENDS Integers, Sequences, FiniteSets

CONSTANTS
    N,               \* number of vtstorage nodes
    Rows,            \* rows to send, none longer than maxInsertBlockSize
    HomesOf,         \* where getNodeIdx may send a row: one node when it has
                     \* a trace ID, any for a long stream of rows without
    Writers,         \* goroutines that call AddRow
    Capacity,        \* rows that fit in maxInsertBlockSize
    PoolSize,        \* capacity of pendingDataBuffers: concurrency * N
    DisableSeconds   \* how long a node that failed is avoided (10 s)

Nodes   == 1..N
Threads == Nodes \cup Writers    \* node n's background flusher is thread n

ASSUME NAssumption == N \in Nat \ {0}
ASSUME HomesAssumption == HomesOf \in [Rows -> (SUBSET Nodes) \ {{}}]
ASSUME WritersAssumption == Writers \cap Nodes = {} /\ IsFiniteSet(Writers)
ASSUME SizesAssumption ==
    Capacity \in Nat \ {0} /\ PoolSize \in Nat \ {0} /\ DisableSeconds \in Nat \ {0}

VARIABLES
    pending,   \* pending[n]: rows in sn.pendingData
    mu,        \* mu[n]: threads inside pendingDataMu that wait for a buffer
    pool,      \* empty buffers in pendingDataBuffers
    left,      \* left[n]: disabledUntil - now in seconds; -1 is long ago
    pc,        \* pc[t]: where thread t is
    node,      \* node[t]: the node whose data t flushes
    new,       \* new[t]: the row, if any, that t adds after the swap
    block,     \* block[t]: rows of the buffer t sends
    todo,      \* todo[t]: nodes t has still to try in this round
    final,     \* flushers on their last flush
    closed,    \* stopCh is closed
    stored,    \* stored[n]: rows vtstorage n has accepted
    accepted,  \* history: rows given to AddRow
    dropped,   \* history: rows given up
    faults     \* history: a request has failed on its own

vars == <<pending, mu, pool, left, pc, node, new, block, todo, final, closed,
          stored, accepted, dropped, faults>>
threadVars == <<pc, node, new, block, todo, final>>
history    == <<accepted, dropped>>

Init ==
    /\ pending = [n \in Nodes |-> {}]
    /\ mu = [n \in Nodes |-> {}]
    /\ pool = PoolSize
    /\ left = [n \in Nodes |-> -1]
    /\ pc = [t \in Threads |-> "idle"]
    /\ node = [t \in Threads |-> IF t \in Nodes THEN t ELSE 1]
    /\ new = [t \in Threads |-> {}]
    /\ block = [t \in Threads |-> {}]
    /\ todo = [t \in Threads |-> <<>>]
    /\ final = {}
    /\ closed = FALSE
    /\ stored = [n \in Nodes |-> {}]
    /\ accepted = {}
    /\ dropped = {}
    /\ faults = FALSE

Goto(t, where) == pc' = [pc EXCEPT ![t] = where]

-----------------------------------------------------------------------------
(* Filling and swapping buffers.                                           *)

(* addRow when the row fits.                                               *)
AddRow(w, r, n) ==
    /\ ~ closed
    /\ pc[w] = "idle"
    /\ r \notin accepted
    /\ mu[n] = {}
    /\ Cardinality(pending[n]) + 1 <= Capacity
    /\ pending' = [pending EXCEPT ![n] = @ \cup {r}]
    /\ accepted' = accepted \cup {r}
    /\ UNCHANGED <<mu, pool, left, threadVars, closed, stored, dropped, faults>>

(* addRow when it does not: the writer flushes first, under the mutex.     *)
AddRowToFull(w, r, n) ==
    /\ ~ closed
    /\ pc[w] = "idle"
    /\ r \notin accepted
    /\ mu[n] = {}
    /\ Cardinality(pending[n]) + 1 > Capacity
    /\ mu' = [mu EXCEPT ![n] = {w}]
    /\ node' = [node EXCEPT ![w] = n]
    /\ new' = [new EXCEPT ![w] = {r}]
    /\ accepted' = accepted \cup {r}
    /\ Goto(w, "swap")
    /\ UNCHANGED <<pending, pool, left, block, todo, final, closed, stored, dropped, faults>>

(* flushPendingData(false): the ticker of node n's flusher.                *)
FlushPendingData(n) ==
    /\ pc[n] = "idle"
    /\ mu[n] = {}
    /\ mu' = [mu EXCEPT ![n] = {n}]
    /\ Goto(n, "swap")
    /\ UNCHANGED <<pending, pool, left, node, new, block, todo, final, closed, stored, history, faults>>

(* flushPendingData(true): the flusher has seen stopCh.                    *)
LastFlush(n) ==
    /\ closed
    /\ pc[n] = "idle"
    /\ mu[n] = {}
    /\ mu' = [mu EXCEPT ![n] = {n}]
    /\ final' = final \cup {n}
    /\ Goto(n, "swap")
    /\ UNCHANGED <<pending, pool, left, node, new, block, todo, closed, stored, history, faults>>

(* Variant: the old buffer keeps its rows.                                 *)
RemainingKept(n, t) == pending[n] \cup new[t]
(* The new pendingData of n after t's swap.                                *)
Remaining(n, t) == new[t]

(* grabPendingDataForFlushLocked, once the pool has a buffer, and the      *)
(* write of the row that did not fit.                                      *)
GrabPendingData(t) ==
    LET n == node[t]
    IN  /\ pc[t] = "swap"
        /\ pool > 0
        /\ pool' = pool - 1
        /\ block' = [block EXCEPT ![t] = pending[n]]
        /\ pending' = [pending EXCEPT ![n] = Remaining(n, t)]
        /\ new' = [new EXCEPT ![t] = {}]
        /\ mu' = [mu EXCEPT ![n] = {}]
        /\ Goto(t, "own")
        /\ UNCHANGED <<left, node, todo, final, closed, stored, history, faults>>

-----------------------------------------------------------------------------
(* mustSendInsertRequest.                                                  *)

(* disabledUntil > now: at the last second a request is tried again.       *)
Disabled(n) == left[n] > 0

(* sendInsertRequest to n on behalf of t: nothing to send, a disabled      *)
(* node, a request that fails at once since its context is cancelled, or a *)
(* request on its way.                                                     *)
SendInsertRequest(t, n, failed, sent) ==
    \/ /\ block[t] = {}
       /\ Goto(t, "release")
       /\ UNCHANGED left
    \/ /\ block[t] # {}
       /\ Disabled(n)
       /\ Goto(t, failed)
       /\ UNCHANGED left
    \/ /\ block[t] # {}
       /\ ~ Disabled(n)
       /\ closed
       /\ left' = [left EXCEPT ![n] = DisableSeconds]
       /\ Goto(t, failed)
    \/ /\ block[t] # {}
       /\ ~ Disabled(n)
       /\ ~ closed
       /\ Goto(t, sent)
       /\ UNCHANGED left

SendOwn(t) ==
    /\ pc[t] = "own"
    /\ SendInsertRequest(t, node[t], "pick", "ownSent")
    /\ UNCHANGED <<pending, mu, pool, node, new, block, todo, final, closed, stored, history, faults>>

(* The nodes of S in ascending order, begun at an arbitrary place.         *)
Rounds(S) ==
    {s \in [1..Cardinality(S) -> S] :
        \E first \in Nodes : \A i, j \in DOMAIN s :
            i < j => (s[i] - first) % N < (s[j] - first) % N}

(* sendInsertRequestToAnyNode: the nodes that are enabled now.             *)
Available == {n \in Nodes : left[n] < 0}

PickNodes(t) ==
    /\ pc[t] = "pick"
    /\ \E s \in Rounds(Available) : todo' = [todo EXCEPT ![t] = s]
    /\ Goto(t, "any")
    /\ UNCHANGED <<pending, mu, pool, left, node, new, block, final, closed, stored, history, faults>>

SendAny(t) ==
    /\ pc[t] = "any"
    /\ todo[t] # <<>>
    /\ todo' = [todo EXCEPT ![t] = Tail(@)]
    /\ node' = [node EXCEPT ![t] = Head(todo[t])]
    /\ SendInsertRequest(t, Head(todo[t]), "any", "anySent")
    /\ UNCHANGED <<pending, mu, pool, new, block, final, closed, stored, history, faults>>

(* A 2xx answer.                                                           *)
Reply(t) ==
    /\ pc[t] \in {"ownSent", "anySent"}
    /\ stored' = [stored EXCEPT ![node[t]] = @ \cup block[t]]
    /\ Goto(t, "release")
    /\ UNCHANGED <<pending, mu, pool, left, node, new, block, todo, final, closed, history, faults>>

(* An error.  The node may have taken the block all the same.              *)
Fail(t) ==
    /\ pc[t] \in {"ownSent", "anySent"}
    /\ \/ stored' = [stored EXCEPT ![node[t]] = @ \cup block[t]]
       \/ UNCHANGED stored
    /\ left' = [left EXCEPT ![node[t]] = DisableSeconds]
    /\ faults' = TRUE
    /\ Goto(t, IF pc[t] = "ownSent" THEN "pick" ELSE "any")
    /\ UNCHANGED <<pending, mu, pool, node, new, block, todo, final, closed, history>>

(* Variant: a round without success ends the attempts.                     *)
AfterRoundGivesUp == "release"
AfterRound == "pause"

RoundFails(t) ==
    /\ pc[t] = "any"
    /\ todo[t] = <<>>
    /\ Goto(t, AfterRound)
    /\ UNCHANGED <<pending, mu, pool, left, node, new, block, todo, final, closed, stored, history, faults>>

(* A second later the next round begins.                                   *)
Retry(t) ==
    /\ pc[t] = "pause"
    /\ Goto(t, "pick")
    /\ UNCHANGED <<pending, mu, pool, left, node, new, block, todo, final, closed, stored, history, faults>>

(* Variant: the buffer is not given back.                                  *)
AfterDropLeaks(t) == "idle"
AfterDrop(t) == "release"

(* Or stopCh is closed and the block is dropped.                           *)
Drop(t) ==
    /\ pc[t] = "pause"
    /\ closed
    /\ dropped' = dropped \cup block[t]
    /\ Goto(t, AfterDrop(t))
    /\ UNCHANGED <<pending, mu, pool, left, node, new, block, todo, final, closed, stored, accepted, faults>>

(* The deferred return of the buffer; a flusher on its last flush exits.   *)
Release(t) ==
    /\ pc[t] = "release"
    /\ pool < PoolSize
    /\ pool' = pool + 1
    /\ block' = [block EXCEPT ![t] = {}]
    /\ todo' = [todo EXCEPT ![t] = <<>>]
    /\ node' = [node EXCEPT ![t] = IF t \in Nodes THEN t ELSE 1]
    /\ Goto(t, IF t \in final THEN "exited" ELSE "idle")
    /\ UNCHANGED <<pending, mu, left, new, final, closed, stored, history, faults>>

-----------------------------------------------------------------------------
(* The clock and the end.                                                  *)

Elapse(x) == IF x > -1 THEN x - 1 ELSE -1

Second ==
    /\ \E n \in Nodes : left[n] > -1
    /\ left' = [n \in Nodes |-> Elapse(left[n])]
    /\ UNCHANGED <<pending, mu, pool, threadVars, closed, stored, history, faults>>

(* MustStop: vtinsert.Stop has already waited for the writers.             *)
MustStop ==
    /\ ~ closed
    /\ \A w \in Writers : pc[w] = "idle"
    /\ closed' = TRUE
    /\ UNCHANGED <<pending, mu, pool, left, threadVars, stored, history, faults>>

(* wg.Wait has returned.                                                   *)
Finished == \A n \in Nodes : pc[n] = "exited"
Done == Finished /\ UNCHANGED vars

SenderStep(t) ==
    \/ GrabPendingData(t) \/ SendOwn(t) \/ PickNodes(t) \/ SendAny(t) \/ Reply(t)
    \/ Fail(t) \/ RoundFails(t) \/ Retry(t) \/ Drop(t) \/ Release(t)

Next ==
    \/ \E w \in Writers, r \in Rows : \E n \in HomesOf[r] :
            AddRow(w, r, n) \/ AddRowToFull(w, r, n)
    \/ \E n \in Nodes : FlushPendingData(n) \/ LastFlush(n)
    \/ \E t \in Threads : SenderStep(t)
    \/ Second \/ MustStop \/ Done

Spec == Init /\ [][Next]_vars

-----------------------------------------------------------------------------
(* Properties.                                                             *)

Sending == {"own", "ownSent", "pick", "any", "anySent", "pause", "release"}

InBuffer(r) == (\E n \in Nodes : r \in pending[n]) \/ (\E t \in Threads : r \in block[t] \cup new[t])
IsStored(r) == \E n \in Nodes : r \in stored[n]

(* A row given to AddRow is in a buffer, or on a node, or was given up     *)
(* because the storage was being stopped: no failure, re-route or retry    *)
(* loses it.                                                               *)
NothingLost ==
    \A r \in accepted : InBuffer(r) \/ IsStored(r) \/ (closed /\ r \in dropped)

(* Buffers are neither lost nor made up, so the pool can always take one   *)
(* back without blocking.                                                  *)
BuffersConserved ==
    pool + Cardinality({t \in Threads : pc[t] \in Sending}) = PoolSize

(* No row is in two buffers: a row reaches storage twice only when the     *)
(* answer to a request that stored it was lost.                            *)
OneCopy ==
    /\ \A t \in Threads : \A n \in Nodes : pending[n] \cap block[t] = {}
    /\ \A t, u \in Threads : t # u => block[t] \cap block[u] = {}
    /\ \A r \in Rows : (\E m, n \in Nodes : m # n /\ r \in stored[m] \cap stored[n]) => faults

(* "newly received spans are not lost": a stop while every node works      *)
(* leaves no accepted row behind.                                          *)
StopKeepsRows == Finished /\ ~ faults => \A r \in accepted : IsStored(r)
=============================================================================
