---------------------------- MODULE IngestProofs ----------------------------
(***************************************************************************)
(* Theorems about the way of a span into the cluster: SpanRow, for any     *)
(* request, and NetInsert, for any number of nodes, writers, rows and      *)
(* buffers.                                                                *)
(***************************************************************************)
EXTENDS NetInsert, SpanRow, FiniteSetTheorems, TLAPS

(***************************************************************************)
(* NetInsert.                                                              *)
(***************************************************************************)

Positions == {"idle", "swap", "exited"} \cup Sending

InsertTypeOK ==
    /\ pending \in [Nodes -> SUBSET Rows]
    /\ pool \in Nat
    /\ left \in [Nodes -> Int]
    /\ pc \in [Threads -> Positions]
    /\ node \in [Threads -> Nodes]
    /\ new \in [Threads -> SUBSET Rows]
    /\ block \in [Threads -> SUBSET Rows]
    /\ todo \in [Threads -> Seq(Nodes)]
    /\ closed \in BOOLEAN
    /\ stored \in [Nodes -> SUBSET Rows]
    /\ accepted \subseteq Rows
    /\ dropped \subseteq Rows
    /\ faults \in BOOLEAN

(* A thread has rows in its hands only where the code has a buffer of its  *)
(* own, and the row it brings along only until the swap.                   *)
HandsInv ==
    \A t \in Threads :
        /\ pc[t] \notin Sending => block[t] = {}
        /\ pc[t] # "swap" => new[t] = {}
        /\ pc[t] = "release" =>
              \A r \in block[t] : IsStored(r) \/ (closed /\ r \in dropped)

(* Every row is in one place at most, and nowhere before it is accepted.   *)
PlacesInv ==
    /\ \A n \in Nodes : pending[n] \cup stored[n] \subseteq accepted
    /\ \A t \in Threads : block[t] \cup new[t] \subseteq accepted
    /\ \A m, n \in Nodes : m # n => pending[m] \cap pending[n] = {}
    /\ \A n \in Nodes : \A t \in Threads : pending[n] \cap (block[t] \cup new[t]) = {}
    /\ \A t, u \in Threads :
          /\ block[t] \cap new[u] = {}
          /\ t # u => block[t] \cap block[u] = {} /\ new[t] \cap new[u] = {}

(* As long as no answer was lost, a stored row is on one node and left in  *)
(* no buffer but one that is about to be given back.                       *)
StoredOnceInv ==
    ~ faults =>
        \A n \in Nodes : \A r \in stored[n] :
            /\ \A m \in Nodes : r \notin pending[m] /\ (m # n => r \notin stored[m])
            /\ \A t \in Threads : r \notin new[t] /\ (r \in block[t] => pc[t] = "release")

InsertInv ==
    InsertTypeOK /\ HandsInv /\ NothingLost /\ BuffersConserved /\ PlacesInv /\ StoredOnceInv

-----------------------------------------------------------------------------
\* There are finitely many threads and nodes.
LEMMA ThreadsFinite == IsFiniteSet(Threads) /\ IsFiniteSet(Nodes)
<1>1. IsFiniteSet(1..N)
  BY NAssumption, FS_Interval
<1>2. ASSUME NEW S, NEW T, IsFiniteSet(S), IsFiniteSet(T) PROVE IsFiniteSet(S \cup T)
  BY <1>2, FS_Union
<1> QED BY <1>1, <1>2, WritersAssumption DEF Threads, Nodes

\* What the constants are.
LEMMA SizesType == PoolSize \in Nat /\ DisableSeconds \in Int /\ 1 \in Nodes
BY SizesAssumption, NAssumption DEF Nodes

(* A round of re-routing goes over nodes.                                  *)
LEMMA RoundType ==
    ASSUME NEW s \in Rounds(Available)
    PROVE  s \in Seq(Nodes)
<1>1. Available \subseteq Nodes
  BY DEF Available
<1>2. Cardinality(Available) \in Nat
  BY <1>1, ThreadsFinite, FS_Subset, FS_CardinalityType
<1> QED BY <1>1, <1>2 DEF Rounds

\* The type invariant.
LEMMA TypeInit == Init => InsertTypeOK
<1> SUFFICES ASSUME Init PROVE InsertTypeOK
  OBVIOUS
<1>1. node \in [Threads -> Nodes] /\ pool \in Nat /\ left \in [Nodes -> Int]
  BY SizesType DEF Init
<1>2. todo \in [Threads -> Seq(Nodes)] /\ pc \in [Threads -> Positions]
  BY DEF Init, Positions
<1> QED BY <1>1, <1>2 DEF Init, InsertTypeOK

(* Adding rows to what a node or a thread has.                             *)
LEMMA RowsAdded ==
    ASSUME NEW S, NEW f \in [S -> SUBSET Rows], NEW x \in S, NEW X \in SUBSET Rows
    PROVE  [f EXCEPT ![x] = @ \cup X] \in [S -> SUBSET Rows]
OBVIOUS

(* A step of mustSendInsertRequest after which t is at p, all rows where   *)
(* they were; it succeeds this way only when there was nothing to send.    *)
MovesTo(t, p) ==
    /\ pc[t] \in Sending \ {"release"}
    /\ p \in Sending
    /\ p = "release" => block[t] = {}
    /\ Goto(t, p)
    /\ UNCHANGED <<pending, pool, new, block, closed, stored, accepted, dropped, faults>>

\* A thread that moves on stays in a position of its own,
LEMMA MoveType ==
    ASSUME InsertTypeOK, NEW t \in Threads, NEW p, MovesTo(t, p)
    PROVE  pc' \in [Threads -> Positions]
<1>1. p \in Positions
  BY DEF MovesTo, Positions
<1> QED BY <1>1 DEF InsertTypeOK, MovesTo, Goto

\* and so does one whose send has returned.
LEMMA SendMoves ==
    ASSUME InsertTypeOK, NEW t \in Threads, NEW n \in Nodes,
           NEW failed \in Sending \ {"release"}, NEW next \in Sending \ {"release"},
           SendInsertRequest(t, n, failed, next)
    PROVE  /\ left' \in [Nodes -> Int]
           /\ \E p \in Sending : (p = "release" => block[t] = {}) /\ Goto(t, p)
<1>1. \A f \in [Nodes -> Int] : [f EXCEPT ![n] = DisableSeconds] \in [Nodes -> Int]
  BY SizesType
<1>2. "release" \in Sending
  BY DEF Sending
<1> QED BY <1>1, <1>2 DEF SendInsertRequest, InsertTypeOK

(* The steps that move a thread on and no row.                             *)
LEMMA Moves ==
    ASSUME InsertTypeOK, NEW t \in Threads,
           SendOwn(t) \/ PickNodes(t) \/ SendAny(t) \/ RoundFails(t) \/ Retry(t)
    PROVE  (\E p \in Sending : MovesTo(t, p)) /\ left' \in [Nodes -> Int]
<1> USE DEF MovesTo, history
<1>1. {"own", "pick", "any", "pause", "ownSent", "anySent"} \subseteq Sending \ {"release"}
  BY DEF Sending
<1>2. left \in [Nodes -> Int] /\ node[t] \in Nodes
  BY DEF InsertTypeOK
<1>3. CASE SendOwn(t)
  <2>1. SendInsertRequest(t, node[t], "pick", "ownSent")
    BY <1>3 DEF SendOwn
  <2> QED BY <1>1, <1>2, <1>3, <2>1, SendMoves DEF SendOwn
<1>4. CASE SendAny(t)
  <2>1. SendInsertRequest(t, Head(todo[t]), "any", "anySent") /\ Head(todo[t]) \in Nodes
    BY <1>4 DEF SendAny, InsertTypeOK
  <2> QED BY <1>1, <1>2, <1>4, <2>1, SendMoves DEF SendAny
<1>5. CASE PickNodes(t)
  BY <1>1, <1>2, <1>5 DEF PickNodes
<1>6. CASE RoundFails(t) \/ Retry(t)
  BY <1>1, <1>2, <1>6 DEF RoundFails, Retry, AfterRound
<1> QED BY <1>3, <1>4, <1>5, <1>6,
           SendOwn(t) \/ PickNodes(t) \/ SendAny(t) \/ RoundFails(t) \/ Retry(t)

\* Every step keeps the types.
LEMMA TypeStep == InsertTypeOK /\ [Next]_vars => InsertTypeOK'
<1> SUFFICES ASSUME InsertTypeOK, [Next]_vars PROVE InsertTypeOK'
  OBVIOUS
<1> USE DEF InsertTypeOK, Positions, Sending, Goto, threadVars, history
<1>1. ASSUME NEW w \in Writers, NEW r \in Rows, NEW n \in HomesOf[r],
             AddRow(w, r, n) \/ AddRowToFull(w, r, n)
      PROVE  InsertTypeOK'
  <2>1. n \in Nodes /\ w \in Threads
    BY HomesAssumption DEF Threads
  <2>2. CASE AddRow(w, r, n)
    BY <2>1, <2>2 DEF AddRow
  <2>3. CASE AddRowToFull(w, r, n)
    BY <2>1, <2>3 DEF AddRowToFull
  <2> QED BY <1>1, <2>2, <2>3
<1>2. ASSUME NEW n \in Nodes, FlushPendingData(n) \/ LastFlush(n) PROVE InsertTypeOK'
  BY <1>2 DEF FlushPendingData, LastFlush
<1>3. ASSUME NEW t \in Threads, GrabPendingData(t) PROVE InsertTypeOK'
  BY <1>3 DEF GrabPendingData, Remaining
<1>4. ASSUME NEW t \in Threads,
             SendOwn(t) \/ PickNodes(t) \/ SendAny(t) \/ RoundFails(t) \/ Retry(t)
      PROVE  InsertTypeOK'
  <2>1. PICK p \in Sending : MovesTo(t, p)
    BY <1>4, Moves
  <2>2. left' \in [Nodes -> Int] /\ pc' \in [Threads -> Positions]
    BY <1>4, <2>1, Moves, MoveType
  <2>3. CASE SendAny(t)
    <3>1. Head(todo[t]) \in Nodes /\ Tail(todo[t]) \in Seq(Nodes)
      BY <2>3 DEF SendAny
    <3> QED BY <2>1, <2>2, <2>3, <3>1 DEF MovesTo, SendAny
  <2>4. CASE PickNodes(t)
    BY <2>1, <2>2, <2>4, RoundType DEF MovesTo, PickNodes
  <2>5. CASE SendOwn(t) \/ RoundFails(t) \/ Retry(t)
    BY <2>1, <2>2, <2>5 DEF MovesTo, SendOwn, RoundFails, Retry
  <2> QED BY <1>4, <2>3, <2>4, <2>5
<1>7. ASSUME NEW t \in Threads, Reply(t) \/ Fail(t) PROVE InsertTypeOK'
  <2>1. [stored EXCEPT ![node[t]] = @ \cup block[t]] \in [Nodes -> SUBSET Rows]
    BY RowsAdded
  <2>2. [left EXCEPT ![node[t]] = DisableSeconds] \in [Nodes -> Int]
    BY SizesType
  <2>3. \A p \in Positions : [pc EXCEPT ![t] = p] \in [Threads -> Positions]
    OBVIOUS
  <2>4. stored' \in [Nodes -> SUBSET Rows] /\ left' \in [Nodes -> Int]
    BY <1>7, <2>1, <2>2 DEF Reply, Fail
  <2>5. pc' \in [Threads -> Positions]
    BY <1>7, <2>3 DEF Reply, Fail
  <2> QED BY <1>7, <2>4, <2>5 DEF Reply, Fail
<1>8. ASSUME NEW t \in Threads, Drop(t) PROVE InsertTypeOK'
  BY <1>8 DEF Drop, AfterDrop
<1>9. ASSUME NEW t \in Threads, Release(t) PROVE InsertTypeOK'
  BY <1>9, SizesType DEF Release
<1>10. CASE Second
  BY <1>10 DEF Second, Elapse
<1>11. CASE MustStop \/ Done \/ UNCHANGED vars
  BY <1>11 DEF MustStop, Done, vars
<1> QED
  BY <1>1, <1>2, <1>3, <1>4, <1>7, <1>8, <1>9, <1>10, <1>11
  DEF Next, SenderStep

-----------------------------------------------------------------------------
(* What a step does to the rows: the cases of the invariants' proofs.      *)
LEMMA NextCases ==
    ASSUME InsertTypeOK, [Next]_vars
    PROVE  \/ \E w \in Writers, r \in Rows, n \in Nodes :
                 w \in Threads /\ (AddRow(w, r, n) \/ AddRowToFull(w, r, n))
           \/ \E n \in Nodes : n \in Threads /\ (FlushPendingData(n) \/ LastFlush(n))
           \/ \E t \in Threads, p \in Sending : MovesTo(t, p)
           \/ \E t \in Threads : GrabPendingData(t) \/ Reply(t) \/ Fail(t) \/ Drop(t) \/ Release(t)
           \/ Second \/ MustStop \/ UNCHANGED vars
<1>1. \A r \in Rows : HomesOf[r] \subseteq Nodes
  BY HomesAssumption
<1>2. Writers \subseteq Threads /\ Nodes \subseteq Threads
  BY DEF Threads
<1>3. ASSUME NEW t \in Threads,
             SendOwn(t) \/ PickNodes(t) \/ SendAny(t) \/ RoundFails(t) \/ Retry(t)
      PROVE  \E p \in Sending : MovesTo(t, p)
  BY <1>3, Moves
<1>4. Done => UNCHANGED vars
  BY DEF Done
<1>5. ASSUME NEW w \in Writers, NEW r \in Rows, NEW n \in HomesOf[r],
             AddRow(w, r, n) \/ AddRowToFull(w, r, n)
      PROVE  \E m \in Nodes : w \in Threads /\ (AddRow(w, r, m) \/ AddRowToFull(w, r, m))
  BY <1>1, <1>2, <1>5
<1>6. ASSUME NEW t \in Threads, SenderStep(t)
      PROVE  \/ \E p \in Sending : MovesTo(t, p)
             \/ GrabPendingData(t) \/ Reply(t) \/ Fail(t) \/ Drop(t) \/ Release(t)
  BY <1>3, <1>6 DEF SenderStep
<1>7. CASE \E w \in Writers, r \in Rows : \E n \in HomesOf[r] :
             AddRow(w, r, n) \/ AddRowToFull(w, r, n)
  BY <1>5, <1>7
<1>8. CASE \E t \in Threads : SenderStep(t)
  <2>1. PICK t \in Threads : SenderStep(t)
    BY <1>8
  <2>2. CASE \E p \in Sending : MovesTo(t, p)
    BY <2>2
  <2>3. CASE GrabPendingData(t) \/ Reply(t) \/ Fail(t) \/ Drop(t) \/ Release(t)
    BY <2>3
  <2> QED BY <1>6, <2>1, <2>2, <2>3
<1>9. CASE \E n \in Nodes : FlushPendingData(n) \/ LastFlush(n)
  BY <1>2, <1>9
<1>10. CASE Second \/ MustStop \/ Done \/ UNCHANGED vars
  BY <1>4, <1>10
<1>11. Next \/ UNCHANGED vars
  OBVIOUS
<1> QED BY <1>7, <1>8, <1>9, <1>10, <1>11 DEF Next

\* A block is in the hands of one thread.
LEMMA HandsStep == InsertTypeOK /\ HandsInv /\ [Next]_vars => HandsInv'
<1> SUFFICES ASSUME InsertTypeOK, HandsInv, [Next]_vars PROVE HandsInv'
  OBVIOUS
<1> USE DEF HandsInv, IsStored, Sending, Goto, threadVars, history
<1>1. ASSUME NEW w \in Threads, NEW r \in Rows, NEW n \in Nodes,
             AddRow(w, r, n) \/ AddRowToFull(w, r, n)
      PROVE  HandsInv'
  BY <1>1 DEF AddRow, AddRowToFull, InsertTypeOK
<1>2. ASSUME NEW n \in Nodes, FlushPendingData(n) \/ LastFlush(n) PROVE HandsInv'
  BY <1>2 DEF FlushPendingData, LastFlush, InsertTypeOK
<1>3. ASSUME NEW t \in Threads, NEW p \in Sending, MovesTo(t, p) PROVE HandsInv'
  BY <1>3 DEF MovesTo, InsertTypeOK
<1>4. ASSUME NEW t \in Threads, GrabPendingData(t) PROVE HandsInv'
  BY <1>4 DEF GrabPendingData, InsertTypeOK
<1>5. ASSUME NEW t \in Threads, Reply(t) PROVE HandsInv'
  BY <1>5 DEF Reply, InsertTypeOK
<1>6. ASSUME NEW t \in Threads, Fail(t) PROVE HandsInv'
  BY <1>6 DEF Fail, InsertTypeOK
<1>7. ASSUME NEW t \in Threads, Drop(t) PROVE HandsInv'
  BY <1>7 DEF Drop, AfterDrop, InsertTypeOK
<1>8. ASSUME NEW t \in Threads, Release(t) PROVE HandsInv'
  BY <1>8 DEF Release, InsertTypeOK
<1>9. CASE Second \/ MustStop \/ UNCHANGED vars
  BY <1>9 DEF Second, MustStop, vars
<1> QED BY NextCases, <1>1, <1>2, <1>3, <1>4, <1>5, <1>6, <1>7, <1>8, <1>9

\* No step loses a row.
LEMMA NothingLostStep ==
    InsertTypeOK /\ HandsInv /\ NothingLost /\ [Next]_vars => NothingLost'
<1> SUFFICES ASSUME InsertTypeOK, HandsInv, NothingLost, [Next]_vars, NEW x \in accepted'
             PROVE  (InBuffer(x) \/ IsStored(x) \/ (closed /\ x \in dropped))'
  BY DEF NothingLost
<1> USE DEF InBuffer, IsStored, Goto, threadVars, history
<1>0. x \in accepted => InBuffer(x) \/ IsStored(x) \/ (closed /\ x \in dropped)
  BY DEF NothingLost
<1> DEFINE Kept == (InBuffer(x) \/ IsStored(x) \/ (closed /\ x \in dropped))'
<1>1. ASSUME NEW w \in Threads, NEW r \in Rows, NEW n \in Nodes,
             AddRow(w, r, n) \/ AddRowToFull(w, r, n)
      PROVE  Kept
  <2>1. CASE AddRow(w, r, n)
    BY <1>0, <2>1 DEF AddRow, InsertTypeOK
  <2>2. CASE AddRowToFull(w, r, n)
    <3>1. new[w] = {}
      BY <2>2 DEF AddRowToFull, HandsInv
    <3> QED BY <1>0, <2>2, <3>1 DEF AddRowToFull, InsertTypeOK
  <2> QED BY <1>1, <2>1, <2>2
<1>2. ASSUME NEW n \in Nodes, FlushPendingData(n) \/ LastFlush(n) PROVE Kept
  BY <1>0, <1>2 DEF FlushPendingData, LastFlush
<1>3. ASSUME NEW t \in Threads, NEW p \in Sending, MovesTo(t, p) PROVE Kept
  BY <1>0, <1>3 DEF MovesTo
<1>4. ASSUME NEW t \in Threads, GrabPendingData(t) PROVE Kept
  <2>1. block[t] = {} /\ node[t] \in Nodes
    BY <1>4 DEF GrabPendingData, HandsInv, InsertTypeOK, Sending
  <2> QED BY <1>0, <1>4, <2>1 DEF GrabPendingData, Remaining, InsertTypeOK
<1>5. ASSUME NEW t \in Threads, Reply(t) \/ Fail(t) PROVE Kept
  BY <1>0, <1>5 DEF Reply, Fail, InsertTypeOK
<1>6. ASSUME NEW t \in Threads, Drop(t) PROVE Kept
  BY <1>0, <1>6 DEF Drop
<1>7. ASSUME NEW t \in Threads, Release(t) PROVE Kept
  <2>1. \A r \in block[t] : IsStored(r) \/ (closed /\ r \in dropped)
    BY <1>7 DEF Release, HandsInv
  <2> QED BY <1>0, <1>7, <2>1 DEF Release, InsertTypeOK
<1>8. CASE Second \/ MustStop \/ UNCHANGED vars
  BY <1>0, <1>8 DEF Second, MustStop, vars
<1> QED BY NextCases, <1>1, <1>2, <1>3, <1>4, <1>5, <1>6, <1>7, <1>8

(* The threads that hold a buffer.                                         *)
Holders == {t \in Threads : pc[t] \in Sending}

\* Threads that hold a buffer can be counted.
LEMMA HoldersFinite == IsFiniteSet(Holders) /\ Cardinality(Holders) \in Nat
BY ThreadsFinite, FS_Subset, FS_CardinalityType DEF Holders

\* Every buffer that is taken is given back.
LEMMA BuffersStep == InsertTypeOK /\ BuffersConserved /\ [Next]_vars => BuffersConserved'
<1> SUFFICES ASSUME InsertTypeOK, BuffersConserved, [Next]_vars PROVE BuffersConserved'
  OBVIOUS
<1> USE DEF Goto, threadVars, history
<1>0. pool \in Nat /\ pool + Cardinality(Holders) = PoolSize
  BY DEF InsertTypeOK, BuffersConserved, Holders
<1>0a. SUFFICES pool' + Cardinality(Holders') = PoolSize
  BY DEF BuffersConserved, Holders
<1>1. ASSUME NEW w \in Threads, NEW r \in Rows, NEW n \in Nodes,
             AddRow(w, r, n) \/ AddRowToFull(w, r, n)
      PROVE  pool' = pool /\ Holders' = Holders
  BY <1>1 DEF AddRow, AddRowToFull, InsertTypeOK, Holders, Sending
<1>2. ASSUME NEW n \in Nodes, n \in Threads, FlushPendingData(n) \/ LastFlush(n)
      PROVE  pool' = pool /\ Holders' = Holders
  BY <1>2 DEF FlushPendingData, LastFlush, InsertTypeOK, Holders, Sending
<1>3. ASSUME NEW t \in Threads, NEW p \in Sending, MovesTo(t, p)
      PROVE  pool' = pool /\ Holders' = Holders
  BY <1>3 DEF MovesTo, InsertTypeOK, Holders
<1>4. ASSUME NEW t \in Threads, GrabPendingData(t)
      PROVE  pool' + Cardinality(Holders') = PoolSize
  <2>1. t \notin Holders /\ Holders' = Holders \cup {t} /\ pool' = pool - 1
    BY <1>4 DEF GrabPendingData, InsertTypeOK, Holders, Sending
  <2>2. Cardinality(Holders \cup {t}) = Cardinality(Holders) + 1
    BY <2>1, HoldersFinite, FS_AddElement
  <2> QED BY <1>0, <2>1, <2>2, HoldersFinite
<1>5. ASSUME NEW t \in Threads, Reply(t) \/ Fail(t) \/ Drop(t)
      PROVE  pool' = pool /\ Holders' = Holders
  BY <1>5 DEF Reply, Fail, Drop, AfterDrop, InsertTypeOK, Holders, Sending
<1>6. ASSUME NEW t \in Threads, Release(t)
      PROVE  pool' + Cardinality(Holders') = PoolSize
  <2>1. t \in Holders /\ Holders' = Holders \ {t} /\ pool' = pool + 1
    BY <1>6 DEF Release, InsertTypeOK, Holders, Sending
  <2>2. Cardinality(Holders \ {t}) = Cardinality(Holders) - 1
    BY <2>1, HoldersFinite, FS_RemoveElement
  <2> QED BY <1>0, <2>1, <2>2, HoldersFinite
<1>7. ASSUME Second \/ MustStop \/ UNCHANGED vars
      PROVE  pool' = pool /\ Holders' = Holders
  BY <1>7 DEF Second, MustStop, vars, Holders
<1> QED BY NextCases, <1>0, <1>1, <1>2, <1>3, <1>4, <1>5, <1>6, <1>7

\* A row is pending, in a block or in neither.
LEMMA PlacesStep == InsertTypeOK /\ HandsInv /\ PlacesInv /\ [Next]_vars => PlacesInv'
<1> SUFFICES ASSUME InsertTypeOK, HandsInv, PlacesInv, [Next]_vars PROVE PlacesInv'
  OBVIOUS
<1> USE DEF PlacesInv, Goto, threadVars, history
<1>1. ASSUME NEW w \in Threads, NEW r \in Rows, NEW n \in Nodes,
             AddRow(w, r, n) \/ AddRowToFull(w, r, n)
      PROVE  PlacesInv'
  <2>1. CASE AddRow(w, r, n)
    BY <2>1 DEF AddRow, InsertTypeOK
  <2>2. CASE AddRowToFull(w, r, n)
    BY <2>2 DEF AddRowToFull, InsertTypeOK
  <2> QED BY <1>1, <2>1, <2>2
<1>0. UNCHANGED <<pending, new, block, stored, accepted>> => PlacesInv'
  OBVIOUS
<1>2. ASSUME NEW n \in Nodes, FlushPendingData(n) \/ LastFlush(n) PROVE PlacesInv'
  BY <1>0, <1>2 DEF FlushPendingData, LastFlush
<1>3. ASSUME NEW t \in Threads, NEW p \in Sending, MovesTo(t, p) PROVE PlacesInv'
  BY <1>3 DEF MovesTo
<1>4. ASSUME NEW t \in Threads, GrabPendingData(t) PROVE PlacesInv'
  <2>1. block[t] = {} /\ node[t] \in Nodes
    BY <1>4 DEF GrabPendingData, HandsInv, InsertTypeOK, Sending
  <2> QED BY <1>4, <2>1 DEF GrabPendingData, Remaining, InsertTypeOK
<1>5. ASSUME NEW t \in Threads, Reply(t) \/ Fail(t) PROVE PlacesInv'
  <2>1. UNCHANGED <<pending, new, block, accepted>>
    BY <1>5 DEF Reply, Fail
  <2>2. \A n \in Nodes : stored'[n] \subseteq stored[n] \cup block[t]
    BY <1>5 DEF Reply, Fail, InsertTypeOK
  <2> QED BY <2>1, <2>2
<1>6. ASSUME NEW t \in Threads, Drop(t) PROVE PlacesInv'
  BY <1>6 DEF Drop
<1>7. ASSUME NEW t \in Threads, Release(t) PROVE PlacesInv'
  BY <1>7 DEF Release, InsertTypeOK
<1>8. CASE Second \/ MustStop \/ UNCHANGED vars
  BY <1>8 DEF Second, MustStop, vars
<1> QED BY NextCases, <1>1, <1>2, <1>3, <1>4, <1>5, <1>6, <1>7, <1>8

\* A second copy takes a lost answer.
LEMMA StoredOnceStep ==
    InsertTypeOK /\ HandsInv /\ PlacesInv /\ StoredOnceInv /\ [Next]_vars => StoredOnceInv'
<1> SUFFICES ASSUME InsertTypeOK, HandsInv, PlacesInv, StoredOnceInv, [Next]_vars
             PROVE  StoredOnceInv'
  OBVIOUS
<1> USE DEF StoredOnceInv, Goto, threadVars, history
<1>1. ASSUME NEW w \in Threads, NEW r \in Rows, NEW n \in Nodes,
             AddRow(w, r, n) \/ AddRowToFull(w, r, n)
      PROVE  StoredOnceInv'
  <2>1. \A m \in Nodes : r \notin stored[m]
    BY <1>1 DEF AddRow, AddRowToFull, PlacesInv
  <2>2. CASE AddRow(w, r, n)
    BY <2>1, <2>2 DEF AddRow, InsertTypeOK
  <2>3. CASE AddRowToFull(w, r, n)
    BY <2>1, <2>3 DEF AddRowToFull, InsertTypeOK
  <2> QED BY <1>1, <2>2, <2>3
<1>2. ASSUME NEW n \in Nodes, n \in Threads, FlushPendingData(n) \/ LastFlush(n)
      PROVE  StoredOnceInv'
  BY <1>2 DEF FlushPendingData, LastFlush, InsertTypeOK
<1>3. ASSUME NEW t \in Threads, NEW p \in Sending, MovesTo(t, p) PROVE StoredOnceInv'
  BY <1>3 DEF MovesTo, InsertTypeOK
<1>4. ASSUME NEW t \in Threads, GrabPendingData(t) PROVE StoredOnceInv'
  <2>1. block[t] = {} /\ node[t] \in Nodes
    BY <1>4 DEF GrabPendingData, HandsInv, InsertTypeOK, Sending
  <2> QED BY <1>4, <2>1 DEF GrabPendingData, Remaining, InsertTypeOK
<1>5. ASSUME NEW t \in Threads, Reply(t), ~ faults PROVE StoredOnceInv'
  <2>1. /\ node[t] \in Nodes
        /\ pc[t] # "release" /\ new[t] = {}
        /\ pc' = [pc EXCEPT ![t] = "release"]
        /\ stored' = [stored EXCEPT ![node[t]] = @ \cup block[t]]
        /\ UNCHANGED <<pending, new, block, faults>>
    BY <1>5 DEF Reply, InsertTypeOK, HandsInv
  <2>2. \A r \in block[t] :
          /\ \A m \in Nodes : r \notin pending[m] /\ r \notin stored[m]
          /\ \A u \in Threads : r \notin new[u] /\ (r \in block[u] => u = t)
    BY <1>5, <2>1 DEF PlacesInv
  <2>3. ASSUME NEW n \in Nodes, NEW r \in stored'[n]
        PROVE  (n = node[t] /\ r \in block[t]) \/ r \in stored[n]
    BY <2>1, <2>3 DEF InsertTypeOK
  <2> QED BY <1>5, <2>1, <2>2, <2>3 DEF InsertTypeOK
<1>6. ASSUME NEW t \in Threads, Fail(t) PROVE StoredOnceInv'
  BY <1>6 DEF Fail
<1>7. ASSUME NEW t \in Threads, Drop(t) PROVE StoredOnceInv'
  BY <1>7 DEF Drop, AfterDrop, InsertTypeOK
<1>8. ASSUME NEW t \in Threads, Release(t) PROVE StoredOnceInv'
  BY <1>8 DEF Release, InsertTypeOK
<1>9. CASE Second \/ MustStop \/ UNCHANGED vars
  BY <1>9 DEF Second, MustStop, vars
<1>10. ASSUME NEW t \in Threads, Reply(t), faults PROVE StoredOnceInv'
  BY <1>10 DEF Reply
<1> QED BY NextCases, <1>1, <1>2, <1>3, <1>4, <1>5, <1>6, <1>7, <1>8, <1>9, <1>10

-----------------------------------------------------------------------------
\* The invariant holds initially.
LEMMA InsertInit == Init => InsertInv
<1> SUFFICES ASSUME Init PROVE InsertInv
  OBVIOUS
<1>1. InsertTypeOK
  BY TypeInit
<1>2. HandsInv /\ NothingLost /\ PlacesInv /\ StoredOnceInv
  BY DEF Init, HandsInv, NothingLost, PlacesInv, StoredOnceInv
<1>3. BuffersConserved
  <2>1. {t \in Threads : pc[t] \in Sending} = {}
    BY DEF Init, Sending
  <2>2. Cardinality({}) = 0
    BY FS_EmptySet
  <2>3. pool = PoolSize /\ PoolSize + 0 = PoolSize
    BY SizesType DEF Init
  <2> QED BY <2>1, <2>2, <2>3 DEF BuffersConserved
<1> QED BY <1>1, <1>2, <1>3 DEF InsertInv

(* The inductive invariant of the senders: types, what a thread may have   *)
(* in its hands at each place of mustSendInsertRequest, and where a row    *)
(* can be.                                                                 *)
THEOREM InsertInvariant == Spec => []InsertInv
<1>1. InsertInv /\ [Next]_vars => InsertInv'
  BY TypeStep, HandsStep, NothingLostStep, BuffersStep, PlacesStep, StoredOnceStep
  DEF InsertInv
<1> QED BY InsertInit, <1>1, PTL DEF Spec

(* No failure, re-route, retry or concurrent flush loses a row that        *)
(* AddRow took, however many nodes and writers there are: it is given up   *)
(* only once the storage is being stopped.                                 *)
THEOREM NoRowIsLost == Spec => []NothingLost
BY InsertInvariant, PTL DEF InsertInv

(* Every buffer that is not in the pool is in the hands of one thread that *)
(* gives it back: the send to the bounded channel never blocks.            *)
THEOREM BuffersAreConserved == Spec => []BuffersConserved
BY InsertInvariant, PTL DEF InsertInv

(* Pending data and the blocks being sent never share a row, so two nodes  *)
(* store the same row only after an answer was lost.                       *)
THEOREM RowsHaveOneCopy == Spec => []OneCopy
<1>1. InsertInv => OneCopy
  BY DEF InsertInv, OneCopy, PlacesInv, StoredOnceInv
<1> QED BY InsertInvariant, <1>1, PTL

(***************************************************************************)
(* SpanRow.                                                                *)
(***************************************************************************)

IsList(s) == s \in Seq(ToSet(s))

\* A sequence over any set is a list of its own elements.
LEMMA ListOfAny == ASSUME NEW S, NEW s \in Seq(S) PROVE IsList(s)
<1>1. DOMAIN s = 1..Len(s) /\ Len(s) \in Nat
  OBVIOUS
<1>2. s \in [1..Len(s) -> ToSet(s)]
  BY <1>1 DEF ToSet
<1> QED  BY <1>1, <1>2 DEF IsList

\* What a list and one put behind it hold, and what cutting back to the first leaves.
LEMMA ListConcat ==
  ASSUME NEW a, NEW b, IsList(a), IsList(b)
  PROVE  /\ IsList(a \o b)
         /\ ToSet(a \o b) = ToSet(a) \cup ToSet(b)
         /\ Len(a \o b) = Len(a) + Len(b)
         /\ SubSeq(a \o b, 1, Len(a)) = a
         /\ \A n \in 0..Len(a) : SubSeq(a \o b, 1, n) = SubSeq(a, 1, n)
<1> DEFINE S == ToSet(a) \cup ToSet(b)
<1>1. a \in Seq(S) /\ b \in Seq(S)
  <2>1. a \in Seq(ToSet(a)) /\ b \in Seq(ToSet(b))
    BY DEF IsList
  <2> QED  BY <2>1
<1>2. a \o b \in Seq(S) /\ Len(a \o b) = Len(a) + Len(b)
  BY <1>1
<1>3. IsList(a \o b)
  BY <1>2, ListOfAny
<1>4. /\ \A j \in 1..Len(a) : (a \o b)[j] = a[j]
      /\ \A j \in 1..Len(b) : (a \o b)[Len(a) + j] = b[j]
      /\ DOMAIN a = 1..Len(a) /\ DOMAIN b = 1..Len(b) /\ DOMAIN (a \o b) = 1..(Len(a) + Len(b))
      /\ Len(a) \in Nat /\ Len(b) \in Nat
  BY <1>1, <1>2
<1>5. ToSet(a \o b) = ToSet(a) \cup ToSet(b)
  <2>1. ASSUME NEW x \in ToSet(a) PROVE x \in ToSet(a \o b)
    <3>1. PICK j \in DOMAIN a : a[j] = x
      BY DEF ToSet
    <3> QED  BY <3>1, <1>4 DEF ToSet
  <2>2. ASSUME NEW x \in ToSet(b) PROVE x \in ToSet(a \o b)
    <3>1. PICK j \in DOMAIN b : b[j] = x
      BY DEF ToSet
    <3>2. Len(a) + j \in DOMAIN (a \o b) /\ (a \o b)[Len(a) + j] = x
      BY <3>1, <1>4
    <3> QED  BY <3>2 DEF ToSet
  <2>3. ASSUME NEW x \in ToSet(a \o b) PROVE x \in ToSet(a) \cup ToSet(b)
    <3>1. PICK j \in DOMAIN (a \o b) : (a \o b)[j] = x
      BY DEF ToSet
    <3>2. CASE j <= Len(a)
      BY <3>1, <3>2, <1>4 DEF ToSet
    <3>3. CASE j > Len(a)
      <4>1. j - Len(a) \in 1..Len(b) /\ j = Len(a) + (j - Len(a))
        BY <3>1, <3>3, <1>4
      <4> QED  BY <3>1, <4>1, <1>4 DEF ToSet
    <3> QED  BY <3>1, <3>2, <3>3, <1>4
  <2> QED  BY <2>1, <2>2, <2>3
<1>6. \A n \in 0..Len(a) : SubSeq(a \o b, 1, n) = SubSeq(a, 1, n)
  <2> TAKE n \in 0..Len(a)
  <2>1. SubSeq(a \o b, 1, n) = [j \in 1..n |-> (a \o b)[j]] /\ SubSeq(a, 1, n) = [j \in 1..n |-> a[j]]
    BY <1>1, <1>2, <1>4
  <2> QED  BY <2>1, <1>4
<1>7. SubSeq(a, 1, Len(a)) = a
  BY <1>1
<1> QED  BY <1>2, <1>3, <1>4, <1>5, <1>6, <1>7

\* Lists of no, one and two elements.
LEMMA ListOfFew ==
  /\ IsList(<<>>) /\ ToSet(<<>>) = {}
  /\ \A x : IsList(<<x>>) /\ ToSet(<<x>>) = {x} /\ Len(<<x>>) = 1
  /\ \A x, y : IsList(<<x, y>>) /\ ToSet(<<x, y>>) = {x, y} /\ Len(<<x, y>>) = 2
<1>1. IsList(<<>>) /\ ToSet(<<>>) = {}
  BY DEF IsList, ToSet
<1>2. ASSUME NEW x PROVE IsList(<<x>>) /\ ToSet(<<x>>) = {x} /\ Len(<<x>>) = 1
  <2>1. <<x>> \in Seq({x})
    OBVIOUS
  <2>2. DOMAIN <<x>> = 1..1 /\ <<x>>[1] = x
    OBVIOUS
  <2>3. IsList(<<x>>) /\ Len(<<x>>) = 1
    BY <2>1, ListOfAny
  <2>4. ToSet(<<x>>) = {x}
    BY <2>2 DEF ToSet
  <2> QED  BY <2>3, <2>4
<1>3. ASSUME NEW x, NEW y PROVE IsList(<<x, y>>) /\ ToSet(<<x, y>>) = {x, y} /\ Len(<<x, y>>) = 2
  <2>1. <<x, y>> \in Seq({x, y})
    OBVIOUS
  <2>2. DOMAIN <<x, y>> = 1..2 /\ <<x, y>>[1] = x /\ <<x, y>>[2] = y
    OBVIOUS
  <2>3. IsList(<<x, y>>) /\ Len(<<x, y>>) = 2
    BY <2>1, ListOfAny
  <2>4. ToSet(<<x, y>>) = {x, y}
    <3>1. \A z : (\E j \in 1..2 : <<x, y>>[j] = z) <=> z \in {x, y}
      BY <2>2
    <3> QED  BY <3>1, <2>2 DEF ToSet
  <2> QED  BY <2>3, <2>4
<1> QED  BY <1>1, <1>2, <1>3

\* Append is a concatenation.
LEMMA ListAppend ==
  ASSUME NEW a, NEW x, IsList(a)
  PROVE  Append(a, x) = a \o <<x>>
<1>1. a \in Seq(ToSet(a) \cup {x}) /\ <<x>> \in Seq(ToSet(a) \cup {x})
  <2>1. a \in Seq(ToSet(a))
    BY DEF IsList
  <2> QED  BY <2>1
<1> QED  BY <1>1

TracedLink == {ln \in Link : ln.trace # ""}
Span == [trace : Strings, id : Strings, parent : Strings, name : Strings, kind : 0..(W - 1), start : 0..(W \div 2), end : 0..(W \div 2),
         message : Strings, code : 0..(W - 1), attrs : Seq(Leaf), events : Seq(Event), links : Seq(TracedLink)]
Sent == {s \in [resource : Seq(Leaf), scope : Seq(Leaf), span : Span] : Len(s.span.events) < W /\ Len(s.span.links) < W}

PlainKeys == {"span_id", "parent_span_id", "name", "kind", "start_time", "end_time", "duration", "status_message", "status_code", "trace_id"}
PlainFields(plain) == {Field(<<Blank, k, Blank>>, plain[k]) : k \in PlainKeys}
EventFields(ev, index, time) ==
    {Field(<<"event:", "event_time_unix_nano", index>>, time), Field(<<"event:", "event_name", index>>, ev.name)}
    \cup ToSet(AttributeFields(ev.attrs, "event:event_attr:", index))
LinkFields(ln, index) ==
    {Field(<<"link:", "trace_id", index>>, ln.trace), Field(<<"link:", "span_id", index>>, ln.span)}
    \cup ToSet(AttributeFields(ln.attrs, "link:link_attr:", index))
\* The fields of a span, whatever the texts of its plain fields and of the times of its events.
FieldsOf(s, plain, times) ==
    PlainFields(plain)
    \cup ToSet(AttributeFields(s.resource, "resource_attr:", Blank)) \cup ToSet(AttributeFields(s.scope, "scope_attr:", Blank))
    \cup ToSet(AttributeFields(s.span.attrs, "span_attr:", Blank))
    \cup (UNION {EventFields(s.span.events[j], Dec(j - 1), times[j]) : j \in DOMAIN s.span.events})
    \cup (UNION {LinkFields(s.span.links[j], Dec(j - 1)) : j \in DOMAIN s.span.links})

\* A number is read back from its decimal text, which is never empty.
LEMMA NumberOfDec == \A n \in 0..(W - 1) : Dec(n) # "" /\ Number(Dec(n)) = n /\ \A m \in 0..(W - 1) : Dec(m) = Dec(n) => m = n
  BY BoundsAssumption, DecimalAssumption DEF Number, Dec

\* The parts of a name.
LEMMA Triple == ASSUME NEW x, NEW y, NEW z PROVE <<x, y, z>>[1] = x /\ <<x, y, z>>[2] = y /\ <<x, y, z>>[3] = z
  OBVIOUS

\* The parts of a field.
LEMMA FieldName ==
  ASSUME NEW f, NEW p, NEW k, NEW i, NEW t, f = Field(<<p, k, i>>, t)
  PROVE  f.n = <<p, k, i>> /\ f.v = t /\ f.n[1] = p /\ f.n[2] = k /\ f.n[3] = i
  BY DEF Field

AttributeSet(attrs, p, i) == {Field(<<p, x[1], i>>, x[2]) : x \in FlatSet(attrs)}

\* The fields of a list of attributes are one for every flattened one, and each has a text.
LEMMA FlatFacts ==
  ASSUME NEW attrs \in Seq(Leaf), NEW p, NEW i
  PROVE  /\ IsList(AttributeFields(attrs, p, i)) /\ Len(AttributeFields(attrs, p, i)) = Len(attrs)
         /\ ToSet(AttributeFields(attrs, p, i)) = AttributeSet(attrs, p, i)
         /\ \A x \in FlatSet(attrs) : x = <<x[1], x[2]>> /\ x[2] # ""
<1> DEFINE A == AttributeFields(attrs, p, i)
           K == KeyValues(attrs)
<1>1. /\ DOMAIN A = 1..Len(attrs) /\ Len(attrs) \in Nat /\ DOMAIN K = 1..Len(attrs)
      /\ \A j \in 1..Len(attrs) : A[j] = Field(<<p, K[j][1], i>>, K[j][2])
  <2>1. DOMAIN attrs = 1..Len(attrs) /\ Len(attrs) \in Nat
    OBVIOUS
  <2>2. DOMAIN K = DOMAIN attrs
    BY DEF KeyValues
  <2>3. DOMAIN A = DOMAIN attrs /\ \A j \in DOMAIN attrs : A[j] = Field(<<p, K[j][1], i>>, K[j][2])
    BY DEF AttributeFields
  <2> QED  BY <2>1, <2>2, <2>3
<1>2. A \in [1..Len(attrs) -> ToSet(A)]
  <2>1. A = [j \in 1..Len(attrs) |-> A[j]]
    BY <1>1 DEF AttributeFields
  <2>2. \A j \in 1..Len(attrs) : A[j] \in ToSet(A)
    BY <1>1 DEF ToSet
  <2> HIDE DEF A
  <2> QED  BY <2>1, <2>2
<1>3. A \in Seq(ToSet(A)) /\ Len(A) = Len(attrs)
  <2> HIDE DEF A
  <2> QED  BY <1>1, <1>2
<1>4. ToSet(A) = {Field(<<p, x[1], i>>, x[2]) : x \in FlatSet(attrs)}
  <2>1. ToSet(A) = {A[j] : j \in 1..Len(attrs)} /\ FlatSet(attrs) = {K[j] : j \in 1..Len(attrs)}
    BY <1>1 DEF ToSet, FlatSet
  <2> DEFINE E(x) == Field(<<p, x[1], i>>, x[2])
  <2>2. \A j \in 1..Len(attrs) : A[j] = E(K[j])
    BY <1>1
  <2> HIDE DEF A, K, E
  <2>3. {A[j] : j \in 1..Len(attrs)} = {E(x) : x \in {K[j] : j \in 1..Len(attrs)}}
    BY <2>2
  <2> QED  BY <2>1, <2>3 DEF E
<1>5. ASSUME NEW x \in FlatSet(attrs) PROVE x = <<x[1], x[2]>> /\ x[2] # ""
  <2>1. PICK j \in 1..Len(attrs) : x = K[j]
    BY <1>1, <1>5 DEF ToSet, FlatSet
  <2>2. K[j] = <<Dotted(attrs[j].path), IF attrs[j].val = "" THEN "-" ELSE attrs[j].val>>
    BY <1>1 DEF KeyValues
  <2> DEFINE y == Dotted(attrs[j].path)
             v == IF attrs[j].val = "" THEN "-" ELSE attrs[j].val
  <2>3. v # ""
    OBVIOUS
  <2>4. x = <<y, v>>
    BY <2>1, <2>2
  <2> HIDE DEF y, v
  <2>5. x[1] = y /\ x[2] = v
    BY <2>4
  <2> QED  BY <2>3, <2>4, <2>5
<1> QED  BY <1>3, <1>4, <1>5 DEF IsList, AttributeSet

\* A field that alone has its name is found in the row, or is empty.
LEMMA TextIs ==
  ASSUME NEW F, NEW name, NEW t, Field(name, t) \in F, \A f \in F : f.n = name => f = Field(name, t)
  PROVE  Text(RowOf(F), name) = t
<1> DEFINE row == RowOf(F)
<1>1. Field(name, t).n = name /\ Field(name, t).v = t
  BY DEF Field
<1>2. \A f \in row : f \in F /\ f.v # ""
  BY DEF RowOf
<1>3. CASE t = ""
  <2>1. ~ \E f \in row : f.n = name
    BY <1>1, <1>2, <1>3
  <2> QED  BY <2>1, <1>3 DEF Text
<1>4. CASE t # ""
  <2>1. Field(name, t) \in row
    BY <1>1, <1>4 DEF RowOf
  <2>2. PICK f \in row : f = CHOOSE g \in row : g.n = name
    BY <2>1, <1>1
  <2>3. f.n = name
    BY <2>1, <2>2, <1>1
  <2>4. f.v = t
    BY <2>3, <1>1, <1>2
  <2> HIDE DEF row
  <2>5. Text(row, name) = f.v
    BY <2>1, <2>2, <1>1 DEF Text
  <2> QED  BY <2>4, <2>5 DEF row
<1> QED  BY <1>3, <1>4

\* If a prefix and an index tell the attributes of a list from all other fields, they are read back.
LEMMA AttributesAre ==
  ASSUME NEW F, NEW attrs \in Seq(Leaf), NEW p, NEW i, ToSet(AttributeFields(attrs, p, i)) \subseteq F,
         \A f \in F : f.n[1] = p /\ f.n[3] = i => f \in ToSet(AttributeFields(attrs, p, i))
  PROVE  AttributesOf(RowOf(F), p, i) = FlatSet(attrs)
<1> DEFINE A == ToSet(AttributeFields(attrs, p, i))
           G == {g \in RowOf(F) : g.n[1] = p /\ g.n[3] = i}
<1>1. A = {Field(<<p, x[1], i>>, x[2]) : x \in FlatSet(attrs)} /\ \A x \in FlatSet(attrs) : x = <<x[1], x[2]>> /\ x[2] # ""
  BY FlatFacts DEF AttributeSet
<1>2. \A x : Field(<<p, x[1], i>>, x[2]).n = <<p, x[1], i>> /\ Field(<<p, x[1], i>>, x[2]).v = x[2]
  BY DEF Field
<1>3. G = A
  <2>1. G \subseteq A
    BY DEF RowOf
  <2>2. ASSUME NEW f \in A PROVE f \in G
    <3>1. PICK x \in FlatSet(attrs) : f = Field(<<p, x[1], i>>, x[2])
      BY <1>1, <2>2
    <3>2. f.n = <<p, x[1], i>> /\ f.v # "" /\ f \in F
      BY <1>1, <1>2, <3>1, <2>2
    <3>3. f.n[1] = p /\ f.n[3] = i
      BY <3>1, FieldName
    <3> QED  BY <3>2, <3>3 DEF RowOf
  <2> QED  BY <2>1, <2>2
<1>4. AttributesOf(RowOf(F), p, i) = {<<f.n[2], f.v>> : f \in A}
  BY <1>3 DEF AttributesOf
<1>5. \A x \in FlatSet(attrs) : Field(<<p, x[1], i>>, x[2]).n[2] = x[1]
  BY <1>2
<1> DEFINE E(x) == Field(<<p, x[1], i>>, x[2])
           B(f) == <<f.n[2], f.v>>
<1>6. \A x \in FlatSet(attrs) : B(E(x)) = x
  BY <1>1, <1>2, <1>5
<1>7. A = {E(x) : x \in FlatSet(attrs)} /\ AttributesOf(RowOf(F), p, i) = {B(f) : f \in A}
  BY <1>1, <1>4
<1> HIDE DEF A, E, B
<1> QED  BY <1>6, <1>7

\* Items that have every index from 0 to n - 1 are read off complete and in order.
LEMMA CollectedAll ==
  ASSUME NEW n \in 0..(W - 1), NEW items, DOMAIN items = {Dec(j - 1) : j \in 1..n}
  PROVE  Collected(items) = [j \in 1..n |-> items[Dec(j - 1)]]
<1> DEFINE D == {Dec(j - 1) : j \in 1..n}
           g == [j \in 1..n |-> Dec(j - 1)]
<1>1. \A j \in 1..n : j - 1 \in 0..(W - 1)
  BY BoundsAssumption
<1>2. ASSUME NEW j \in 1..n, NEW k \in 1..n, Dec(j - 1) = Dec(k - 1) PROVE j = k
  <2>1. j - 1 = k - 1
    BY <1>1, <1>2, NumberOfDec
  <2> QED  BY <2>1
<1>3. g \in [1..n -> D] /\ \A j, k \in 1..n : g[j] = g[k] => j = k
  BY <1>2
<1>4. g \in Injection(1..n, D)
  <2> HIDE DEF g, D
  <2> QED  BY <1>3, Zenon DEF Injection, IsInjective
<1>5. \A x \in D : \E j \in 1..n : g[j] = x
  OBVIOUS
<1>6. g \in Surjection(1..n, D)
  <2> HIDE DEF g, D
  <2> QED  BY <1>3, <1>5, Zenon DEF Surjection
<1>7. ExistsBijection(1..n, D)
  <2> HIDE DEF g, D
  <2> QED  BY <1>4, <1>6 DEF ExistsBijection, Bijection
<1>8. Cardinality(D) = n
  <2> HIDE DEF D
  <2> QED  BY <1>7, FS_CountingElements
<1> QED  BY <1>8 DEF Collected

(***************************************************************************)
(* What a field's prefix says of it.                                       *)
(***************************************************************************)
EventPrefixes == {"event:", "event:event_attr:"}
LinkPrefixes  == {"link:", "link:link_attr:"}

\* The prefix and the index of an attribute,
LEMMA PrefixOfAttribute ==
  ASSUME NEW attrs \in Seq(Leaf), NEW p, NEW i, NEW f \in ToSet(AttributeFields(attrs, p, i))
  PROVE  f.n[1] = p /\ f.n[3] = i
<1>1. PICK x \in FlatSet(attrs) : f = Field(<<p, x[1], i>>, x[2])
  <2>1. f \in AttributeSet(attrs, p, i)
    BY FlatFacts
  <2> QED  BY <2>1 DEF AttributeSet
<1> QED  BY <1>1, FieldName

\* the index of an event,
LEMMA IndexOfEvent ==
  ASSUME NEW ev \in Event, NEW i, NEW time, NEW f \in EventFields(ev, i, time)
  PROVE  f.n[3] = i
<1>1. ev.attrs \in Seq(Leaf)
  BY DEF Event
<1>2. CASE f \in ToSet(AttributeFields(ev.attrs, "event:event_attr:", i))
  BY <1>1, <1>2, PrefixOfAttribute
<1>3. CASE f = Field(<<"event:", "event_time_unix_nano", i>>, time)
  BY <1>3, FieldName
<1>4. CASE f = Field(<<"event:", "event_name", i>>, ev.name)
  BY <1>4, FieldName
<1> QED  BY <1>2, <1>3, <1>4 DEF EventFields

\* and what the prefix says of a field of an event
LEMMA PrefixOfEvent ==
  ASSUME NEW ev \in Event, NEW i, NEW time, NEW f \in EventFields(ev, i, time)
  PROVE  /\ f.n[1] \in EventPrefixes /\ f.n[3] = i
         /\ f.n[1] = "event:event_attr:" => f \in ToSet(AttributeFields(ev.attrs, "event:event_attr:", i))
         /\ f.n[1] = "event:" => \/ f = Field(<<"event:", "event_time_unix_nano", i>>, time) /\ f.n[2] = "event_time_unix_nano"
                                 \/ f = Field(<<"event:", "event_name", i>>, ev.name) /\ f.n[2] = "event_name"
<1>1. ev.attrs \in Seq(Leaf)
  BY DEF Event
<1>2. CASE f \in ToSet(AttributeFields(ev.attrs, "event:event_attr:", i))
  <2>1. f.n[1] = "event:event_attr:" /\ f.n[3] = i
    BY <1>1, <1>2, PrefixOfAttribute
  <2> QED  BY <1>2, <2>1 DEF EventPrefixes
<1>3. CASE f = Field(<<"event:", "event_time_unix_nano", i>>, time)
  BY <1>3, FieldName DEF EventPrefixes
<1>4. CASE f = Field(<<"event:", "event_name", i>>, ev.name)
  BY <1>4, FieldName DEF EventPrefixes
<1> QED  BY <1>2, <1>3, <1>4 DEF EventFields

\* or of a link.
LEMMA PrefixOfLink ==
  ASSUME NEW ln \in Link, NEW i, NEW f \in LinkFields(ln, i)
  PROVE  /\ f.n[1] \in LinkPrefixes /\ f.n[3] = i
         /\ f.n[1] = "link:link_attr:" => f \in ToSet(AttributeFields(ln.attrs, "link:link_attr:", i))
         /\ f.n[1] = "link:" => \/ f = Field(<<"link:", "trace_id", i>>, ln.trace) /\ f.n[2] = "trace_id"
                                \/ f = Field(<<"link:", "span_id", i>>, ln.span) /\ f.n[2] = "span_id"
<1>1. ln.attrs \in Seq(Leaf)
  BY DEF Link
<1>2. CASE f \in ToSet(AttributeFields(ln.attrs, "link:link_attr:", i))
  <2>1. f.n[1] = "link:link_attr:" /\ f.n[3] = i
    BY <1>1, <1>2, PrefixOfAttribute
  <2> QED  BY <1>2, <2>1 DEF LinkPrefixes
<1>3. CASE f = Field(<<"link:", "trace_id", i>>, ln.trace)
  BY <1>3, FieldName DEF LinkPrefixes
<1>4. CASE f = Field(<<"link:", "span_id", i>>, ln.span)
  BY <1>4, FieldName DEF LinkPrefixes
<1> QED  BY <1>2, <1>3, <1>4 DEF LinkFields

\* The parts of what is sent have their types.
LEMMA PartsTyped ==
  ASSUME NEW s \in Sent
  PROVE  /\ s.resource \in Seq(Leaf) /\ s.scope \in Seq(Leaf) /\ s.span \in Span /\ s.span.attrs \in Seq(Leaf)
         /\ s.span.events \in Seq(Event) /\ s.span.links \in Seq(Link) /\ \A j \in DOMAIN s.span.links : s.span.links[j].trace # ""
         /\ Len(s.span.events) \in 0..(W - 1) /\ Len(s.span.links) \in 0..(W - 1)
         /\ DOMAIN s.span.events = 1..Len(s.span.events) /\ DOMAIN s.span.links = 1..Len(s.span.links)
<1>1. s.span \in Span /\ Len(s.span.events) < W /\ Len(s.span.links) < W /\ s.resource \in Seq(Leaf) /\ s.scope \in Seq(Leaf)
  BY DEF Sent
<1> DEFINE L == s.span.links
           E == s.span.events
<1>2. E \in Seq(Event) /\ L \in Seq(TracedLink) /\ s.span.attrs \in Seq(Leaf)
  BY <1>1 DEF Span
<1>3. \A j \in DOMAIN L : L[j] \in TracedLink
  <2> HIDE DEF L
  <2> QED  BY <1>2
<1>4. L \in Seq(Link)
  <2>1. TracedLink \subseteq Link
    BY DEF TracedLink
  <2> HIDE DEF L
  <2> QED  BY <1>2, <2>1
<1>5. Len(s.span.events) \in 0..(W - 1) /\ Len(s.span.links) \in 0..(W - 1)
  <2>1. Len(E) \in Nat /\ Len(L) \in Nat
    <3> HIDE DEF L, E
    <3> QED  BY <1>2, <1>4
  <2> QED  BY <1>1, <2>1, BoundsAssumption
<1>6. DOMAIN E = 1..Len(E) /\ DOMAIN L = 1..Len(L)
  <2> HIDE DEF L, E
  <2> QED  BY <1>2, <1>4
<1> QED  BY <1>1, <1>2, <1>3, <1>4, <1>5, <1>6 DEF TracedLink

\* The prefix of a field tells the part of the span that it comes from.
LEMMA PartOf ==
  ASSUME NEW s \in Sent, NEW plain, NEW times, NEW f \in FieldsOf(s, plain, times)
  PROVE  /\ f.n[1] = Blank => f \in PlainFields(plain)
         /\ f.n[1] = "resource_attr:" => f \in ToSet(AttributeFields(s.resource, "resource_attr:", Blank))
         /\ f.n[1] = "scope_attr:" => f \in ToSet(AttributeFields(s.scope, "scope_attr:", Blank))
         /\ f.n[1] = "span_attr:" => f \in ToSet(AttributeFields(s.span.attrs, "span_attr:", Blank))
         /\ f.n[1] \in EventPrefixes => \E j \in DOMAIN s.span.events : f \in EventFields(s.span.events[j], Dec(j - 1), times[j])
         /\ f.n[1] \in LinkPrefixes => \E j \in DOMAIN s.span.links : f \in LinkFields(s.span.links[j], Dec(j - 1))
<1>0. /\ s.resource \in Seq(Leaf) /\ s.scope \in Seq(Leaf) /\ s.span.attrs \in Seq(Leaf)
      /\ s.span.events \in Seq(Event) /\ s.span.links \in Seq(Link)
  BY PartsTyped
<1>1. CASE f \in PlainFields(plain)
  <2>1. f.n[1] = Blank
    <3>1. PICK k \in PlainKeys : f = Field(<<Blank, k, Blank>>, plain[k])
      BY <1>1 DEF PlainFields
    <3>2. f = [n |-> <<Blank, k, Blank>>, v |-> plain[k]]
      BY <3>1 DEF Field
    <3> QED  BY <3>2
  <2> QED  BY <1>1, <2>1 DEF EventPrefixes, LinkPrefixes, Blank
<1>2. CASE f \in ToSet(AttributeFields(s.resource, "resource_attr:", Blank))
  <2>1. f.n[1] = "resource_attr:"
    BY <1>2, <1>0, PrefixOfAttribute
  <2> QED  BY <1>2, <2>1 DEF EventPrefixes, LinkPrefixes, Blank
<1>3. CASE f \in ToSet(AttributeFields(s.scope, "scope_attr:", Blank))
  <2>1. f.n[1] = "scope_attr:"
    BY <1>3, <1>0, PrefixOfAttribute
  <2> QED  BY <1>3, <2>1 DEF EventPrefixes, LinkPrefixes, Blank
<1>4. CASE f \in ToSet(AttributeFields(s.span.attrs, "span_attr:", Blank))
  <2>1. f.n[1] = "span_attr:"
    BY <1>4, <1>0, PrefixOfAttribute
  <2> QED  BY <1>4, <2>1 DEF EventPrefixes, LinkPrefixes, Blank
<1>5. CASE f \in UNION {EventFields(s.span.events[j], Dec(j - 1), times[j]) : j \in DOMAIN s.span.events}
  <2>1. PICK j \in DOMAIN s.span.events : f \in EventFields(s.span.events[j], Dec(j - 1), times[j])
    BY <1>5
  <2>2. s.span.events[j] \in Event
    BY <1>0, <2>1
  <2>3. f.n[1] \in EventPrefixes
    BY <2>1, <2>2, PrefixOfEvent
  <2> QED  BY <2>1, <2>3 DEF EventPrefixes, LinkPrefixes, Blank
<1>6. CASE f \in UNION {LinkFields(s.span.links[j], Dec(j - 1)) : j \in DOMAIN s.span.links}
  <2>1. PICK j \in DOMAIN s.span.links : f \in LinkFields(s.span.links[j], Dec(j - 1))
    BY <1>6
  <2>2. s.span.links[j] \in Link
    BY <1>0, <2>1
  <2>3. f.n[1] \in LinkPrefixes
    BY <2>1, <2>2, PrefixOfLink
  <2> QED  BY <2>1, <2>3 DEF EventPrefixes, LinkPrefixes, Blank
<1>7. \/ f \in PlainFields(plain)
      \/ f \in ToSet(AttributeFields(s.resource, "resource_attr:", Blank))
      \/ f \in ToSet(AttributeFields(s.scope, "scope_attr:", Blank))
      \/ f \in ToSet(AttributeFields(s.span.attrs, "span_attr:", Blank))
      \/ f \in UNION {EventFields(s.span.events[j], Dec(j - 1), times[j]) : j \in DOMAIN s.span.events}
      \/ f \in UNION {LinkFields(s.span.links[j], Dec(j - 1)) : j \in DOMAIN s.span.links}
  BY Zenon DEF FieldsOf
<1> QED  BY <1>1, <1>2, <1>3, <1>4, <1>5, <1>6, <1>7, Zenon

\* The text of a plain field is read back.
LEMMA PlainBack ==
  ASSUME NEW s \in Sent, NEW plain, NEW times, NEW k \in PlainKeys
  PROVE  Text(RowOf(FieldsOf(s, plain, times)), <<Blank, k, Blank>>) = plain[k]
<1> DEFINE F == FieldsOf(s, plain, times)
           name == <<Blank, k, Blank>>
<1>1. Field(name, plain[k]) \in F
  BY DEF FieldsOf, PlainFields
<1>2. ASSUME NEW f \in F, f.n = name PROVE f = Field(name, plain[k])
  <2>1. f.n[1] = Blank /\ f.n[2] = k
    BY <1>2
  <2>2. f \in PlainFields(plain)
    BY <2>1, PartOf
  <2>3. PICK m \in PlainKeys : f = Field(<<Blank, m, Blank>>, plain[m])
    BY <2>2 DEF PlainFields
  <2>4. f.n[2] = m
    <3>1. f = [n |-> <<Blank, m, Blank>>, v |-> plain[m]]
      BY <2>3 DEF Field
    <3> QED  BY <3>1
  <2> QED  BY <2>1, <2>3, <2>4
<1> HIDE DEF F, name
<1>3. Text(RowOf(F), name) = plain[k]
  BY <1>1, <1>2, TextIs
<1> QED  BY <1>3 DEF F, name

\* The attributes of all three levels are read back.
LEMMA AttributesBack ==
  ASSUME NEW s \in Sent, NEW plain, NEW times
  PROVE  LET row == RowOf(FieldsOf(s, plain, times)) IN
         /\ AttributesOf(row, "resource_attr:", Blank) = FlatSet(s.resource)
         /\ AttributesOf(row, "scope_attr:", Blank) = FlatSet(s.scope)
         /\ AttributesOf(row, "span_attr:", Blank) = FlatSet(s.span.attrs)
<1> DEFINE F == FieldsOf(s, plain, times)
<1>1. s.resource \in Seq(Leaf) /\ s.scope \in Seq(Leaf) /\ s.span.attrs \in Seq(Leaf)
  BY PartsTyped
<1>2. /\ ToSet(AttributeFields(s.resource, "resource_attr:", Blank)) \subseteq F
      /\ ToSet(AttributeFields(s.scope, "scope_attr:", Blank)) \subseteq F
      /\ ToSet(AttributeFields(s.span.attrs, "span_attr:", Blank)) \subseteq F
  BY DEF FieldsOf
<1>3. ASSUME NEW f \in F
      PROVE  /\ f.n[1] = "resource_attr:" => f \in ToSet(AttributeFields(s.resource, "resource_attr:", Blank))
             /\ f.n[1] = "scope_attr:" => f \in ToSet(AttributeFields(s.scope, "scope_attr:", Blank))
             /\ f.n[1] = "span_attr:" => f \in ToSet(AttributeFields(s.span.attrs, "span_attr:", Blank))
  BY PartOf
<1> HIDE DEF F
<1>4. AttributesOf(RowOf(F), "resource_attr:", Blank) = FlatSet(s.resource)
  <2>1. \A f \in F : f.n[1] = "resource_attr:" /\ f.n[3] = Blank => f \in ToSet(AttributeFields(s.resource, "resource_attr:", Blank))
    BY <1>3
  <2> QED  BY <1>1, <1>2, <2>1, AttributesAre
<1>5. AttributesOf(RowOf(F), "scope_attr:", Blank) = FlatSet(s.scope)
  <2>1. \A f \in F : f.n[1] = "scope_attr:" /\ f.n[3] = Blank => f \in ToSet(AttributeFields(s.scope, "scope_attr:", Blank))
    BY <1>3
  <2> QED  BY <1>1, <1>2, <2>1, AttributesAre
<1>6. AttributesOf(RowOf(F), "span_attr:", Blank) = FlatSet(s.span.attrs)
  <2>1. \A f \in F : f.n[1] = "span_attr:" /\ f.n[3] = Blank => f \in ToSet(AttributeFields(s.span.attrs, "span_attr:", Blank))
    BY <1>3
  <2> QED  BY <1>1, <1>2, <2>1, AttributesAre
<1> QED  BY <1>4, <1>5, <1>6 DEF F

\* Two events, or links, have different indexes.
LEMMA SameIndex ==
  ASSUME NEW n \in 0..(W - 1), NEW j \in 1..n, NEW k \in 1..n, Dec(j - 1) = Dec(k - 1)
  PROVE  j = k
<1>1. j - 1 \in 0..(W - 1) /\ k - 1 \in 0..(W - 1)
  BY BoundsAssumption
<1>2. j - 1 = k - 1
  BY <1>1, NumberOfDec
<1> QED  BY <1>2

\* Links are read back complete and in order.
LEMMA LinksBack ==
  ASSUME NEW s \in Sent, NEW plain, NEW times
  PROVE  LinksOf(RowOf(FieldsOf(s, plain, times))) = Meant(s).links
<1> DEFINE F == FieldsOf(s, plain, times)
           row == RowOf(F)
           L == s.span.links
           n == Len(L)
           I(j) == Dec(j - 1)
<1>1. L \in Seq(Link) /\ (\A j \in DOMAIN L : L[j].trace # "") /\ n \in 0..(W - 1) /\ DOMAIN L = 1..n
  BY PartsTyped
<1>2. \A j \in 1..n : L[j] \in Link /\ L[j].attrs \in Seq(Leaf)
  <2> HIDE DEF L
  <2> TAKE j \in 1..n
  <2>0. L \in Seq(Link)
    BY <1>1
  <2>1. L[j] \in Link
    BY <2>0
  <2> QED  BY <2>1 DEF Link
<1>3. \A j \in 1..n : LinkFields(L[j], I(j)) \subseteq F
  BY <1>1 DEF FieldsOf
<1>4. ASSUME NEW f \in F, f.n[1] \in LinkPrefixes
      PROVE  \E j \in 1..n : f \in LinkFields(L[j], I(j)) /\ f.n[3] = I(j)
  <2>1. PICK j \in 1..n : f \in LinkFields(L[j], I(j))
    BY <1>1, <1>4, PartOf
  <2> HIDE DEF L, n, I
  <2>2. f.n[3] = I(j)
    BY <1>2, <2>1, PrefixOfLink
  <2> QED  BY <2>1, <2>2
<1> HIDE DEF F, L, n
<1>5. ASSUME NEW f \in F, NEW j \in 1..n, f.n[1] \in LinkPrefixes, f.n[3] = I(j)
      PROVE  f \in LinkFields(L[j], I(j))
  <2>1. PICK k \in 1..n : f \in LinkFields(L[k], I(k)) /\ f.n[3] = I(k)
    BY <1>4, <1>5
  <2>2. k = j
    BY <1>1, <1>5, <2>1, SameIndex
  <2> QED  BY <2>1, <2>2
<1>6. ASSUME NEW j \in 1..n
      PROVE  LinkOf(row, I(j)) = [L[j] EXCEPT !.attrs = FlatSet(@)]
  <2> HIDE DEF I
  <2>1. Text(row, <<"link:", "trace_id", I(j)>>) = L[j].trace
    <3> DEFINE name == <<"link:", "trace_id", I(j)>>
    <3>1. Field(name, L[j].trace) \in F
      BY <1>3 DEF LinkFields
    <3>2. ASSUME NEW f \in F, f.n = name PROVE f = Field(name, L[j].trace)
      <4>1. f.n[1] = "link:" /\ f.n[2] = "trace_id" /\ f.n[3] = I(j)
        BY <3>2
      <4>2. f \in LinkFields(L[j], I(j))
        BY <1>5, <4>1 DEF LinkPrefixes
      <4> QED  BY <1>2, <4>1, <4>2, PrefixOfLink
    <3> HIDE DEF name
    <3>3. Text(row, name) = L[j].trace
      BY <3>1, <3>2, TextIs
    <3> QED  BY <3>3 DEF name
  <2>2. Text(row, <<"link:", "span_id", I(j)>>) = L[j].span
    <3> DEFINE name == <<"link:", "span_id", I(j)>>
    <3>1. Field(name, L[j].span) \in F
      BY <1>3 DEF LinkFields
    <3>2. ASSUME NEW f \in F, f.n = name PROVE f = Field(name, L[j].span)
      <4>1. f.n[1] = "link:" /\ f.n[2] = "span_id" /\ f.n[3] = I(j)
        BY <3>2
      <4>2. f \in LinkFields(L[j], I(j))
        BY <1>5, <4>1 DEF LinkPrefixes
      <4> QED  BY <1>2, <4>1, <4>2, PrefixOfLink
    <3> HIDE DEF name
    <3>3. Text(row, name) = L[j].span
      BY <3>1, <3>2, TextIs
    <3> QED  BY <3>3 DEF name
  <2>3. AttributesOf(row, "link:link_attr:", I(j)) = FlatSet(L[j].attrs)
    <3>1. ToSet(AttributeFields(L[j].attrs, "link:link_attr:", I(j))) \subseteq F
      BY <1>3 DEF LinkFields
    <3>2. ASSUME NEW f \in F, f.n[1] = "link:link_attr:", f.n[3] = I(j)
          PROVE  f \in ToSet(AttributeFields(L[j].attrs, "link:link_attr:", I(j)))
      <4>1. f \in LinkFields(L[j], I(j))
        BY <1>5, <3>2 DEF LinkPrefixes
      <4> QED  BY <1>2, <3>2, <4>1, PrefixOfLink
    <3> QED  BY <1>2, <3>1, <3>2, AttributesAre
  <2>4. L[j] = [trace |-> L[j].trace, span |-> L[j].span, attrs |-> L[j].attrs]
    BY <1>2 DEF Link
  <2>5. LinkOf(row, I(j)) = [trace |-> L[j].trace, span |-> L[j].span, attrs |-> FlatSet(L[j].attrs)]
    BY <2>1, <2>2, <2>3 DEF LinkOf
  <2> HIDE DEF row
  <2> QED  BY <2>4, <2>5
<1>7. Indexes(row, LinkPrefixes) = {I(j) : j \in 1..n}
  <2>1. ASSUME NEW f \in row, f.n[1] \in LinkPrefixes PROVE f.n[3] \in {I(j) : j \in 1..n}
    <3>1. f \in F
      BY <2>1 DEF RowOf
    <3> QED  BY <1>4, <2>1, <3>1
  <2>2. ASSUME NEW j \in 1..n PROVE \E f \in row : f.n[1] \in LinkPrefixes /\ f.n[3] = I(j)
    <3> DEFINE f == Field(<<"link:", "trace_id", I(j)>>, L[j].trace)
    <3>1. f \in F
      BY <1>3 DEF LinkFields
    <3>2. f.n[1] = "link:" /\ f.n[3] = I(j) /\ f.v = L[j].trace
      BY DEF Field
    <3>3. L[j].trace # ""
      BY <1>1
    <3> HIDE DEF f
    <3> QED  BY <3>1, <3>2, <3>3 DEF RowOf, LinkPrefixes
  <2>3. Indexes(row, LinkPrefixes) = {f.n[3] : f \in {g \in row : g.n[1] \in LinkPrefixes}}
    BY DEF Indexes
  <2> HIDE DEF row, I
  <2> QED  BY <2>1, <2>2, <2>3
<1> DEFINE items == [index \in Indexes(row, LinkPrefixes) |-> LinkOf(row, index)]
<1>8. LinksOf(row) = Collected(items)
  BY DEF LinksOf, LinkPrefixes
<1>9. DOMAIN items = {Dec(j - 1) : j \in 1..n} /\ \A j \in 1..n : items[Dec(j - 1)] = LinkOf(row, I(j))
  BY <1>7
<1>10. LinksOf(row) = [j \in 1..n |-> items[Dec(j - 1)]]
  <2> HIDE DEF items
  <2> QED  BY <1>1, <1>8, <1>9, CollectedAll
<1>11. LinksOf(row) = [j \in 1..n |-> [L[j] EXCEPT !.attrs = FlatSet(@)]]
  <2> HIDE DEF items, row, I
  <2> QED  BY <1>6, <1>9, <1>10
<1> QED  BY <1>1, <1>11 DEF Meant, F, L

\* The texts of the times are right, and every event has a field.
TimesRight(events, times) ==
    \A j \in DOMAIN events : /\ Number(times[j]) = events[j].time
                             /\ times[j] # "" \/ events[j].name # "" \/ events[j].attrs # <<>>

\* So are events, if each of them has a field.
LEMMA EventsBack ==
  ASSUME NEW s \in Sent, NEW plain, NEW times, TimesRight(s.span.events, times)
  PROVE  EventsOf(RowOf(FieldsOf(s, plain, times))) = Meant(s).events
<1> DEFINE F == FieldsOf(s, plain, times)
           row == RowOf(F)
           E == s.span.events
           n == Len(E)
           I(j) == Dec(j - 1)
<1>1. E \in Seq(Event) /\ n \in 0..(W - 1) /\ DOMAIN E = 1..n
  BY PartsTyped
<1>2. \A j \in 1..n : E[j] \in Event /\ E[j].attrs \in Seq(Leaf)
  <2> HIDE DEF E
  <2> TAKE j \in 1..n
  <2>0. E \in Seq(Event)
    BY <1>1
  <2>1. E[j] \in Event
    BY <2>0
  <2> QED  BY <2>1 DEF Event
<1>3. \A j \in 1..n : EventFields(E[j], I(j), times[j]) \subseteq F
  BY <1>1 DEF FieldsOf
<1>4. ASSUME NEW f \in F, f.n[1] \in EventPrefixes
      PROVE  \E j \in 1..n : f \in EventFields(E[j], I(j), times[j]) /\ f.n[3] = I(j)
  <2>1. PICK j \in 1..n : f \in EventFields(E[j], I(j), times[j])
    BY <1>1, <1>4, PartOf
  <2> HIDE DEF E, n, I
  <2>2. f.n[3] = I(j)
    BY <1>2, <2>1, IndexOfEvent
  <2> QED  BY <2>1, <2>2
<1>0. ASSUME NEW j \in 1..n
      PROVE  Number(times[j]) = E[j].time /\ (times[j] # "" \/ E[j].name # "" \/ E[j].attrs # <<>>)
  BY <1>1 DEF TimesRight
<1> HIDE DEF F, E, n
<1>5. ASSUME NEW f \in F, NEW j \in 1..n, f.n[1] \in EventPrefixes, f.n[3] = I(j)
      PROVE  f \in EventFields(E[j], I(j), times[j])
  <2>1. PICK k \in 1..n : f \in EventFields(E[k], I(k), times[k]) /\ f.n[3] = I(k)
    BY <1>4, <1>5
  <2>2. k = j
    BY <1>1, <1>5, <2>1, SameIndex
  <2> QED  BY <2>1, <2>2
<1>6. ASSUME NEW j \in 1..n
      PROVE  EventOf(row, I(j)) = [E[j] EXCEPT !.attrs = FlatSet(@)]
  <2> HIDE DEF I
  <2>1. Text(row, <<"event:", "event_time_unix_nano", I(j)>>) = times[j]
    <3> DEFINE name == <<"event:", "event_time_unix_nano", I(j)>>
    <3>1. Field(name, times[j]) \in F
      BY <1>3 DEF EventFields
    <3>2. ASSUME NEW f \in F, f.n = name PROVE f = Field(name, times[j])
      <4>1. f.n[1] = "event:" /\ f.n[2] = "event_time_unix_nano" /\ f.n[3] = I(j)
        BY <3>2
      <4>2. f \in EventFields(E[j], I(j), times[j])
        BY <1>5, <4>1 DEF EventPrefixes
      <4> DEFINE e == E[j]
                 i == I(j)
                 time == times[j]
      <4>3. e \in Event /\ f \in EventFields(e, i, time)
        BY <1>2, <4>2
      <4> HIDE DEF e, i, time
      <4>4. f.n[1] = "event:" => \/ f = Field(<<"event:", "event_time_unix_nano", i>>, time) /\ f.n[2] = "event_time_unix_nano"
                                 \/ f = Field(<<"event:", "event_name", i>>, e.name) /\ f.n[2] = "event_name"
        BY <4>3, PrefixOfEvent
      <4> QED  BY <4>1, <4>4 DEF e, i, time
    <3> HIDE DEF name
    <3>3. Text(row, name) = times[j]
      BY <3>1, <3>2, TextIs
    <3> QED  BY <3>3 DEF name
  <2>2. Text(row, <<"event:", "event_name", I(j)>>) = E[j].name
    <3> DEFINE name == <<"event:", "event_name", I(j)>>
    <3>1. Field(name, E[j].name) \in F
      BY <1>3 DEF EventFields
    <3>2. ASSUME NEW f \in F, f.n = name PROVE f = Field(name, E[j].name)
      <4>1. f.n[1] = "event:" /\ f.n[2] = "event_name" /\ f.n[3] = I(j)
        BY <3>2
      <4>2. f \in EventFields(E[j], I(j), times[j])
        BY <1>5, <4>1 DEF EventPrefixes
      <4> DEFINE e == E[j]
                 i == I(j)
                 time == times[j]
      <4>3. e \in Event /\ f \in EventFields(e, i, time)
        BY <1>2, <4>2
      <4> HIDE DEF e, i, time
      <4>4. f.n[1] = "event:" => \/ f = Field(<<"event:", "event_time_unix_nano", i>>, time) /\ f.n[2] = "event_time_unix_nano"
                                 \/ f = Field(<<"event:", "event_name", i>>, e.name) /\ f.n[2] = "event_name"
        BY <4>3, PrefixOfEvent
      <4> QED  BY <4>1, <4>4 DEF e, i, time
    <3> HIDE DEF name
    <3>3. Text(row, name) = E[j].name
      BY <3>1, <3>2, TextIs
    <3> QED  BY <3>3 DEF name
  <2>3. AttributesOf(row, "event:event_attr:", I(j)) = FlatSet(E[j].attrs)
    <3>1. ToSet(AttributeFields(E[j].attrs, "event:event_attr:", I(j))) \subseteq F
      BY <1>3 DEF EventFields
    <3>2. ASSUME NEW f \in F, f.n[1] = "event:event_attr:", f.n[3] = I(j)
          PROVE  f \in ToSet(AttributeFields(E[j].attrs, "event:event_attr:", I(j)))
      <4>1. f \in EventFields(E[j], I(j), times[j])
        BY <1>5, <3>2 DEF EventPrefixes
      <4> QED  BY <1>2, <3>2, <4>1, PrefixOfEvent
    <3> QED  BY <1>2, <3>1, <3>2, AttributesAre
  <2>4. E[j] = [time |-> E[j].time, name |-> E[j].name, attrs |-> E[j].attrs]
    BY <1>2 DEF Event
  <2>5. EventOf(row, I(j)) = [time |-> E[j].time, name |-> E[j].name, attrs |-> FlatSet(E[j].attrs)]
    BY <1>0, <2>1, <2>2, <2>3 DEF EventOf
  <2> HIDE DEF row
  <2> QED  BY <2>4, <2>5
<1>7. Indexes(row, EventPrefixes) = {I(j) : j \in 1..n}
  <2>1. ASSUME NEW f \in row, f.n[1] \in EventPrefixes PROVE f.n[3] \in {I(j) : j \in 1..n}
    <3>1. f \in F
      BY <2>1 DEF RowOf
    <3> QED  BY <1>4, <2>1, <3>1
  <2>2. ASSUME NEW j \in 1..n PROVE \E f \in row : f.n[1] \in EventPrefixes /\ f.n[3] = I(j)
    <3>1. CASE times[j] # ""
      <4> DEFINE f == Field(<<"event:", "event_time_unix_nano", I(j)>>, times[j])
      <4>1. f \in F
        BY <1>3 DEF EventFields
      <4>2. f.n[1] = "event:" /\ f.n[3] = I(j) /\ f.v = times[j]
        BY DEF Field
      <4> HIDE DEF f
      <4> QED  BY <3>1, <4>1, <4>2 DEF RowOf, EventPrefixes
    <3>2. CASE E[j].name # ""
      <4> DEFINE f == Field(<<"event:", "event_name", I(j)>>, E[j].name)
      <4>1. f \in F
        BY <1>3 DEF EventFields
      <4>2. f.n[1] = "event:" /\ f.n[3] = I(j) /\ f.v = E[j].name
        BY DEF Field
      <4> HIDE DEF f
      <4> QED  BY <3>2, <4>1, <4>2 DEF RowOf, EventPrefixes
    <3>3. CASE E[j].attrs # <<>>
      <4> DEFINE A == E[j].attrs
      <4>1. A \in Seq(Leaf) /\ A # <<>>
        BY <1>2, <3>3
      <4>2. PICK x : x \in FlatSet(A)
        <5> HIDE DEF A
        <5>1. 1 \in DOMAIN A
          BY <4>1
        <5> QED  BY <5>1 DEF FlatSet, KeyValues, ToSet
      <4> DEFINE f == Field(<<"event:event_attr:", x[1], I(j)>>, x[2])
      <4>3. f \in AttributeSet(A, "event:event_attr:", I(j))
        BY <4>2 DEF AttributeSet
      <4>4. f \in F
        <5> HIDE DEF f
        <5> QED  BY <1>2, <1>3, <4>3, FlatFacts DEF EventFields
      <4>5. x[2] # ""
        BY <4>1, <4>2, FlatFacts
      <4>6. f.n[1] = "event:event_attr:" /\ f.n[3] = I(j) /\ f.v = x[2]
        BY DEF Field
      <4> HIDE DEF f
      <4> QED  BY <4>4, <4>5, <4>6 DEF RowOf, EventPrefixes
    <3> QED  BY <1>0, <3>1, <3>2, <3>3
  <2>3. Indexes(row, EventPrefixes) = {f.n[3] : f \in {g \in row : g.n[1] \in EventPrefixes}}
    BY DEF Indexes
  <2> HIDE DEF row, I
  <2> QED  BY <2>1, <2>2, <2>3
<1> DEFINE items == [index \in Indexes(row, EventPrefixes) |-> EventOf(row, index)]
<1>8. EventsOf(row) = Collected(items)
  BY DEF EventsOf, EventPrefixes
<1>9. DOMAIN items = {Dec(j - 1) : j \in 1..n} /\ \A j \in 1..n : items[Dec(j - 1)] = EventOf(row, I(j))
  BY <1>7
<1>10. EventsOf(row) = [j \in 1..n |-> items[Dec(j - 1)]]
  <2> HIDE DEF items
  <2> QED  BY <1>1, <1>8, <1>9, CollectedAll
<1>11. EventsOf(row) = [j \in 1..n |-> [E[j] EXCEPT !.attrs = FlatSet(@)]]
  <2> HIDE DEF items, row, I
  <2> QED  BY <1>6, <1>9, <1>10
<1> QED  BY <1>1, <1>11 DEF Meant, F, E

(***************************************************************************)
(* The row that a span is stored as.                                       *)
(***************************************************************************)
OrEmpty(n) == IF n = 0 THEN "" ELSE Dec(n)
Times(events) == [j \in DOMAIN events |-> OrEmpty(events[j].time)]
\* The plain fields before the tail is added, and all of them.
PlainSoFar(sp) ==
    [span_id |-> sp.id, parent_span_id |-> sp.parent, name |-> sp.name, kind |-> OrEmpty(sp.kind), start_time |-> Blank, end_time |-> Blank,
     duration |-> Blank, status_message |-> sp.message, status_code |-> Blank, trace_id |-> Blank]
PlainOf(sp) ==
    [span_id |-> sp.id, parent_span_id |-> sp.parent, name |-> sp.name, kind |-> OrEmpty(sp.kind),
     start_time |-> OrEmpty(sp.start), end_time |-> OrEmpty(sp.end),
     duration |-> IF sp.start > 0 /\ sp.end > 0 THEN Dec((sp.end - sp.start) % W) ELSE Blank,
     status_message |-> sp.message, status_code |-> Dec(sp.code), trace_id |-> sp.trace]
\* Those of the JSON path.
PlainJSON(sp) ==
    [span_id |-> sp.id, parent_span_id |-> sp.parent, name |-> sp.name, kind |-> Dec(sp.kind),
     start_time |-> Dec(sp.start), end_time |-> Dec(sp.end), duration |-> Dec((sp.end - sp.start) % W),
     status_message |-> sp.message, status_code |-> Dec(sp.code), trace_id |-> sp.trace]
TimesJSON(events) == [j \in DOMAIN events |-> Dec(events[j].time)]

StoredRow(s) == RowOf(FieldsOf(s, PlainOf(s.span), Times(s.span.events)))
JSONRow(s) == RowOf(FieldsOf(s, PlainJSON(s.span), TimesJSON(s.span.events)))

\* Half of the range of the wire, which no time exceeds, is in that range,
LEMMA HalfOfW == W \div 2 \in 1..(W - 1)
  BY BoundsAssumption

\* and so is all below it.
LEMMA Half == \A n \in 0..(W \div 2) : n \in 0..(W - 1)
  BY BoundsAssumption, HalfOfW

\* A number that is left out if it is zero is read back.
LEMMA NumberOfOrEmpty == \A n \in 0..(W - 1) : Number(OrEmpty(n)) = n /\ (OrEmpty(n) # "" <=> n # 0)
<1>1. \A n \in 0..(W - 1) : Number(Dec(n)) = n /\ Dec(n) # ""
  BY NumberOfDec
<1>2. Number("") = 0
  BY DEF Number
<1> QED  BY <1>1, <1>2 DEF OrEmpty

\* The parts of a span have their types.
LEMMA SpanTyped ==
  ASSUME NEW sp \in Span
  PROVE  /\ sp.kind \in 0..(W - 1) /\ sp.start \in 0..(W - 1) /\ sp.end \in 0..(W - 1) /\ sp.code \in 0..(W - 1)
         /\ sp.start \in 0..(W \div 2) /\ sp.end \in 0..(W \div 2)
         /\ sp.trace \in Strings /\ sp.id \in Strings /\ sp.parent \in Strings /\ sp.name \in Strings /\ sp.message \in Strings
<1>1. sp.kind \in 0..(W - 1) /\ sp.code \in 0..(W - 1) /\ sp.start \in 0..(W \div 2) /\ sp.end \in 0..(W \div 2)
  BY DEF Span
<1>2. sp.trace \in Strings /\ sp.id \in Strings /\ sp.parent \in Strings /\ sp.name \in Strings /\ sp.message \in Strings
  BY DEF Span
<1> QED  BY <1>1, <1>2, Half

\* PlainBack, key by key.
LEMMA PlainTexts ==
  ASSUME NEW s \in Sent, NEW plain, NEW times
  PROVE  LET row == RowOf(FieldsOf(s, plain, times)) IN
         /\ Text(row, <<Blank, "span_id", Blank>>) = plain.span_id
         /\ Text(row, <<Blank, "parent_span_id", Blank>>) = plain.parent_span_id
         /\ Text(row, <<Blank, "name", Blank>>) = plain.name
         /\ Text(row, <<Blank, "kind", Blank>>) = plain.kind
         /\ Text(row, <<Blank, "start_time", Blank>>) = plain.start_time
         /\ Text(row, <<Blank, "end_time", Blank>>) = plain.end_time
         /\ Text(row, <<Blank, "duration", Blank>>) = plain.duration
         /\ Text(row, <<Blank, "status_message", Blank>>) = plain.status_message
         /\ Text(row, <<Blank, "status_code", Blank>>) = plain.status_code
         /\ Text(row, <<Blank, "trace_id", Blank>>) = plain.trace_id
<1> DEFINE row == RowOf(FieldsOf(s, plain, times))
<1>1. \A k \in PlainKeys : Text(row, <<Blank, k, Blank>>) = plain[k]
  BY PlainBack
<1> HIDE DEF row
<1> QED  BY <1>1 DEF PlainKeys, row

\* An event of a span has its type.
LEMMA EventTimed ==
  ASSUME NEW s \in Sent, NEW j \in DOMAIN s.span.events
  PROVE  /\ s.span.events[j] \in Event /\ s.span.events[j].time \in 0..(W - 1)
         /\ s.span.events[j] = [time |-> s.span.events[j].time, name |-> s.span.events[j].name, attrs |-> s.span.events[j].attrs]
<1> DEFINE E == s.span.events
<1>1. E \in Seq(Event)
  BY PartsTyped
<1> HIDE DEF E
<1>2. \A k \in DOMAIN E : E[k] \in Event
  BY <1>1
<1>3. \A ev \in Event : ev.time \in 0..(W - 1) /\ ev = [time |-> ev.time, name |-> ev.name, attrs |-> ev.attrs]
  BY DEF Event
<1>4. E[j] \in Event
  BY <1>2 DEF E
<1> QED  BY <1>3, <1>4 DEF E

\* The times of events that the protobuf path writes, leaving out zero, are right;
LEMMA StoredTimesRight ==
  ASSUME NEW s \in Sent, EveryEventHasAField(s.span)
  PROVE  TimesRight(s.span.events, Times(s.span.events))
<1>1. ASSUME NEW j \in DOMAIN s.span.events
      PROVE  LET ev == s.span.events[j]
                 t == Times(s.span.events)[j] IN
             Number(t) = ev.time /\ (t # "" \/ ev.name # "" \/ ev.attrs # <<>>)
  <2> DEFINE ev == s.span.events[j]
             t == Times(s.span.events)[j]
  <2>1. ev.time \in 0..(W - 1) /\ ev = [time |-> ev.time, name |-> ev.name, attrs |-> ev.attrs]
    BY EventTimed
  <2>2. t = OrEmpty(ev.time)
    BY DEF Times
  <2>3. ev # [time |-> 0, name |-> "", attrs |-> <<>>]
    BY DEF EveryEventHasAField
  <2> HIDE DEF ev, t
  <2>4. ev.time # 0 \/ ev.name # "" \/ ev.attrs # <<>>
    BY <2>1, <2>3
  <2>5. Number(t) = ev.time /\ (t # "" <=> ev.time # 0)
    BY <2>1, <2>2, NumberOfOrEmpty
  <2>6. t # "" \/ ev.name # "" \/ ev.attrs # <<>>
    BY <2>4, <2>5
  <2> QED  BY <2>5, <2>6 DEF ev, t
<1> QED  BY <1>1 DEF TimesRight

\* those that the JSON path writes make a field of every event.
LEMMA JSONTimesRight ==
  ASSUME NEW s \in Sent
  PROVE  TimesRight(s.span.events, TimesJSON(s.span.events))
<1>1. ASSUME NEW j \in DOMAIN s.span.events
      PROVE  LET ev == s.span.events[j]
                 t == TimesJSON(s.span.events)[j] IN
             Number(t) = ev.time /\ t # ""
  <2> DEFINE ev == s.span.events[j]
             t == TimesJSON(s.span.events)[j]
  <2>1. ev.time \in 0..(W - 1)
    BY EventTimed
  <2>2. t = Dec(ev.time)
    BY DEF TimesJSON
  <2> HIDE DEF ev, t
  <2>3. Number(t) = ev.time /\ t # ""
    BY <2>1, <2>2, NumberOfDec
  <2> QED  BY <2>3 DEF ev, t
<1> QED  BY <1>1 DEF TimesRight

\* What a row must say for the span to be read back.
LEMMA ReadBack ==
  ASSUME NEW s \in Sent, NEW plain, NEW times, TimesRight(s.span.events, times),
         plain.span_id = s.span.id, plain.parent_span_id = s.span.parent, plain.name = s.span.name,
         Number(plain.kind) = s.span.kind, Number(plain.start_time) = s.span.start, Number(plain.end_time) = s.span.end,
         plain.status_message = s.span.message, Number(plain.status_code) = s.span.code, plain.trace_id = s.span.trace
  PROVE  RowToSpan(RowOf(FieldsOf(s, plain, times))) = Meant(s)
<1> DEFINE row == RowOf(FieldsOf(s, plain, times))
<1>1. EventsOf(row) = Meant(s).events
  BY EventsBack
<1>2. LinksOf(row) = Meant(s).links
  BY LinksBack
<1>3. /\ AttributesOf(row, "resource_attr:", Blank) = FlatSet(s.resource)
      /\ AttributesOf(row, "scope_attr:", Blank) = FlatSet(s.scope)
      /\ AttributesOf(row, "span_attr:", Blank) = FlatSet(s.span.attrs)
  BY AttributesBack
<1>4. /\ Text(row, <<Blank, "span_id", Blank>>) = s.span.id
      /\ Text(row, <<Blank, "parent_span_id", Blank>>) = s.span.parent
      /\ Text(row, <<Blank, "name", Blank>>) = s.span.name
      /\ Number(Text(row, <<Blank, "kind", Blank>>)) = s.span.kind
      /\ Number(Text(row, <<Blank, "start_time", Blank>>)) = s.span.start
      /\ Number(Text(row, <<Blank, "end_time", Blank>>)) = s.span.end
      /\ Text(row, <<Blank, "status_message", Blank>>) = s.span.message
      /\ Number(Text(row, <<Blank, "status_code", Blank>>)) = s.span.code
      /\ Text(row, <<Blank, "trace_id", Blank>>) = s.span.trace
  <2>1. /\ Text(row, <<Blank, "span_id", Blank>>) = plain.span_id
        /\ Text(row, <<Blank, "parent_span_id", Blank>>) = plain.parent_span_id
        /\ Text(row, <<Blank, "name", Blank>>) = plain.name
        /\ Text(row, <<Blank, "kind", Blank>>) = plain.kind
        /\ Text(row, <<Blank, "start_time", Blank>>) = plain.start_time
        /\ Text(row, <<Blank, "end_time", Blank>>) = plain.end_time
        /\ Text(row, <<Blank, "status_message", Blank>>) = plain.status_message
        /\ Text(row, <<Blank, "status_code", Blank>>) = plain.status_code
        /\ Text(row, <<Blank, "trace_id", Blank>>) = plain.trace_id
    BY PlainTexts
  <2> HIDE DEF row
  <2> QED  BY <2>1
<1>5. /\ Meant(s).events = [j \in DOMAIN s.span.events |-> [s.span.events[j] EXCEPT !.attrs = FlatSet(@)]]
      /\ Meant(s).links = [j \in DOMAIN s.span.links |-> [s.span.links[j] EXCEPT !.attrs = FlatSet(@)]]
  BY DEF Meant
<1> HIDE DEF row
<1>6. RowToSpan(row) =
        [trace |-> s.span.trace, id |-> s.span.id, parent |-> s.span.parent, name |-> s.span.name, kind |-> s.span.kind,
         start |-> s.span.start, end |-> s.span.end, message |-> s.span.message, code |-> s.span.code,
         attrs |-> FlatSet(s.span.attrs), resource |-> FlatSet(s.resource), scope |-> FlatSet(s.scope),
         events |-> Meant(s).events, links |-> Meant(s).links]
  BY <1>1, <1>2, <1>3, <1>4 DEF RowToSpan
<1> QED  BY <1>5, <1>6 DEF Meant, row

\* The row that is stored is read back as what was sent,
LEMMA StoredReadBack ==
  ASSUME NEW s \in Sent, EveryEventHasAField(s.span)
  PROVE  RowToSpan(StoredRow(s)) = Meant(s)
<1> DEFINE plain == PlainOf(s.span)
<1>1. TimesRight(s.span.events, Times(s.span.events))
  BY StoredTimesRight
<1>2. s.span \in Span
  BY PartsTyped
<1>3. /\ plain.span_id = s.span.id /\ plain.parent_span_id = s.span.parent /\ plain.name = s.span.name
      /\ plain.kind = OrEmpty(s.span.kind) /\ plain.start_time = OrEmpty(s.span.start) /\ plain.end_time = OrEmpty(s.span.end)
      /\ plain.status_message = s.span.message /\ plain.status_code = Dec(s.span.code) /\ plain.trace_id = s.span.trace
  BY DEF PlainOf
<1> HIDE DEF plain
<1>4. /\ Number(plain.kind) = s.span.kind /\ Number(plain.start_time) = s.span.start
      /\ Number(plain.end_time) = s.span.end /\ Number(plain.status_code) = s.span.code
  BY <1>2, <1>3, SpanTyped, NumberOfOrEmpty, NumberOfDec
<1> QED  BY <1>1, <1>3, <1>4, ReadBack DEF StoredRow, plain

\* and so is that of the JSON path.
LEMMA JSONReadBack ==
  ASSUME NEW s \in Sent
  PROVE  RowToSpan(JSONRow(s)) = Meant(s)
<1> DEFINE plain == PlainJSON(s.span)
<1>1. TimesRight(s.span.events, TimesJSON(s.span.events))
  BY JSONTimesRight
<1>2. s.span \in Span
  BY PartsTyped
<1>3. /\ plain.span_id = s.span.id /\ plain.parent_span_id = s.span.parent /\ plain.name = s.span.name
      /\ plain.kind = Dec(s.span.kind) /\ plain.start_time = Dec(s.span.start) /\ plain.end_time = Dec(s.span.end)
      /\ plain.status_message = s.span.message /\ plain.status_code = Dec(s.span.code) /\ plain.trace_id = s.span.trace
  BY DEF PlainJSON
<1> HIDE DEF plain
<1>4. /\ Number(plain.kind) = s.span.kind /\ Number(plain.start_time) = s.span.start
      /\ Number(plain.end_time) = s.span.end /\ Number(plain.status_code) = s.span.code
  BY <1>2, <1>3, SpanTyped, NumberOfDec
<1> QED  BY <1>1, <1>3, <1>4, ReadBack DEF JSONRow, plain

\* What the JSON path pushes is the row that the lemmas above are about.
LEMMA JSONRowPushed == ASSUME NEW s PROVE RowOf(PushFieldsFromSpan(s)) = JSONRow(s)
<1> DEFINE plain == PlainJSON(s.span)
           E == s.span.events
           L == s.span.links
           EF(j) == {Field(<<"event:", "event_time_unix_nano", IndexOf(j)>>, Dec(E[j].time)),
                     Field(<<"event:", "event_name", IndexOf(j)>>, E[j].name)}
                    \cup ToSet(AttributeFields(E[j].attrs, "event:event_attr:", IndexOf(j)))
           LF(j) == {Field(<<"link:", "trace_id", IndexOf(j)>>, L[j].trace), Field(<<"link:", "span_id", IndexOf(j)>>, L[j].span)}
                    \cup ToSet(AttributeFields(L[j].attrs, "link:link_attr:", IndexOf(j)))
           Attrs == ToSet(AttributeFields(s.resource, "resource_attr:", Blank)) \cup ToSet(AttributeFields(s.scope, "scope_attr:", Blank))
                    \cup ToSet(AttributeFields(s.span.attrs, "span_attr:", Blank))
<1>1. {Field(<<Blank, k, Blank>>, plain[k]) : k \in DOMAIN plain} = PlainFields(plain)
  <2>1. DOMAIN plain = PlainKeys
    BY DEF PlainJSON, PlainKeys
  <2> HIDE DEF plain
  <2> QED  BY <2>1 DEF PlainFields
<1>2. \A j \in DOMAIN E : EF(j) = EventFields(E[j], Dec(j - 1), TimesJSON(E)[j])
  BY DEF EventFields, IndexOf, TimesJSON
<1>3. \A j \in DOMAIN L : LF(j) = LinkFields(L[j], Dec(j - 1))
  BY DEF LinkFields, IndexOf
<1>4. PushFieldsFromSpan(s) =
        {Field(<<Blank, k, Blank>>, plain[k]) : k \in DOMAIN plain}
        \cup Attrs \cup (UNION {EF(j) : j \in DOMAIN E}) \cup (UNION {LF(j) : j \in DOMAIN L})
  BY DEF PushFieldsFromSpan, PlainJSON
<1> DEFINE EG(j) == EventFields(E[j], Dec(j - 1), TimesJSON(E)[j])
           LG(j) == LinkFields(L[j], Dec(j - 1))
<1>5. FieldsOf(s, plain, TimesJSON(E)) =
        PlainFields(plain) \cup Attrs \cup (UNION {EG(j) : j \in DOMAIN E}) \cup (UNION {LG(j) : j \in DOMAIN L})
  <2> HIDE DEF plain
  <2> QED  BY DEF FieldsOf
<1>6. (\A j \in DOMAIN E : EF(j) = EG(j)) /\ (\A j \in DOMAIN L : LF(j) = LG(j))
  BY <1>2, <1>3
<1> HIDE DEF EF, LF, EG, LG, plain, Attrs, E, L
<1>7. (UNION {EF(j) : j \in DOMAIN E}) = (UNION {EG(j) : j \in DOMAIN E}) /\ (UNION {LF(j) : j \in DOMAIN L}) = (UNION {LG(j) : j \in DOMAIN L})
  BY <1>6
<1>8. PushFieldsFromSpan(s) = FieldsOf(s, plain, TimesJSON(E))
  BY <1>1, <1>4, <1>5, <1>7
<1> QED  BY <1>8 DEF JSONRow, plain, E

\* The index range and the duration of a span with both times.
LEMMA TimesBack ==
  ASSUME NEW s \in Sent, Timed(s.span)
  PROVE  /\ IndexRange(StoredRow(s)) = <<s.span.start, s.span.end>> /\ IndexRange(JSONRow(s)) = <<s.span.start, s.span.end>>
         /\ Text(StoredRow(s), <<Blank, "duration", Blank>>) = Dec((s.span.end - s.span.start) % W)
         /\ Text(JSONRow(s), <<Blank, "duration", Blank>>) = Dec((s.span.end - s.span.start) % W)
<1>1. s.span.start \in 0..(W - 1) /\ s.span.end \in 0..(W - 1) /\ s.span.start # 0 /\ s.span.end # 0
  <2>1. s.span \in Span
    BY PartsTyped
  <2> QED  BY <2>1, SpanTyped DEF Timed
<1>2. /\ Text(StoredRow(s), <<Blank, "start_time", Blank>>) = OrEmpty(s.span.start)
      /\ Text(StoredRow(s), <<Blank, "end_time", Blank>>) = OrEmpty(s.span.end)
      /\ Text(StoredRow(s), <<Blank, "duration", Blank>>) = PlainOf(s.span).duration
  <2> DEFINE plain == PlainOf(s.span)
  <2>1. plain.start_time = OrEmpty(s.span.start) /\ plain.end_time = OrEmpty(s.span.end)
    BY DEF PlainOf
  <2> HIDE DEF plain
  <2> QED  BY <2>1, PlainTexts DEF StoredRow, plain
<1>3. /\ Text(JSONRow(s), <<Blank, "start_time", Blank>>) = Dec(s.span.start)
      /\ Text(JSONRow(s), <<Blank, "end_time", Blank>>) = Dec(s.span.end)
      /\ Text(JSONRow(s), <<Blank, "duration", Blank>>) = Dec((s.span.end - s.span.start) % W)
  BY PlainTexts DEF JSONRow, PlainJSON
<1>4. PlainOf(s.span).duration = Dec((s.span.end - s.span.start) % W)
  BY DEF PlainOf, Timed
<1>5. IndexRange(StoredRow(s)) = <<s.span.start, s.span.end>>
  BY <1>1, <1>2, NumberOfOrEmpty DEF IndexRange, OrNow
<1>6. IndexRange(JSONRow(s)) = <<s.span.start, s.span.end>>
  BY <1>1, <1>3, NumberOfDec DEF IndexRange, OrNow
<1> QED  BY <1>2, <1>3, <1>4, <1>5, <1>6

\* Both rows are shown alike.
LEMMA BothAgree ==
  ASSUME NEW s \in Sent, EveryEventHasAField(s.span)
  PROVE  /\ RowToSpan(JSONRow(s)) = RowToSpan(StoredRow(s))
         /\ Timed(s.span) => FieldsToSpan(JSONRow(s)) = FieldsToSpan(StoredRow(s))
<1>1. RowToSpan(JSONRow(s)) = RowToSpan(StoredRow(s))
  BY JSONReadBack, StoredReadBack
<1>2. ASSUME Timed(s.span) PROVE FieldsToSpan(JSONRow(s)) = FieldsToSpan(StoredRow(s))
  <2>1. Text(StoredRow(s), <<Blank, "duration", Blank>>) = Text(JSONRow(s), <<Blank, "duration", Blank>>)
    BY <1>2, TimesBack
  <2> QED  BY <1>1, <2>1 DEF FieldsToSpan
<1> QED  BY <1>1, <1>2

\* The duration of a span that does not end before it starts does not wrap.
LEMMA Difference ==
  ASSUME NEW V \in Nat, NEW H \in 1..(V - 1), NEW a \in 0..H, NEW b \in 0..H, a > 0, a <= b
  PROVE  (b - a) \in 0..(V - 1) /\ b - a < H /\ (b - a) % V = b - a
  OBVIOUS

\* What Jaeger needs of a span: its references do not depend on its events.
LEMMA ShownByJaeger ==
  ASSUME NEW s \in Sent, s.span.trace # "", s.span.id # "", Timed(s.span), s.span.start <= s.span.end
  PROVE  LET shown == FieldsToSpan(StoredRow(s)) IN shown # Nothing /\ shown.references = ReferencesOf(RowToSpan(StoredRow(s)))
<1> DEFINE span == RowToSpan(StoredRow(s))
           duration == Text(StoredRow(s), <<Blank, "duration", Blank>>)
<1>1. span.trace = s.span.trace /\ span.id = s.span.id
  <2>1. /\ Text(StoredRow(s), <<Blank, "trace_id", Blank>>) = s.span.trace
        /\ Text(StoredRow(s), <<Blank, "span_id", Blank>>) = s.span.id
    <3> DEFINE plain == PlainOf(s.span)
    <3>1. plain.trace_id = s.span.trace /\ plain.span_id = s.span.id
      BY DEF PlainOf
    <3> HIDE DEF plain
    <3> QED  BY <3>1, PlainTexts DEF StoredRow, plain
  <2> QED  BY <2>1 DEF RowToSpan
<1>2. FitsInt(duration)
  <2> DEFINE H == W \div 2
             from == s.span.start
             to == s.span.end
             d == to - from
  <2>0. W \in Nat /\ H \in 1..(W - 1)
    BY BoundsAssumption, HalfOfW
  <2>1. from \in 0..H /\ to \in 0..H /\ from > 0 /\ from <= to
    <3>1. s.span \in Span
      BY PartsTyped
    <3> QED  BY <3>1, SpanTyped DEF Timed
  <2>2. d \in 0..(W - 1) /\ d < H /\ d % W = d
    <3> HIDE DEF from, to, H
    <3> QED  BY <2>0, <2>1, Difference
  <2>4. duration = Dec(d % W)
    BY TimesBack
  <2> HIDE DEF d, duration, H
  <2>5. Number(duration) = d
    BY <2>2, <2>4, NumberOfDec
  <2> QED  BY <2>2, <2>5 DEF FitsInt, H
<1> DEFINE refs == ReferencesOf(span)
           kind == IF span.kind \in DOMAIN Kinds THEN Kinds[span.kind] ELSE ""
           error == CASE span.code = 1 -> "false" [] span.code = 2 -> "true" [] OTHER -> "unset"
<1>3. FieldsToSpan(StoredRow(s)) =
        [id |-> span.id, duration |-> Number(duration), references |-> refs, logs |-> span.events, kind |-> kind, error |-> error]
  <2>1. ~ (span.trace = "" \/ span.id = "" \/ ~FitsInt(duration))
    BY <1>1, <1>2
  <2> QED  BY <2>1 DEF FieldsToSpan
<1> HIDE DEF span, duration, refs, kind, error
<1>4. FieldsToSpan(StoredRow(s)) # Nothing
  <2>1. "id" \in DOMAIN FieldsToSpan(StoredRow(s)) /\ "id" \notin DOMAIN Nothing
    BY <1>3 DEF Nothing
  <2> QED  BY <2>1
<1>5. FieldsToSpan(StoredRow(s)).references = refs
  <2> DEFINE shown == FieldsToSpan(StoredRow(s))
             id == span.id
             long == Number(duration)
             logs == span.events
  <2>1. shown = [id |-> id, duration |-> long, references |-> refs, logs |-> logs, kind |-> kind, error |-> error]
    BY <1>3
  <2> HIDE DEF shown, id, long, logs
  <2>2. shown.references = refs
    BY <2>1
  <2> QED  BY <2>2 DEF shown
<1> QED  BY <1>4, <1>5 DEF refs, span

ParentOf(sp) == IF sp.parent = "" THEN {} ELSE {<<sp.trace, sp.parent>>}

\* The references of a span name its parent and every link, and its parent once.
LEMMA References ==
  ASSUME NEW sp, NEW n \in Nat, DOMAIN sp.links = 1..n
  PROVE  LET refs == ReferencesOf(sp)
             Named(r) == <<refs[r][1], refs[r][2]>> IN
         /\ {Named(r) : r \in DOMAIN refs} = ParentOf(sp) \cup {<<sp.links[l].trace, sp.links[l].span>> : l \in 1..n}
         /\ \A r, o \in DOMAIN refs : Named(r) \in ParentOf(sp) /\ Named(o) \in ParentOf(sp) => r = o
<1> DEFINE refs == ReferencesOf(sp)
           Named(r) == <<refs[r][1], refs[r][2]>>
           P == ParentOf(sp)
           Link2(l) == <<sp.links[l].trace, sp.links[l].span>>
           again == {j \in 1..n : sp.parent # "" /\ NamesParent(sp.links[j], sp)}
           first == IF sp.parent = "" THEN {} ELSE {0}
<1>1. /\ DOMAIN refs = first \cup (1..n \ again)
      /\ \A r \in DOMAIN refs : Named(r) = IF r = 0 THEN <<sp.trace, sp.parent>> ELSE Link2(r)
  BY DEF ReferencesOf
<1>2. \/ P = {} /\ first = {} /\ again = {}
      \/ P = {<<sp.trace, sp.parent>>} /\ first = {0} /\ again = {j \in 1..n : Link2(j) = <<sp.trace, sp.parent>>}
  <2>1. CASE sp.parent = ""
    <3>1. P = {}
      BY <2>1 DEF ParentOf
    <3>2. first = {}
      BY <2>1
    <3>3. again = {}
      <4>1. ASSUME NEW j \in again PROVE FALSE
        <5>1. sp.parent # ""
          BY <4>1
        <5> QED  BY <2>1, <5>1
      <4> HIDE DEF again
      <4> QED  BY <4>1
    <3> QED  BY <3>1, <3>2, <3>3
  <2>2. CASE sp.parent # ""
    <3>1. P = {<<sp.trace, sp.parent>>} /\ first = {0} /\ again = {j \in 1..n : NamesParent(sp.links[j], sp)}
      BY <2>2 DEF ParentOf
    <3>2. \A j \in 1..n : NamesParent(sp.links[j], sp) <=> Link2(j) = <<sp.trace, sp.parent>>
      BY DEF NamesParent
    <3> HIDE DEF Link2, P, first, again
    <3> QED  BY <3>1, <3>2
  <2> QED  BY <2>1, <2>2
<1> DEFINE parent == <<sp.trace, sp.parent>>
<1>3. /\ DOMAIN refs = first \cup (1..n \ again)
      /\ \A r \in DOMAIN refs : Named(r) = IF r = 0 THEN parent ELSE Link2(r)
      /\ \/ P = {} /\ first = {} /\ again = {}
         \/ P = {parent} /\ first = {0} /\ again = {j \in 1..n : Link2(j) = parent}
  BY <1>1, <1>2
<1> HIDE DEF refs, Named, P, Link2, again, first, parent
<1>4. 0 \notin 1..n
  OBVIOUS
<1>5. {Named(r) : r \in DOMAIN refs} = P \cup {Link2(l) : l \in 1..n}
  <2>1. ASSUME NEW r \in DOMAIN refs PROVE Named(r) \in P \cup {Link2(l) : l \in 1..n}
    BY <1>3, <1>4
  <2>2. ASSUME NEW x \in P PROVE \E r \in DOMAIN refs : Named(r) = x
    BY <1>3
  <2>3. ASSUME NEW l \in 1..n PROVE \E r \in DOMAIN refs : Named(r) = Link2(l)
    <3>1. CASE l \in again
      <4>1. 0 \in DOMAIN refs /\ Link2(l) = parent
        BY <1>3, <3>1
      <4> QED  BY <1>3, <4>1
    <3>2. CASE l \notin again
      BY <1>3, <1>4, <3>2
    <3> QED  BY <3>1, <3>2
  <2> QED  BY <2>1, <2>2, <2>3
<1>6. ASSUME NEW r \in DOMAIN refs, NEW o \in DOMAIN refs, Named(r) \in P, Named(o) \in P PROVE r = o
  <2>1. P = {parent} /\ first = {0} /\ again = {j \in 1..n : Link2(j) = parent}
    BY <1>3, <1>6
  <2>2. ASSUME NEW x \in DOMAIN refs, Named(x) = parent PROVE x = 0
    BY <1>3, <2>1, <2>2
  <2> QED  BY <1>6, <2>1, <2>2
<1> QED  BY <1>5, <1>6 DEF refs, Named, P, Link2

\* A link of a span has its type.
LEMMA LinkTyped ==
  ASSUME NEW s \in Sent
  PROVE  LET L == s.span.links IN Len(L) \in Nat /\ DOMAIN L = 1..Len(L) /\ \A j \in 1..Len(L) : L[j] \in Link
<1> DEFINE L == s.span.links
<1>1. L \in Seq(Link)
  BY PartsTyped
<1> HIDE DEF L
<1>2. Len(L) \in Nat /\ DOMAIN L = 1..Len(L) /\ \A j \in 1..Len(L) : L[j] \in Link
  BY <1>1
<1> QED  BY <1>2 DEF L

\* What Jaeger shows of the row that is stored.
LEMMA JaegerShows ==
  ASSUME NEW s \in Sent, s.span.trace # "", s.span.id # "", Timed(s.span), s.span.start <= s.span.end
  PROVE  LET sp == s.span
             shown == FieldsToSpan(StoredRow(s))
             Named(r) == <<shown.references[r][1], shown.references[r][2]>>
             linked == {<<sp.links[l].trace, sp.links[l].span>> : l \in DOMAIN sp.links} IN
         /\ shown # Nothing
         /\ {Named(r) : r \in DOMAIN shown.references} = ParentOf(sp) \cup linked
         /\ \A r, o \in DOMAIN shown.references : Named(r) \in ParentOf(sp) /\ Named(o) \in ParentOf(sp) => r = o
<1> DEFINE span == RowToSpan(StoredRow(s))
           L == s.span.links
           n == Len(L)
           shown == FieldsToSpan(StoredRow(s))
<1>1. shown # Nothing /\ shown.references = ReferencesOf(span)
  BY ShownByJaeger
<1>2. span.trace = s.span.trace /\ span.parent = s.span.parent
  <2> DEFINE plain == PlainOf(s.span)
  <2>1. plain.trace_id = s.span.trace /\ plain.parent_span_id = s.span.parent
    BY DEF PlainOf
  <2> HIDE DEF plain
  <2>2. /\ Text(StoredRow(s), <<Blank, "trace_id", Blank>>) = s.span.trace
        /\ Text(StoredRow(s), <<Blank, "parent_span_id", Blank>>) = s.span.parent
    BY <2>1, PlainTexts DEF StoredRow, plain
  <2> QED  BY <2>2 DEF RowToSpan
<1>3. n \in Nat /\ DOMAIN L = 1..n /\ \A j \in 1..n : L[j] \in Link
  BY LinkTyped
<1>4. span.links = [j \in DOMAIN L |-> [L[j] EXCEPT !.attrs = FlatSet(@)]]
  <2>1. span.links = LinksOf(StoredRow(s))
    BY DEF RowToSpan
  <2>2. Meant(s).links = [j \in DOMAIN L |-> [L[j] EXCEPT !.attrs = FlatSet(@)]]
    BY DEF Meant
  <2>3. LinksOf(StoredRow(s)) = Meant(s).links
    BY LinksBack DEF StoredRow
  <2> QED  BY <2>1, <2>2, <2>3
<1>5. DOMAIN span.links = 1..n /\ \A l \in 1..n : span.links[l].trace = L[l].trace /\ span.links[l].span = L[l].span
  <2> DEFINE M == span.links
  <2>1. DOMAIN M = 1..n /\ \A l \in 1..n : M[l] = [L[l] EXCEPT !.attrs = FlatSet(@)]
    BY <1>3, <1>4
  <2> HIDE DEF M, L
  <2>2. ASSUME NEW l \in 1..n PROVE M[l].trace = L[l].trace /\ M[l].span = L[l].span
    <3>1. L[l] = [trace |-> L[l].trace, span |-> L[l].span, attrs |-> L[l].attrs]
      BY <1>3 DEF Link
    <3>2. M[l] = [L[l] EXCEPT !.attrs = FlatSet(@)]
      BY <2>1
    <3> QED  BY <3>1, <3>2
  <2> QED  BY <2>1, <2>2 DEF M
<1>6. ParentOf(span) = ParentOf(s.span)
  BY <1>2 DEF ParentOf
<1> DEFINE refs == ReferencesOf(span)
           Named(r) == <<refs[r][1], refs[r][2]>>
           l1(l) == <<span.links[l].trace, span.links[l].span>>
           l2(l) == <<L[l].trace, L[l].span>>
<1>7. /\ {Named(r) : r \in DOMAIN refs} = ParentOf(s.span) \cup {l1(l) : l \in 1..n}
      /\ \A r, o \in DOMAIN refs : Named(r) \in ParentOf(s.span) /\ Named(o) \in ParentOf(s.span) => r = o
  <2> HIDE DEF span
  <2> QED  BY <1>3, <1>5, <1>6, References
<1>8. {l1(l) : l \in 1..n} = {l2(l) : l \in DOMAIN L}
  <2>1. \A l \in 1..n : l1(l) = l2(l)
    BY <1>5
  <2> HIDE DEF l1, l2
  <2> QED  BY <1>3, <2>1
<1> HIDE DEF span, L, shown, l1, n
<1> QED  BY <1>1, <1>7, <1>8 DEF shown, L
(***************************************************************************)
(* The inductive invariant of the protobuf path.  While a span is decoded, *)
(* the common fields come first in the list, and the list, as a row, holds *)
(* what was written so far and nothing else: not a field of a neighbour.   *)
(***************************************************************************)
\* What is decoded, and its fields before the tail.
With(sp) == [resource |-> sent.resource, scope |-> sent.scope, span |-> sp]
Current == With(sent.span)
ResourceFields == AttributeFields(sent.resource, "resource_attr:", Blank)
ScopeFields == ResourceFields \o AttributeFields(sent.scope, "scope_attr:", Blank)
FieldsSoFar(s) == FieldsOf(s, PlainSoFar(s.span), Times(s.span.events))
LocalOf(sp) == [eventIdx |-> Len(sp.events), linkIdx |-> Len(sp.links), trace |-> sp.trace, code |-> sp.code,
                start |-> sp.start, end |-> sp.end]

Writing == [resource : Seq(Leaf), scope : Seq(Leaf), span : Span, last : Nat]
TypeInv ==
    /\ sent \in Writing
    /\ used \in 0..MaxFields /\ Len(sent.span.events) <= used /\ Len(sent.span.links) <= used
    /\ IsList(pushed) /\ Len(pushed) \in 0..MaxSpans

CommonInv ==
    /\ level = "resource" => fs = ResourceFields
    /\ level = "scope" => fs = ScopeFields
    /\ level \in {"resource", "scope", "span"} => common.resource = Len(ResourceFields)
    /\ level \in {"scope", "span"} => common.scope = Len(ScopeFields)

HasID(sp) == sp.id # ""
UnnamedIsKindless(sp) == sp.name = Blank => sp.kind = 0
SpanInv ==
    level = "span" =>
        /\ local = LocalOf(sent.span) /\ HasID(sent.span) /\ UnnamedIsKindless(sent.span) /\ Len(pushed) < MaxSpans
        /\ IsList(fs) /\ Len(ScopeFields) <= Len(fs) /\ SubSeq(fs, 1, Len(ScopeFields)) = ScopeFields
        /\ RowOf(ToSet(fs)) = RowOf(FieldsSoFar(Current))

HasTrace(sp) == sp.trace # ""
PushedAsSent(entry) ==
    /\ entry.sent \in Sent /\ HasTrace(entry.sent.span) /\ HasID(entry.sent.span)
    /\ entry.row = StoredRow(entry.sent) /\ entry.time = entry.sent.span.start /\ entry.range = IndexRange(entry.row)
PushedInv == \A j \in DOMAIN pushed : PushedAsSent(pushed[j])

Inv == TypeInv /\ CommonInv /\ SpanInv /\ PushedInv

(***************************************************************************)
(* Lemmas on lists of fields and the rows that they are stored as.         *)
(***************************************************************************)
\* A row of two lists is the two rows.
LEMMA RowUnion == \A A, B : RowOf(A \cup B) = RowOf(A) \cup RowOf(B)
  BY DEF RowOf

\* A field without a text is not stored.
LEMMA NoText == ASSUME NEW f, f.v = Blank PROVE RowOf({f}) = {}
  BY DEF RowOf, Blank

\* A field that is left out if it has no value is as good as one with an empty text.
LEMMA PresentRow ==
  ASSUME NEW name, NEW text
  PROVE  IsList(Present(name, text)) /\ RowOf(ToSet(Present(name, text))) = RowOf({Field(name, text)})
<1>1. CASE text = ""
  <2>1. Present(name, text) = <<>>
    BY <1>1 DEF Present
  <2>2. Field(name, text).v = Blank
    BY <1>1 DEF Field, Blank
  <2>3. RowOf({Field(name, text)}) = {}
    BY <2>2, NoText
  <2>4. RowOf({}) = {}
    BY DEF RowOf
  <2> QED  BY <2>1, <2>3, <2>4, ListOfFew
<1>2. CASE text # ""
  <2>1. Present(name, text) = <<Field(name, text)>>
    BY <1>2 DEF Present
  <2> QED  BY <2>1, ListOfFew
<1> QED  BY <1>1, <1>2

\* So is a number.
LEMMA PresentNumberRow ==
  ASSUME NEW name, NEW n
  PROVE  IsList(PresentNumber(name, n)) /\ RowOf(ToSet(PresentNumber(name, n))) = RowOf({Field(name, OrEmpty(n))})
<1>1. CASE n = 0
  <2>1. PresentNumber(name, n) = <<>> /\ OrEmpty(n) = ""
    BY <1>1 DEF PresentNumber, OrEmpty
  <2>2. Field(name, OrEmpty(n)).v = Blank
    BY <2>1 DEF Field, Blank
  <2>3. RowOf({Field(name, OrEmpty(n))}) = {}
    BY <2>2, NoText
  <2>4. RowOf({}) = {}
    BY DEF RowOf
  <2> QED  BY <2>1, <2>3, <2>4, ListOfFew
<1>2. CASE n # 0
  <2>1. PresentNumber(name, n) = <<Field(name, OrEmpty(n))>>
    BY <1>2 DEF PresentNumber, OrEmpty
  <2> QED  BY <2>1, ListOfFew
<1> QED  BY <1>1, <1>2

Plains(K, plain) == {Field(<<Blank, k, Blank>>, plain[k]) : k \in K}

\* Plain fields that had no text yet are added to the row when they get one.
LEMMA PlainMerge ==
  ASSUME NEW p, NEW q, NEW K \in SUBSET PlainKeys, \A k \in PlainKeys \ K : q[k] = p[k], \A k \in K : p[k] = Blank
  PROVE  RowOf(PlainFields(q)) = RowOf(PlainFields(p)) \cup RowOf(Plains(K, q))
<1> DEFINE F(k, r) == Field(<<Blank, k, Blank>>, r[k])
<1>1. \A k \in K : F(k, p).v = Blank
  BY DEF Field
<1>2. \A k \in PlainKeys \ K : F(k, q) = F(k, p)
  OBVIOUS
<1>3. PlainFields(q) = {F(k, q) : k \in PlainKeys} /\ PlainFields(p) = {F(k, p) : k \in PlainKeys}
  BY DEF PlainFields
<1> HIDE DEF F
<1>4. RowOf({F(k, q) : k \in PlainKeys}) = RowOf({F(k, p) : k \in PlainKeys}) \cup RowOf({F(k, q) : k \in K})
  BY <1>1, <1>2 DEF RowOf, Blank
<1> QED  BY <1>3, <1>4 DEF F, Plains

\* A longer list of attributes, events or links has the fields of its parts.
LEMMA AttributesAdded ==
  ASSUME NEW a \in Seq(Leaf), NEW b \in Seq(Leaf), NEW p, NEW i
  PROVE  ToSet(AttributeFields(a \o b, p, i)) = ToSet(AttributeFields(a, p, i)) \cup ToSet(AttributeFields(b, p, i))
<1> DEFINE V(leaf) == <<Dotted(leaf.path), IF leaf.val = "" THEN "-" ELSE leaf.val>>
<1>1. a \o b \in Seq(Leaf)
  OBVIOUS
<1>2. \A attrs \in Seq(Leaf) : FlatSet(attrs) = {V(leaf) : leaf \in ToSet(attrs)}
  <2> TAKE attrs \in Seq(Leaf)
  <2>1. FlatSet(attrs) = {KeyValues(attrs)[j] : j \in DOMAIN attrs} /\ \A j \in DOMAIN attrs : KeyValues(attrs)[j] = V(attrs[j])
    BY DEF FlatSet, KeyValues, ToSet
  <2>2. ToSet(attrs) = {attrs[j] : j \in DOMAIN attrs}
    BY DEF ToSet
  <2> HIDE DEF V
  <2> QED  BY <2>1, <2>2
<1>3. ToSet(a \o b) = ToSet(a) \cup ToSet(b)
  BY ListOfAny, ListConcat
<1>4. FlatSet(a \o b) = FlatSet(a) \cup FlatSet(b)
  <2>1. /\ FlatSet(a) = {V(leaf) : leaf \in ToSet(a)} /\ FlatSet(b) = {V(leaf) : leaf \in ToSet(b)}
        /\ FlatSet(a \o b) = {V(leaf) : leaf \in ToSet(a \o b)}
    BY <1>1, <1>2
  <2> HIDE DEF V
  <2> QED  BY <1>3, <2>1
<1>5. AttributeSet(a \o b, p, i) = AttributeSet(a, p, i) \cup AttributeSet(b, p, i)
  BY <1>4 DEF AttributeSet
<1> QED  BY <1>1, <1>5, FlatFacts

AllEvents(events) == UNION {EventFields(events[j], Dec(j - 1), OrEmpty(events[j].time)) : j \in DOMAIN events}
AllLinks(links) == UNION {LinkFields(links[j], Dec(j - 1)) : j \in DOMAIN links}

\* One more event adds its fields,
LEMMA EventAdded ==
  ASSUME NEW events \in Seq(Event), NEW ev \in Event
  PROVE  AllEvents(Append(events, ev)) = AllEvents(events) \cup EventFields(ev, Dec(Len(events)), OrEmpty(ev.time))
<1> DEFINE more == Append(events, ev)
           n == Len(events)
           G(j, x) == EventFields(x, Dec(j - 1), OrEmpty(x.time))
<1>1. n \in Nat /\ DOMAIN events = 1..n /\ DOMAIN more = 1..(n + 1) /\ more[n + 1] = ev /\ \A j \in 1..n : more[j] = events[j]
  OBVIOUS
<1>2. G(n + 1, ev) = EventFields(ev, Dec(n), OrEmpty(ev.time))
  <2>1. (n + 1) - 1 = n
    BY <1>1
  <2> QED  BY <2>1
<1>3. AllEvents(more) = UNION {G(j, more[j]) : j \in DOMAIN more} /\ AllEvents(events) = UNION {G(j, events[j]) : j \in DOMAIN events}
  BY DEF AllEvents
<1> HIDE DEF more, n, G
<1>4. (UNION {G(j, more[j]) : j \in 1..(n + 1)}) = (UNION {G(j, events[j]) : j \in 1..n}) \cup G(n + 1, ev)
  <2>1. \A j \in 1..(n + 1) : j = n + 1 \/ j \in 1..n
    BY <1>1
  <2>2. 1..n \subseteq 1..(n + 1) /\ n + 1 \in 1..(n + 1)
    BY <1>1
  <2> QED  BY <1>1, <2>1, <2>2
<1> QED  BY <1>1, <1>2, <1>3, <1>4 DEF more, n

\* and one more link.
LEMMA LinkAdded ==
  ASSUME NEW links \in Seq(TracedLink), NEW ln \in TracedLink
  PROVE  AllLinks(Append(links, ln)) = AllLinks(links) \cup LinkFields(ln, Dec(Len(links)))
<1> DEFINE more == Append(links, ln)
           n == Len(links)
           G(j, x) == LinkFields(x, Dec(j - 1))
<1>1. n \in Nat /\ DOMAIN links = 1..n /\ DOMAIN more = 1..(n + 1) /\ more[n + 1] = ln /\ \A j \in 1..n : more[j] = links[j]
  OBVIOUS
<1>2. G(n + 1, ln) = LinkFields(ln, Dec(n))
  <2>1. (n + 1) - 1 = n
    BY <1>1
  <2> QED  BY <2>1
<1>3. AllLinks(more) = UNION {G(j, more[j]) : j \in DOMAIN more} /\ AllLinks(links) = UNION {G(j, links[j]) : j \in DOMAIN links}
  BY DEF AllLinks
<1> HIDE DEF more, n, G
<1>4. (UNION {G(j, more[j]) : j \in 1..(n + 1)}) = (UNION {G(j, links[j]) : j \in 1..n}) \cup G(n + 1, ln)
  <2>1. \A j \in 1..(n + 1) : j = n + 1 \/ j \in 1..n
    BY <1>1
  <2>2. 1..n \subseteq 1..(n + 1) /\ n + 1 \in 1..(n + 1)
    BY <1>1
  <2> QED  BY <1>1, <2>1, <2>2
<1> QED  BY <1>1, <1>2, <1>3, <1>4 DEF more, n

\* What resource and scope give to the row.
FrameRow(s) == RowOf(ToSet(AttributeFields(s.resource, "resource_attr:", Blank)) \cup ToSet(AttributeFields(s.scope, "scope_attr:", Blank)))
\* The row of a span, part by part.
LEMMA RowOfParts ==
  ASSUME NEW s, NEW plain
  PROVE  RowOf(FieldsOf(s, plain, Times(s.span.events))) =
           RowOf(PlainFields(plain)) \cup FrameRow(s) \cup RowOf(ToSet(AttributeFields(s.span.attrs, "span_attr:", Blank)))
           \cup RowOf(AllEvents(s.span.events)) \cup RowOf(AllLinks(s.span.links))
<1> DEFINE A == PlainFields(plain)
           B == ToSet(AttributeFields(s.resource, "resource_attr:", Blank))
           C == ToSet(AttributeFields(s.scope, "scope_attr:", Blank))
           D == ToSet(AttributeFields(s.span.attrs, "span_attr:", Blank))
           EV == AllEvents(s.span.events)
           LK == AllLinks(s.span.links)
           times == Times(s.span.events)
           ee == {EventFields(s.span.events[j], Dec(j - 1), times[j]) : j \in DOMAIN s.span.events}
           ll == {LinkFields(s.span.links[j], Dec(j - 1)) : j \in DOMAIN s.span.links}
<1>1. FieldsOf(s, plain, times) = A \cup B \cup C \cup D \cup (UNION ee) \cup (UNION ll)
  BY DEF FieldsOf
<1>2. (UNION ee) = EV
  <2> DEFINE E == s.span.events
             g(j) == EventFields(E[j], Dec(j - 1), times[j])
             h(j) == EventFields(E[j], Dec(j - 1), OrEmpty(E[j].time))
  <2>1. \A j \in DOMAIN E : g(j) = h(j)
    BY DEF Times
  <2>2. ee = {g(j) : j \in DOMAIN E} /\ EV = UNION {h(j) : j \in DOMAIN E}
    BY DEF AllEvents
  <2> HIDE DEF g, h, E, ee, EV
  <2> QED  BY <2>1, <2>2
<1>3. (UNION ll) = LK
  BY DEF AllLinks
<1> HIDE DEF A, B, C, D, EV, LK, ee, ll
<1>4. RowOf(FieldsOf(s, plain, times)) = RowOf(A) \cup RowOf(B \cup C) \cup RowOf(D) \cup RowOf(EV) \cup RowOf(LK)
  BY <1>1, <1>2, <1>3 DEF RowOf
<1> QED  BY <1>4 DEF A, B, C, D, EV, LK, FrameRow

(***************************************************************************)
(* What a span contributes to its row before the tail, and how each field  *)
(* that is decoded adds to it.                                             *)
(***************************************************************************)
SpanPart(sp) ==
    RowOf(PlainFields(PlainSoFar(sp))) \cup RowOf(ToSet(AttributeFields(sp.attrs, "span_attr:", Blank)))
    \cup RowOf(AllEvents(sp.events)) \cup RowOf(AllLinks(sp.links))

\* What is stored of a span so far is its own part and that of its resource and scope,
LEMMA RowSoFar == ASSUME NEW sp PROVE RowOf(FieldsSoFar(With(sp))) = SpanPart(sp) \cup FrameRow(With(sp))
<1> DEFINE s == With(sp)
<1>1. s.span = sp
  BY DEF With
<1> HIDE DEF s
<1>2. RowOf(FieldsSoFar(s)) =
        RowOf(PlainFields(PlainSoFar(sp))) \cup FrameRow(s) \cup RowOf(ToSet(AttributeFields(sp.attrs, "span_attr:", Blank)))
        \cup RowOf(AllEvents(sp.events)) \cup RowOf(AllLinks(sp.links))
  BY <1>1, RowOfParts DEF FieldsSoFar
<1> QED  BY <1>2 DEF SpanPart, s

\* which is the same for all spans of the scope.
LEMMA FrameKept == ASSUME NEW sp, NEW sq PROVE FrameRow(With(sp)) = FrameRow(With(sq))
  BY DEF FrameRow, With

\* The lists of a span have their types.
LEMMA SpanLists ==
  ASSUME NEW sp \in Span
  PROVE  /\ sp.events \in Seq(Event) /\ sp.links \in Seq(TracedLink) /\ sp.attrs \in Seq(Leaf)
         /\ Len(sp.events) \in Nat /\ Len(sp.links) \in Nat
<1>1. sp.events \in Seq(Event) /\ sp.links \in Seq(TracedLink) /\ sp.attrs \in Seq(Leaf)
  BY DEF Span
<1> QED  BY <1>1

\* A span that gains plain fields only gains just these.
LEMMA PlainStep ==
  ASSUME NEW sp, NEW sq, sq.attrs = sp.attrs, sq.events = sp.events, sq.links = sp.links, NEW K \in SUBSET PlainKeys,
         \A k \in PlainKeys \ K : PlainSoFar(sq)[k] = PlainSoFar(sp)[k], \A k \in K : PlainSoFar(sp)[k] = Blank
  PROVE  SpanPart(sq) = SpanPart(sp) \cup RowOf(Plains(K, PlainSoFar(sq)))
<1> DEFINE p == PlainSoFar(sp)
           q == PlainSoFar(sq)
<1>1. (\A k \in PlainKeys \ K : q[k] = p[k]) /\ (\A k \in K : p[k] = Blank)
  OBVIOUS
<1> HIDE DEF p, q
<1>2. RowOf(PlainFields(q)) = RowOf(PlainFields(p)) \cup RowOf(Plains(K, q))
  BY <1>1, PlainMerge
<1> QED  BY <1>2 DEF SpanPart, p, q

\* Decoding the parent adds its field;
LEMMA ParentPart ==
  ASSUME NEW sp \in Span, sp.parent = Blank, NEW parent \in Strings
  PROVE  LET sq == [sp EXCEPT !.parent = parent] IN
         /\ sq \in Span /\ LocalOf(sq) = LocalOf(sp) /\ sq.id = sp.id /\ sq.name = sp.name /\ sq.kind = sp.kind
         /\ sq.events = sp.events /\ sq.links = sp.links
         /\ SpanPart(sq) = SpanPart(sp) \cup RowOf({Field(<<Blank, "parent_span_id", Blank>>, parent)})
<1> DEFINE sq == [sp EXCEPT !.parent = parent]
<1>1. /\ sq \in Span /\ sq.id = sp.id /\ sq.name = sp.name /\ sq.kind = sp.kind /\ sq.start = sp.start /\ sq.end = sp.end
      /\ sq.events = sp.events /\ sq.links = sp.links /\ sq.attrs = sp.attrs /\ sq.trace = sp.trace /\ sq.code = sp.code
      /\ sq.message = sp.message /\ sq.parent = parent
  BY DEF Span
<1> HIDE DEF sq
<1>2. LocalOf(sq) = LocalOf(sp)
  BY <1>1 DEF LocalOf
<1> DEFINE K == {"parent_span_id"}
<1>3. K \in SUBSET PlainKeys
  BY DEF PlainKeys
<1>4. \A k \in PlainKeys \ K : PlainSoFar(sq)[k] = PlainSoFar(sp)[k]
  BY <1>1 DEF PlainSoFar, PlainKeys
<1>5. (\A k \in K : PlainSoFar(sp)[k] = Blank) /\ PlainSoFar(sq)["parent_span_id"] = parent
  BY <1>1 DEF PlainSoFar
<1>6. Plains(K, PlainSoFar(sq)) = {Field(<<Blank, "parent_span_id", Blank>>, parent)}
  BY <1>5 DEF Plains
<1> HIDE DEF K
<1>7. SpanPart(sq) = SpanPart(sp) \cup RowOf({Field(<<Blank, "parent_span_id", Blank>>, parent)})
  <2>1. SpanPart(sq) = SpanPart(sp) \cup RowOf(Plains(K, PlainSoFar(sq)))
    BY <1>1, <1>3, <1>4, <1>5, PlainStep
  <2> QED  BY <1>6, <2>1
<1> QED  BY <1>1, <1>2, <1>7 DEF sq

\* decoding the status adds the message, the code waits for the tail;
LEMMA StatusPart ==
  ASSUME NEW sp \in Span, sp.message = Blank, NEW message \in Strings, NEW code \in 0..(W - 1)
  PROVE  LET sq == [sp EXCEPT !.message = message, !.code = code] IN
         /\ sq \in Span /\ LocalOf(sq) = [LocalOf(sp) EXCEPT !.code = code] /\ sq.id = sp.id /\ sq.name = sp.name /\ sq.kind = sp.kind
         /\ sq.events = sp.events /\ sq.links = sp.links
         /\ SpanPart(sq) = SpanPart(sp) \cup RowOf({Field(<<Blank, "status_message", Blank>>, message)})
<1> DEFINE sq == [sp EXCEPT !.message = message, !.code = code]
<1>1. /\ sq \in Span /\ sq.id = sp.id /\ sq.name = sp.name /\ sq.kind = sp.kind /\ sq.start = sp.start /\ sq.end = sp.end
      /\ sq.events = sp.events /\ sq.links = sp.links /\ sq.attrs = sp.attrs /\ sq.trace = sp.trace /\ sq.code = code
      /\ sq.message = message /\ sq.parent = sp.parent
  BY DEF Span
<1> HIDE DEF sq
<1>2. LocalOf(sq) = [LocalOf(sp) EXCEPT !.code = code]
  BY <1>1 DEF LocalOf
<1> DEFINE K == {"status_message"}
<1>3. K \in SUBSET PlainKeys
  BY DEF PlainKeys
<1>4. \A k \in PlainKeys \ K : PlainSoFar(sq)[k] = PlainSoFar(sp)[k]
  BY <1>1 DEF PlainSoFar, PlainKeys
<1>5. (\A k \in K : PlainSoFar(sp)[k] = Blank) /\ PlainSoFar(sq)["status_message"] = message
  BY <1>1 DEF PlainSoFar
<1>6. Plains(K, PlainSoFar(sq)) = {Field(<<Blank, "status_message", Blank>>, message)}
  BY <1>5 DEF Plains
<1> HIDE DEF K
<1>7. SpanPart(sq) = SpanPart(sp) \cup RowOf({Field(<<Blank, "status_message", Blank>>, message)})
  <2>1. SpanPart(sq) = SpanPart(sp) \cup RowOf(Plains(K, PlainSoFar(sq)))
    BY <1>1, <1>3, <1>4, <1>5, PlainStep
  <2> QED  BY <1>6, <2>1
<1> QED  BY <1>1, <1>2, <1>7 DEF sq

NameFields(name, kind) == {Field(<<Blank, "name", Blank>>, name), Field(<<Blank, "kind", Blank>>, OrEmpty(kind))}
\* name and kind add both;
LEMMA NamePart ==
  ASSUME NEW sp \in Span, sp.name = Blank, sp.kind = 0, NEW name \in Strings, NEW kind \in 0..(W - 1)
  PROVE  LET sq == [sp EXCEPT !.name = name, !.kind = kind] IN
         /\ sq \in Span /\ LocalOf(sq) = LocalOf(sp) /\ sq.id = sp.id
         /\ sq.events = sp.events /\ sq.links = sp.links
         /\ SpanPart(sq) = SpanPart(sp) \cup RowOf(NameFields(name, kind))
<1> DEFINE sq == [sp EXCEPT !.name = name, !.kind = kind]
<1>1. /\ sq \in Span /\ sq.id = sp.id /\ sq.name = name /\ sq.kind = kind /\ sq.start = sp.start /\ sq.end = sp.end
      /\ sq.events = sp.events /\ sq.links = sp.links /\ sq.attrs = sp.attrs /\ sq.trace = sp.trace /\ sq.code = sp.code
      /\ sq.message = sp.message /\ sq.parent = sp.parent
  BY DEF Span
<1> HIDE DEF sq
<1>2. LocalOf(sq) = LocalOf(sp)
  BY <1>1 DEF LocalOf
<1> DEFINE K == {"name", "kind"}
<1>3. K \in SUBSET PlainKeys
  BY DEF PlainKeys
<1>4. \A k \in PlainKeys \ K : PlainSoFar(sq)[k] = PlainSoFar(sp)[k]
  BY <1>1 DEF PlainSoFar, PlainKeys
<1>5. /\ PlainSoFar(sp)["name"] = Blank /\ PlainSoFar(sp)["kind"] = Blank
      /\ PlainSoFar(sq)["name"] = name /\ PlainSoFar(sq)["kind"] = OrEmpty(kind)
  <2>1. OrEmpty(0) = Blank
    BY DEF OrEmpty, Blank
  <2> QED  BY <1>1, <2>1 DEF PlainSoFar
<1>6. Plains(K, PlainSoFar(sq)) = NameFields(name, kind)
  BY <1>5 DEF Plains, NameFields
<1>7. \A k \in K : PlainSoFar(sp)[k] = Blank
  BY <1>5
<1> HIDE DEF K
<1>8. SpanPart(sq) = SpanPart(sp) \cup RowOf(NameFields(name, kind))
  <2>1. SpanPart(sq) = SpanPart(sp) \cup RowOf(Plains(K, PlainSoFar(sq)))
    BY <1>1, <1>3, <1>4, <1>7, PlainStep
  <2> QED  BY <1>6, <2>1
<1> QED  BY <1>1, <1>2, <1>8 DEF sq

\* times wait for the tail;
LEMMA TimesPart ==
  ASSUME NEW sp \in Span, NEW start \in 0..(W \div 2), NEW end \in 0..(W \div 2)
  PROVE  LET sq == [sp EXCEPT !.start = start, !.end = end] IN
         /\ sq \in Span /\ LocalOf(sq) = [LocalOf(sp) EXCEPT !.start = start, !.end = end]
         /\ sq.id = sp.id /\ sq.name = sp.name /\ sq.kind = sp.kind /\ sq.events = sp.events /\ sq.links = sp.links
         /\ SpanPart(sq) = SpanPart(sp)
<1> DEFINE sq == [sp EXCEPT !.start = start, !.end = end]
<1>1. /\ sq \in Span /\ sq.id = sp.id /\ sq.name = sp.name /\ sq.kind = sp.kind /\ sq.start = start /\ sq.end = end
      /\ sq.events = sp.events /\ sq.links = sp.links /\ sq.attrs = sp.attrs /\ sq.trace = sp.trace /\ sq.code = sp.code
      /\ sq.message = sp.message /\ sq.parent = sp.parent
  BY DEF Span
<1> HIDE DEF sq
<1>2. LocalOf(sq) = [LocalOf(sp) EXCEPT !.start = start, !.end = end]
  <2> DEFINE local1 == LocalOf(sp)
             n == Len(sp.events)
             m == Len(sp.links)
             t == sp.trace
             c == sp.code
             b == sp.start
             e == sp.end
  <2>1. local1 = [eventIdx |-> n, linkIdx |-> m, trace |-> t, code |-> c, start |-> b, end |-> e]
    BY DEF LocalOf
  <2>2. LocalOf(sq) = [eventIdx |-> n, linkIdx |-> m, trace |-> t, code |-> c, start |-> start, end |-> end]
    BY <1>1 DEF LocalOf
  <2> HIDE DEF local1, n, m, t, c, b, e
  <2>3. [local1 EXCEPT !.start = start, !.end = end]
          = [eventIdx |-> n, linkIdx |-> m, trace |-> t, code |-> c, start |-> start, end |-> end]
    <3> DEFINE R == [eventIdx : {n}, linkIdx : {m}, trace : {t}, code : {c}, start : {b, start}, end : {e, end}]
               q == [local1 EXCEPT !.start = start, !.end = end]
    <3>1. local1 \in R
      BY <2>1
    <3>2. q \in R /\ q.start = start /\ q.end = end
      BY <3>1
    <3> HIDE DEF q
    <3>3. q = [eventIdx |-> n, linkIdx |-> m, trace |-> t, code |-> c, start |-> start, end |-> end]
      BY <3>2
    <3> QED  BY <3>3 DEF q
  <2> QED  BY <2>2, <2>3 DEF local1
<1>3. PlainSoFar(sq) = PlainSoFar(sp)
  BY <1>1 DEF PlainSoFar
<1>4. SpanPart(sq) = SpanPart(sp)
  BY <1>1, <1>3 DEF SpanPart
<1> QED  BY <1>1, <1>2, <1>4 DEF sq

\* attributes add their fields,
LEMMA AttributesPart ==
  ASSUME NEW sp \in Span, NEW kv \in Seq(Leaf)
  PROVE  LET sq == [sp EXCEPT !.attrs = @ \o kv] IN
         /\ sq \in Span /\ LocalOf(sq) = LocalOf(sp) /\ sq.id = sp.id /\ sq.name = sp.name /\ sq.kind = sp.kind
         /\ sq.events = sp.events /\ sq.links = sp.links
         /\ SpanPart(sq) = SpanPart(sp) \cup RowOf(ToSet(AttributeFields(kv, "span_attr:", Blank)))
<1> DEFINE attrs == sp.attrs \o kv
           sq == [sp EXCEPT !.attrs = @ \o kv]
<1>0. attrs \in Seq(Leaf) /\ sq = [sp EXCEPT !.attrs = attrs]
  BY SpanLists
<1> HIDE DEF attrs, sq
<1>1. /\ sq \in Span /\ sq.id = sp.id /\ sq.name = sp.name /\ sq.kind = sp.kind /\ sq.start = sp.start /\ sq.end = sp.end
      /\ sq.events = sp.events /\ sq.links = sp.links /\ sq.attrs = attrs /\ sq.trace = sp.trace /\ sq.code = sp.code
      /\ sq.message = sp.message /\ sq.parent = sp.parent
  BY <1>0 DEF Span
<1>2. LocalOf(sq) = LocalOf(sp)
  BY <1>1 DEF LocalOf
<1>3. PlainSoFar(sq) = PlainSoFar(sp)
  BY <1>1 DEF PlainSoFar
<1> DEFINE added == ToSet(AttributeFields(kv, "span_attr:", Blank))
<1>4. ToSet(AttributeFields(attrs, "span_attr:", Blank)) = ToSet(AttributeFields(sp.attrs, "span_attr:", Blank)) \cup added
  BY SpanLists, AttributesAdded DEF attrs
<1> HIDE DEF added
<1>5. RowOf(ToSet(AttributeFields(attrs, "span_attr:", Blank))) = RowOf(ToSet(AttributeFields(sp.attrs, "span_attr:", Blank))) \cup RowOf(added)
  BY <1>4, RowUnion
<1>6. SpanPart(sq) = SpanPart(sp) \cup RowOf(added)
  BY <1>1, <1>3, <1>5 DEF SpanPart
<1> QED  BY <1>1, <1>2, <1>6 DEF sq, added

\* an event its own, with the index of its place,
LEMMA EventPart ==
  ASSUME NEW sp \in Span, NEW ev \in Event
  PROVE  LET sq == [sp EXCEPT !.events = Append(@, ev)] IN
         /\ sq \in Span /\ LocalOf(sq) = [LocalOf(sp) EXCEPT !.eventIdx = @ + 1] /\ sq.id = sp.id /\ sq.name = sp.name /\ sq.kind = sp.kind
         /\ Len(sq.events) = Len(sp.events) + 1 /\ sq.links = sp.links
         /\ SpanPart(sq) = SpanPart(sp) \cup RowOf(EventFields(ev, Dec(Len(sp.events)), OrEmpty(ev.time)))
<1> DEFINE events == Append(sp.events, ev)
           sq == [sp EXCEPT !.events = Append(@, ev)]
<1>0. events \in Seq(Event) /\ Len(events) = Len(sp.events) + 1 /\ sq = [sp EXCEPT !.events = events]
  BY SpanLists
<1>00. AllEvents(events) = AllEvents(sp.events) \cup EventFields(ev, Dec(Len(sp.events)), OrEmpty(ev.time))
  BY SpanLists, EventAdded
<1> HIDE DEF events, sq
<1>1. /\ sq \in Span /\ sq.id = sp.id /\ sq.name = sp.name /\ sq.kind = sp.kind /\ sq.start = sp.start /\ sq.end = sp.end
      /\ sq.events = events /\ sq.links = sp.links /\ sq.attrs = sp.attrs /\ sq.trace = sp.trace /\ sq.code = sp.code
      /\ sq.message = sp.message /\ sq.parent = sp.parent
  BY <1>0 DEF Span
<1>2. LocalOf(sq) = [LocalOf(sp) EXCEPT !.eventIdx = @ + 1]
  BY <1>0, <1>1 DEF LocalOf
<1>3. PlainSoFar(sq) = PlainSoFar(sp)
  BY <1>1 DEF PlainSoFar
<1> DEFINE added == EventFields(ev, Dec(Len(sp.events)), OrEmpty(ev.time))
<1>4. AllEvents(events) = AllEvents(sp.events) \cup added
  BY <1>00
<1> HIDE DEF added
<1>5. RowOf(AllEvents(events)) = RowOf(AllEvents(sp.events)) \cup RowOf(added)
  BY <1>4, RowUnion
<1>6. SpanPart(sq) = SpanPart(sp) \cup RowOf(added)
  BY <1>1, <1>3, <1>5 DEF SpanPart
<1> QED  BY <1>0, <1>1, <1>2, <1>6 DEF sq, added

\* and so does a link.
LEMMA LinkPart ==
  ASSUME NEW sp \in Span, NEW ln \in TracedLink
  PROVE  LET sq == [sp EXCEPT !.links = Append(@, ln)] IN
         /\ sq \in Span /\ LocalOf(sq) = [LocalOf(sp) EXCEPT !.linkIdx = @ + 1] /\ sq.id = sp.id /\ sq.name = sp.name /\ sq.kind = sp.kind
         /\ sq.events = sp.events /\ Len(sq.links) = Len(sp.links) + 1
         /\ SpanPart(sq) = SpanPart(sp) \cup RowOf(LinkFields(ln, Dec(Len(sp.links))))
<1> DEFINE links == Append(sp.links, ln)
           sq == [sp EXCEPT !.links = Append(@, ln)]
<1>0. links \in Seq(TracedLink) /\ Len(links) = Len(sp.links) + 1 /\ sq = [sp EXCEPT !.links = links]
  BY SpanLists
<1>00. AllLinks(links) = AllLinks(sp.links) \cup LinkFields(ln, Dec(Len(sp.links)))
  BY SpanLists, LinkAdded
<1> HIDE DEF links, sq
<1>1. /\ sq \in Span /\ sq.id = sp.id /\ sq.name = sp.name /\ sq.kind = sp.kind /\ sq.start = sp.start /\ sq.end = sp.end
      /\ sq.events = sp.events /\ sq.links = links /\ sq.attrs = sp.attrs /\ sq.trace = sp.trace /\ sq.code = sp.code
      /\ sq.message = sp.message /\ sq.parent = sp.parent
  BY <1>0 DEF Span
<1>2. LocalOf(sq) = [LocalOf(sp) EXCEPT !.linkIdx = @ + 1]
  BY <1>0, <1>1 DEF LocalOf
<1>3. PlainSoFar(sq) = PlainSoFar(sp)
  BY <1>1 DEF PlainSoFar
<1> DEFINE added == LinkFields(ln, Dec(Len(sp.links)))
<1>4. AllLinks(links) = AllLinks(sp.links) \cup added
  BY <1>00
<1> HIDE DEF added
<1>5. RowOf(AllLinks(links)) = RowOf(AllLinks(sp.links)) \cup RowOf(added)
  BY <1>4, RowUnion
<1>6. SpanPart(sq) = SpanPart(sp) \cup RowOf(added)
  BY <1>1, <1>3, <1>5 DEF SpanPart
<1> QED  BY <1>0, <1>1, <1>2, <1>6 DEF sq, added

(***************************************************************************)
(* The steps.                                                              *)
(***************************************************************************)
LEMMA ConcatConcat == ASSUME NEW a, NEW b, NEW c, IsList(a), IsList(b), IsList(c) PROVE a \o b \o c = a \o (b \o c)
<1> DEFINE S == ToSet(a) \cup ToSet(b) \cup ToSet(c)
<1>1. a \in Seq(S) /\ b \in Seq(S) /\ c \in Seq(S)
  <2>1. a \in Seq(ToSet(a)) /\ b \in Seq(ToSet(b)) /\ c \in Seq(ToSet(c))
    BY DEF IsList
  <2> QED  BY <2>1
<1> HIDE DEF S
<1> QED  BY <1>1

\* What the client wrote keeps its type.
LEMMA WriteFacts ==
  ASSUME sent \in Writing, NEW n \in Nat, NEW sp \in Span, Write(n, sp)
  PROVE  sent' \in Writing /\ sent'.resource = sent.resource /\ sent'.scope = sent.scope /\ sent'.span = sp
<1>1. sent' = [sent EXCEPT !.last = n, !.span = sp]
  BY DEF Write
<1> QED  BY <1>1 DEF Writing

\* What is decoded has the type of what is sent.
LEMMA CurrentTyped ==
  ASSUME TypeInv
  PROVE  /\ Current \in Sent /\ Current.span = sent.span /\ Current.resource = sent.resource /\ Current.scope = sent.scope
         /\ sent.span \in Span /\ sent.resource \in Seq(Leaf) /\ sent.scope \in Seq(Leaf)
         /\ Len(sent.span.events) \in 0..(W - 1) /\ Len(sent.span.links) \in 0..(W - 1)
<1>1. sent.span \in Span /\ sent.resource \in Seq(Leaf) /\ sent.scope \in Seq(Leaf)
  BY DEF TypeInv, Writing
<1>2. Len(sent.span.events) \in 0..(W - 1) /\ Len(sent.span.links) \in 0..(W - 1)
  <2>1. Len(sent.span.events) \in Nat /\ Len(sent.span.links) \in Nat
    BY <1>1, SpanLists
  <2> QED  BY <2>1, BoundsAssumption DEF TypeInv
<1> DEFINE sp == sent.span
           re == sent.resource
           sc == sent.scope
<1>3. Current = [resource |-> re, scope |-> sc, span |-> sp]
  BY DEF Current, With
<1>4. sp \in Span /\ re \in Seq(Leaf) /\ sc \in Seq(Leaf) /\ Len(sp.events) < W /\ Len(sp.links) < W
  BY <1>1, <1>2, BoundsAssumption
<1> HIDE DEF sp, re, sc
<1>5. Current \in Sent /\ Current.span = sp /\ Current.resource = re /\ Current.scope = sc
  BY <1>3, <1>4 DEF Sent
<1> QED  BY <1>1, <1>2, <1>5 DEF sp, re, sc

\* The fields of resource and scope are a list, which cut back is that of the resource.
LEMMA CommonFields ==
  ASSUME TypeInv
  PROVE  /\ IsList(ResourceFields) /\ IsList(ScopeFields) /\ Len(ResourceFields) \in Nat /\ Len(ScopeFields) \in Nat
         /\ SubSeq(ScopeFields, 1, Len(ResourceFields)) = ResourceFields
         /\ RowOf(ToSet(ScopeFields)) = FrameRow(Current)
<1> DEFINE R == AttributeFields(sent.resource, "resource_attr:", Blank)
           S == AttributeFields(sent.scope, "scope_attr:", Blank)
<1>1. IsList(R) /\ IsList(S)
  BY CurrentTyped, FlatFacts
<1>2. FrameRow(Current) = RowOf(ToSet(R) \cup ToSet(S))
  BY CurrentTyped DEF FrameRow
<1>3. ResourceFields = R /\ ScopeFields = R \o S
  BY DEF ResourceFields, ScopeFields
<1> HIDE DEF R, S
<1>4. IsList(R \o S) /\ ToSet(R \o S) = ToSet(R) \cup ToSet(S) /\ SubSeq(R \o S, 1, Len(R)) = R
  BY <1>1, ListConcat
<1>5. Len(R) \in Nat /\ Len(R \o S) \in Nat
  BY <1>1, <1>4 DEF IsList
<1> QED  BY <1>1, <1>2, <1>3, <1>4, <1>5

\* A field of the span that is read keeps the invariant if it adds to the row what the list gained.
LEMMA Grow ==
  ASSUME Inv, NEW n, Reading(n), NEW m \in Nat, NEW sp \in Span, Write(m, sp),
         Len(sp.events) <= Len(sent.span.events) + 1, Len(sp.links) <= Len(sent.span.links) + 1,
         local' = LocalOf(sp), HasID(sp), UnnamedIsKindless(sp),
         NEW added, IsList(added), fs' = fs \o added, SpanPart(sp) = SpanPart(sent.span) \cup RowOf(ToSet(added))
  PROVE  Inv'
<1>1. TypeInv /\ CommonInv /\ SpanInv /\ PushedInv
  BY DEF Inv
<1>2. level = "span" /\ level' = "span" /\ used < MaxFields /\ used' = used + 1 /\ common' = common /\ pushed' = pushed
  BY DEF Reading
<1>3. sent \in Writing /\ sent' \in Writing /\ sent'.resource = sent.resource /\ sent'.scope = sent.scope /\ sent'.span = sp
  BY <1>1, WriteFacts DEF TypeInv
<1>4. ResourceFields' = ResourceFields /\ ScopeFields' = ScopeFields
  BY <1>3 DEF ResourceFields, ScopeFields
<1>5. TypeInv'
  <2>1. Len(sp.events) \in Nat /\ Len(sp.links) \in Nat
    BY SpanLists
  <2>2. Len(sent.span.events) \in Nat /\ Len(sent.span.links) \in Nat
    BY <1>1, CurrentTyped, SpanLists
  <2>3. used \in 0..MaxFields /\ Len(sent.span.events) <= used /\ Len(sent.span.links) <= used /\ MaxFields \in Nat
    BY <1>1, BoundsAssumption DEF TypeInv
  <2>4. used' \in 0..MaxFields /\ Len(sent'.span.events) <= used' /\ Len(sent'.span.links) <= used'
    BY <1>2, <1>3, <2>1, <2>2, <2>3
  <2> QED  BY <1>1, <1>2, <1>3, <2>4 DEF TypeInv
<1>6. CommonInv'
  BY <1>1, <1>2, <1>4 DEF CommonInv
<1>7. SpanInv'
  <2>1. IsList(fs) /\ Len(ScopeFields) <= Len(fs) /\ SubSeq(fs, 1, Len(ScopeFields)) = ScopeFields /\ Len(pushed) < MaxSpans
        /\ RowOf(ToSet(fs)) = RowOf(FieldsSoFar(Current))
    BY <1>1, <1>2 DEF SpanInv
  <2>2. IsList(fs') /\ ToSet(fs') = ToSet(fs) \cup ToSet(added) /\ Len(fs') = Len(fs) + Len(added)
        /\ \A k \in 0..Len(fs) : SubSeq(fs', 1, k) = SubSeq(fs, 1, k)
    BY <2>1, ListConcat
  <2>3. Len(ScopeFields) \in Nat /\ Len(fs) \in Nat /\ Len(added) \in Nat
    BY <1>1, <2>1, CommonFields DEF IsList
  <2>4. Len(ScopeFields) <= Len(fs') /\ SubSeq(fs', 1, Len(ScopeFields)) = ScopeFields
    <3>1. Len(ScopeFields) \in 0..Len(fs)
      BY <2>1, <2>3
    <3> QED  BY <2>1, <2>2, <2>3, <3>1
  <2>5. RowOf(FieldsSoFar(Current)) = SpanPart(sent.span) \cup FrameRow(With(sent.span))
    BY RowSoFar DEF Current
  <2>6. Current' = With(sp)
    BY <1>3 DEF Current, With
  <2>7. RowOf(FieldsSoFar(With(sp))) = SpanPart(sp) \cup FrameRow(With(sent.span))
    BY RowSoFar, FrameKept
  <2>8. RowOf(ToSet(fs')) = RowOf(ToSet(fs)) \cup RowOf(ToSet(added))
    BY <2>2, RowUnion
  <2>9. RowOf(ToSet(fs')) = RowOf(FieldsSoFar(With(sp)))
    BY <2>1, <2>5, <2>7, <2>8
  <2>10. RowOf(FieldsSoFar(With(sp))) = RowOf(FieldsSoFar(Current'))
    BY <2>6
  <2>11. RowOf(ToSet(fs')) = RowOf(FieldsSoFar(Current))'
    BY <2>9, <2>10 DEF RowOf, FieldsSoFar
  <2> QED  BY <1>2, <1>3, <1>4, <2>1, <2>2, <2>4, <2>11 DEF SpanInv
<1>8. PushedInv'
  BY <1>1, <1>2 DEF PushedInv
<1> QED  BY <1>5, <1>6, <1>7, <1>8 DEF Inv

\* What holds while a span is read.
LEMMA WhileReading ==
  ASSUME Inv, NEW n, Reading(n)
  PROVE  /\ sent.span \in Span /\ local = LocalOf(sent.span) /\ HasID(sent.span) /\ UnnamedIsKindless(sent.span) /\ IsList(fs)
         /\ Len(sent.span.events) \in 0..(W - 1) /\ Len(sent.span.links) \in 0..(W - 1)
<1>1. level = "span" /\ TypeInv /\ SpanInv
  BY DEF Inv, Reading
<1> QED  BY <1>1, CurrentTyped DEF SpanInv

\* Each field that is read keeps the invariant.
LEMMA DecodeParentStep == ASSUME Inv, DecodeParent PROVE Inv'
<1> DEFINE sp == sent.span
           sq == [sp EXCEPT !.parent = "p"]
           f == Field(<<Blank, "parent_span_id", Blank>>, "p")
<1>1. Reading(4) /\ sp.parent = Blank /\ Write(4, sq) /\ fs' = Append(fs, f) /\ local' = local
  BY DEF DecodeParent, Blank
<1>2. /\ sp \in Span /\ local = LocalOf(sp) /\ HasID(sp) /\ UnnamedIsKindless(sp) /\ IsList(fs)
      /\ Len(sp.events) \in Nat /\ Len(sp.links) \in Nat
  BY <1>1, WhileReading
<1>3. /\ sq \in Span /\ LocalOf(sq) = LocalOf(sp) /\ sq.id = sp.id /\ sq.name = sp.name /\ sq.kind = sp.kind
      /\ sq.events = sp.events /\ sq.links = sp.links
      /\ SpanPart(sq) = SpanPart(sp) \cup RowOf({f})
  <2>1. "p" \in Strings
    BY ClientAssumption
  <2>2. sp \in Span /\ sp.parent = Blank
    BY <1>1, <1>2
  <2> HIDE DEF sp
  <2> QED  BY <2>1, <2>2, ParentPart, Zenon
<1> HIDE DEF sq, f
<1>4. fs' = fs \o <<f>> /\ IsList(<<f>>) /\ ToSet(<<f>>) = {f}
  BY <1>1, <1>2, ListAppend, ListOfFew
<1>5. HasID(sq) /\ UnnamedIsKindless(sq) /\ local' = LocalOf(sq)
  BY <1>1, <1>2, <1>3 DEF HasID, UnnamedIsKindless
<1>6. Len(sq.events) <= Len(sp.events) + 1 /\ Len(sq.links) <= Len(sp.links) + 1
  BY <1>2, <1>3
<1>7. SpanPart(sq) = SpanPart(sent.span) \cup RowOf(ToSet(<<f>>))
  BY <1>3, <1>4
<1> QED  BY <1>1, <1>3, <1>4, <1>5, <1>6, <1>7, Grow

\* Name and kind.
LEMMA DecodeNameAndKindStep == ASSUME Inv, DecodeNameAndKind PROVE Inv'
<1>1. PICK k \in SpanKinds :
        /\ Reading(5) /\ sent.span.name = Blank /\ Write(5, [sent.span EXCEPT !.name = "n", !.kind = k])
        /\ fs' = fs \o <<Field(<<Blank, "name", Blank>>, "n")>> \o PresentNumber(<<Blank, "kind", Blank>>, k)
        /\ local' = local
  BY DEF DecodeNameAndKind, Blank
<1> DEFINE sp == sent.span
           sq == [sp EXCEPT !.name = "n", !.kind = k]
           f == Field(<<Blank, "name", Blank>>, "n")
           g == Field(<<Blank, "kind", Blank>>, OrEmpty(k))
           kind == PresentNumber(<<Blank, "kind", Blank>>, k)
           added == <<f>> \o kind
<1>2. /\ sp \in Span /\ local = LocalOf(sp) /\ HasID(sp) /\ UnnamedIsKindless(sp) /\ IsList(fs)
      /\ Len(sp.events) \in Nat /\ Len(sp.links) \in Nat
  BY <1>1, WhileReading
<1>3. /\ sq \in Span /\ LocalOf(sq) = LocalOf(sp) /\ sq.id = sp.id
      /\ sq.events = sp.events /\ sq.links = sp.links
      /\ SpanPart(sq) = SpanPart(sp) \cup RowOf(NameFields("n", k))
  <2>1. "n" \in Strings /\ k \in 0..(W - 1)
    <3>1. "n" \in Strings
      BY ClientAssumption
    <3>2. k \in 0..(W \div 2 - 1)
      BY BoundsAssumption
    <3>3. W \in Nat /\ W \div 2 \in 1..(W - 1)
      BY BoundsAssumption, HalfOfW
    <3>4. ASSUME NEW half \in 1..(W - 1), k \in 0..(half - 1) PROVE k \in 0..(W - 1)
      BY <3>3, <3>4
    <3> QED  BY <3>1, <3>2, <3>3, <3>4
  <2>2. sp \in Span /\ sp.name = Blank /\ sp.kind = 0
    BY <1>1, <1>2 DEF UnnamedIsKindless
  <2> HIDE DEF sp
  <2> QED  BY <2>1, <2>2, NamePart, Zenon
<1>4. Write(5, sq) /\ sq.name = "n"
  BY <1>1, <1>2 DEF Span
<1>5. IsList(kind) /\ RowOf(ToSet(kind)) = RowOf({g})
  BY PresentNumberRow
<1>6. fs' = fs \o <<f>> \o kind /\ NameFields("n", k) = {f, g}
  BY <1>1 DEF NameFields
<1> HIDE DEF sq, f, g, kind
<1>7. IsList(<<f>>) /\ ToSet(<<f>>) = {f}
  BY ListOfFew
<1>8. IsList(added) /\ ToSet(added) = {f} \cup ToSet(kind)
  BY <1>5, <1>7, ListConcat
<1>9. fs' = fs \o added
  BY <1>2, <1>5, <1>6, <1>7, ConcatConcat
<1>10. SpanPart(sq) = SpanPart(sent.span) \cup RowOf(ToSet(added))
  <2>1. RowOf(ToSet(added)) = RowOf({f}) \cup RowOf({g})
    BY <1>5, <1>8, RowUnion
  <2>2. RowOf({f, g}) = RowOf({f}) \cup RowOf({g})
    <3>1. {f, g} = {f} \cup {g}
      OBVIOUS
    <3> QED  BY <3>1, RowUnion
  <2> QED  BY <1>3, <1>6, <2>1, <2>2
<1>11. HasID(sq) /\ UnnamedIsKindless(sq) /\ local' = LocalOf(sq)
  <2>1. "n" # Blank
    BY DEF Blank
  <2> QED  BY <1>1, <1>2, <1>3, <1>4, <2>1 DEF HasID, UnnamedIsKindless
<1>12. Len(sq.events) <= Len(sp.events) + 1 /\ Len(sq.links) <= Len(sp.links) + 1
  BY <1>2, <1>3
<1> HIDE DEF added
<1> QED  BY <1>1, <1>3, <1>4, <1>8, <1>9, <1>10, <1>11, <1>12, Grow

\* Times.
LEMMA DecodeTimesStep == ASSUME Inv, DecodeTimes PROVE Inv'
<1>1. PICK start \in {0} \cup SpanTimes, end \in {0} \cup SpanTimes :
        /\ Reading(7) /\ Write(8, [sent.span EXCEPT !.start = start, !.end = end])
        /\ local' = [local EXCEPT !.start = start, !.end = end] /\ fs' = fs
  BY DEF DecodeTimes
<1> DEFINE sp == sent.span
           sq == [sp EXCEPT !.start = start, !.end = end]
<1>2. /\ sp \in Span /\ local = LocalOf(sp) /\ HasID(sp) /\ UnnamedIsKindless(sp) /\ IsList(fs)
      /\ Len(sp.events) \in Nat /\ Len(sp.links) \in Nat
  BY <1>1, WhileReading
<1>3. start \in 0..(W \div 2) /\ end \in 0..(W \div 2)
  BY BoundsAssumption, HalfOfW
<1>4. /\ sq \in Span /\ LocalOf(sq) = [LocalOf(sp) EXCEPT !.start = start, !.end = end]
      /\ sq.id = sp.id /\ sq.name = sp.name /\ sq.kind = sp.kind /\ sq.events = sp.events /\ sq.links = sp.links
      /\ SpanPart(sq) = SpanPart(sp)
  <2> HIDE DEF sp
  <2> QED  BY <1>2, <1>3, TimesPart, Zenon
<1>5. Write(8, sq)
  BY <1>1
<1>6. local' = LocalOf(sq)
  BY <1>1, <1>2, <1>4
<1> HIDE DEF sq
<1>7. HasID(sq) /\ UnnamedIsKindless(sq)
  BY <1>2, <1>4 DEF HasID, UnnamedIsKindless
<1>8. fs' = fs \o <<>> /\ IsList(<<>>)
  BY <1>1, <1>2, ListOfFew DEF IsList
<1>9. SpanPart(sq) = SpanPart(sent.span) \cup RowOf(ToSet(<<>>))
  BY <1>4, ListOfFew DEF RowOf
<1>10. Len(sq.events) <= Len(sp.events) + 1 /\ Len(sq.links) <= Len(sp.links) + 1
  BY <1>2, <1>4
<1> QED  BY <1>1, <1>4, <1>5, <1>6, <1>7, <1>8, <1>9, <1>10, Grow

\* Attributes.
LEMMA DecodeAttributeStep == ASSUME Inv, DecodeAttribute PROVE Inv'
<1>1. PICK kv \in Attributes :
        /\ Reading(9) /\ Write(9, [sent.span EXCEPT !.attrs = @ \o kv])
        /\ fs' = fs \o AttributeFields(kv, "span_attr:", Blank) /\ local' = local
  BY DEF DecodeAttribute
<1> DEFINE sp == sent.span
           sq == [sp EXCEPT !.attrs = @ \o kv]
           added == AttributeFields(kv, "span_attr:", Blank)
<1>2. /\ sp \in Span /\ local = LocalOf(sp) /\ HasID(sp) /\ UnnamedIsKindless(sp) /\ IsList(fs)
      /\ Len(sp.events) \in Nat /\ Len(sp.links) \in Nat
  BY <1>1, WhileReading
<1>3. kv \in Seq(Leaf)
  BY ClientAssumption
<1>4. /\ sq \in Span /\ LocalOf(sq) = LocalOf(sp) /\ sq.id = sp.id /\ sq.name = sp.name /\ sq.kind = sp.kind
      /\ sq.events = sp.events /\ sq.links = sp.links
      /\ SpanPart(sq) = SpanPart(sp) \cup RowOf(ToSet(added))
  <2> HIDE DEF sp
  <2> QED  BY <1>2, <1>3, AttributesPart, Zenon
<1>5. IsList(added)
  BY <1>3, FlatFacts
<1>6. Write(9, sq) /\ fs' = fs \o added
  BY <1>1
<1> HIDE DEF sq, added
<1>7. HasID(sq) /\ UnnamedIsKindless(sq) /\ local' = LocalOf(sq)
  BY <1>1, <1>2, <1>4 DEF HasID, UnnamedIsKindless
<1>8. Len(sq.events) <= Len(sp.events) + 1 /\ Len(sq.links) <= Len(sp.links) + 1
  BY <1>2, <1>4
<1> QED  BY <1>1, <1>4, <1>5, <1>6, <1>7, <1>8, Grow

\* Status.
LEMMA DecodeStatusStep == ASSUME Inv, DecodeStatus PROVE Inv'
<1> DEFINE sp == sent.span
           sq == [sp EXCEPT !.message = "m", !.code = 2]
           f == Field(<<Blank, "status_message", Blank>>, "m")
<1>1. /\ Reading(15) /\ sp.message = Blank /\ Write(15, sq) /\ fs' = Append(fs, f) /\ local' = [local EXCEPT !.code = 2]
  BY DEF DecodeStatus, Blank
<1>2. /\ sp \in Span /\ local = LocalOf(sp) /\ HasID(sp) /\ UnnamedIsKindless(sp) /\ IsList(fs)
      /\ Len(sp.events) \in Nat /\ Len(sp.links) \in Nat
  BY <1>1, WhileReading
<1>3. /\ sq \in Span /\ LocalOf(sq) = [LocalOf(sp) EXCEPT !.code = 2] /\ sq.id = sp.id /\ sq.name = sp.name /\ sq.kind = sp.kind
      /\ sq.events = sp.events /\ sq.links = sp.links
      /\ SpanPart(sq) = SpanPart(sp) \cup RowOf({f})
  <2>1. "m" \in Strings /\ 2 \in 0..(W - 1)
    <3>1. "m" \in Strings
      BY ClientAssumption
    <3> QED  BY <3>1, BoundsAssumption
  <2>2. sp \in Span /\ sp.message = Blank
    BY <1>1, <1>2
  <2> HIDE DEF sp
  <2> QED  BY <2>1, <2>2, StatusPart, Zenon
<1>4. local' = LocalOf(sq)
  BY <1>1, <1>2, <1>3
<1> HIDE DEF sq, f
<1>5. fs' = fs \o <<f>> /\ IsList(<<f>>) /\ ToSet(<<f>>) = {f}
  BY <1>1, <1>2, ListAppend, ListOfFew
<1>6. HasID(sq) /\ UnnamedIsKindless(sq)
  BY <1>1, <1>2, <1>3 DEF HasID, UnnamedIsKindless
<1>7. Len(sq.events) <= Len(sp.events) + 1 /\ Len(sq.links) <= Len(sp.links) + 1
  BY <1>2, <1>3
<1>8. SpanPart(sq) = SpanPart(sent.span) \cup RowOf(ToSet(<<f>>))
  BY <1>3, <1>5
<1> QED  BY <1>1, <1>3, <1>4, <1>5, <1>6, <1>7, <1>8, Grow

\* An event: its index is the number of events before it.
LEMMA DecodeEventStep == ASSUME Inv, DecodeEvent PROVE Inv'
<1>1. PICK ev \in Events :
        /\ Reading(11) /\ Write(11, [sent.span EXCEPT !.events = Append(@, ev)])
        /\ fs' = fs \o PresentNumber(<<"event:", "event_time_unix_nano", Dec(local.eventIdx)>>, ev.time)
                    \o Present(<<"event:", "event_name", Dec(local.eventIdx)>>, ev.name)
                    \o AttributeFields(ev.attrs, "event:event_attr:", Dec(local.eventIdx))
        /\ local' = [local EXCEPT !.eventIdx = @ + 1]
  BY DEF DecodeEvent
<1> DEFINE sp == sent.span
           sq == [sp EXCEPT !.events = Append(@, ev)]
           i == Dec(Len(sp.events))
           a == PresentNumber(<<"event:", "event_time_unix_nano", i>>, ev.time)
           b == Present(<<"event:", "event_name", i>>, ev.name)
           c == AttributeFields(ev.attrs, "event:event_attr:", i)
           f == Field(<<"event:", "event_time_unix_nano", i>>, OrEmpty(ev.time))
           g == Field(<<"event:", "event_name", i>>, ev.name)
           added == (a \o b) \o c
<1>2. /\ sp \in Span /\ local = LocalOf(sp) /\ HasID(sp) /\ UnnamedIsKindless(sp) /\ IsList(fs)
      /\ Len(sp.events) \in Nat /\ Len(sp.links) \in Nat
  BY <1>1, WhileReading
<1>3. ev \in Event /\ ev.attrs \in Seq(Leaf)
  <2>1. ev \in Event
    BY ClientAssumption
  <2> QED  BY <2>1 DEF Event
<1>4. /\ sq \in Span /\ LocalOf(sq) = [LocalOf(sp) EXCEPT !.eventIdx = @ + 1] /\ sq.id = sp.id /\ sq.name = sp.name /\ sq.kind = sp.kind
      /\ Len(sq.events) = Len(sp.events) + 1 /\ sq.links = sp.links
      /\ SpanPart(sq) = SpanPart(sp) \cup RowOf(EventFields(ev, i, OrEmpty(ev.time)))
  <2> HIDE DEF sp
  <2> QED  BY <1>2, <1>3, EventPart, Zenon
<1>5. local.eventIdx = Len(sp.events)
  BY <1>2 DEF LocalOf
<1>6. fs' = fs \o a \o b \o c
  BY <1>1, <1>5
<1>7. Write(11, sq) /\ local' = LocalOf(sq)
  BY <1>1, <1>2, <1>4
<1>8. EventFields(ev, i, OrEmpty(ev.time)) = {f, g} \cup ToSet(c)
  BY DEF EventFields
<1>9. IsList(a) /\ RowOf(ToSet(a)) = RowOf({f}) /\ IsList(b) /\ RowOf(ToSet(b)) = RowOf({g}) /\ IsList(c)
  BY <1>3, PresentNumberRow, PresentRow, FlatFacts
<1> HIDE DEF sq, i, a, b, c, f, g
<1>10. IsList(a \o b) /\ ToSet(a \o b) = ToSet(a) \cup ToSet(b)
  BY <1>9, ListConcat
<1>11. IsList(added) /\ ToSet(added) = ToSet(a \o b) \cup ToSet(c)
  BY <1>9, <1>10, ListConcat
<1>12. fs' = fs \o added
  <2> DEFINE ab == a \o b
  <2>1. fs \o a \o b = fs \o ab
    BY <1>2, <1>9, ConcatConcat
  <2>2. IsList(ab) /\ added = ab \o c
    BY <1>10
  <2> HIDE DEF ab, added
  <2>3. fs \o ab \o c = fs \o added
    BY <1>2, <1>9, <2>2, ConcatConcat
  <2> QED  BY <1>6, <2>1, <2>3
<1>13. RowOf(ToSet(added)) = RowOf({f, g} \cup ToSet(c))
  <2>1. RowOf(ToSet(added)) = RowOf({f}) \cup RowOf({g}) \cup RowOf(ToSet(c))
    BY <1>9, <1>10, <1>11, RowUnion
  <2>2. {f, g} = {f} \cup {g}
    OBVIOUS
  <2>3. RowOf({f, g}) = RowOf({f}) \cup RowOf({g})
    BY <2>2, RowUnion
  <2>4. RowOf({f, g} \cup ToSet(c)) = RowOf({f, g}) \cup RowOf(ToSet(c))
    BY RowUnion
  <2> QED  BY <2>1, <2>3, <2>4
<1>14. SpanPart(sq) = SpanPart(sent.span) \cup RowOf(ToSet(added))
  BY <1>4, <1>8, <1>13
<1>15. HasID(sq) /\ UnnamedIsKindless(sq)
  BY <1>2, <1>4 DEF HasID, UnnamedIsKindless
<1>16. Len(sq.events) <= Len(sp.events) + 1 /\ Len(sq.links) <= Len(sp.links) + 1
  BY <1>2, <1>4
<1> HIDE DEF added
<1> QED  BY <1>1, <1>4, <1>7, <1>11, <1>12, <1>14, <1>15, <1>16, Grow

\* A link: its index is the number of links before it.
LEMMA DecodeLinkStep == ASSUME Inv, DecodeLink PROVE Inv'
<1>1. PICK ln \in Links :
        /\ Reading(11) /\ Write(11, [sent.span EXCEPT !.links = Append(@, ln)])
        /\ fs' = fs \o <<Field(<<"link:", "trace_id", Dec(local.linkIdx)>>, ln.trace), Field(<<"link:", "span_id", Dec(local.linkIdx)>>, ln.span)>>
                    \o AttributeFields(ln.attrs, "link:link_attr:", Dec(local.linkIdx))
        /\ local' = [local EXCEPT !.linkIdx = @ + 1]
  BY DEF DecodeLink
<1> DEFINE sp == sent.span
           sq == [sp EXCEPT !.links = Append(@, ln)]
           i == Dec(Len(sp.links))
           f == Field(<<"link:", "trace_id", i>>, ln.trace)
           g == Field(<<"link:", "span_id", i>>, ln.span)
           c == AttributeFields(ln.attrs, "link:link_attr:", i)
           added == <<f, g>> \o c
<1>2. /\ sp \in Span /\ local = LocalOf(sp) /\ HasID(sp) /\ UnnamedIsKindless(sp) /\ IsList(fs)
      /\ Len(sp.events) \in Nat /\ Len(sp.links) \in Nat
  BY <1>1, WhileReading
<1>3. ln \in TracedLink /\ ln.attrs \in Seq(Leaf)
  <2>1. ln \in Link /\ ln.trace # ""
    BY ClientAssumption
  <2> QED  BY <2>1 DEF Link, TracedLink
<1>4. /\ sq \in Span /\ LocalOf(sq) = [LocalOf(sp) EXCEPT !.linkIdx = @ + 1] /\ sq.id = sp.id /\ sq.name = sp.name /\ sq.kind = sp.kind
      /\ sq.events = sp.events /\ Len(sq.links) = Len(sp.links) + 1
      /\ SpanPart(sq) = SpanPart(sp) \cup RowOf(LinkFields(ln, i))
  <2> HIDE DEF sp
  <2> QED  BY <1>2, <1>3, LinkPart, Zenon
<1>5. local.linkIdx = Len(sp.links)
  BY <1>2 DEF LocalOf
<1>6. fs' = fs \o <<f, g>> \o c
  BY <1>1, <1>5
<1>7. Write(11, sq) /\ local' = LocalOf(sq)
  BY <1>1, <1>2, <1>4
<1>8. LinkFields(ln, i) = {f, g} \cup ToSet(c)
  BY DEF LinkFields
<1>9. IsList(c) /\ IsList(<<f, g>>) /\ ToSet(<<f, g>>) = {f, g}
  BY <1>3, FlatFacts, ListOfFew
<1> HIDE DEF sq, i, c, f, g
<1>10. IsList(added) /\ ToSet(added) = {f, g} \cup ToSet(c)
  BY <1>9, ListConcat
<1>11. fs' = fs \o added
  BY <1>2, <1>6, <1>9, ConcatConcat
<1>12. SpanPart(sq) = SpanPart(sent.span) \cup RowOf(ToSet(added))
  BY <1>4, <1>8, <1>10
<1>13. HasID(sq) /\ UnnamedIsKindless(sq)
  BY <1>2, <1>4 DEF HasID, UnnamedIsKindless
<1>14. Len(sq.events) <= Len(sp.events) + 1 /\ Len(sq.links) <= Len(sp.links) + 1
  BY <1>2, <1>4
<1> HIDE DEF added
<1> QED  BY <1>1, <1>4, <1>7, <1>10, <1>11, <1>12, <1>13, <1>14, Grow

\* Fields without texts are not stored.
LEMMA NoTexts == ASSUME NEW F, \A f \in F : f.v = Blank PROVE RowOf(F) = {}
  BY DEF RowOf, Blank

\* Before its first field a span has none.
LEMMA NoSpanFacts == NoSpan \in Span /\ SpanPart(NoSpan) = {} /\ Len(NoSpan.events) = 0 /\ Len(NoSpan.links) = 0
<1>1. "" \in Strings /\ 0 \in 0..(W - 1) /\ 0 \in 0..(W \div 2)
  <2>1. "" \in Strings
    BY ClientAssumption
  <2>2. 0 \in 0..(W - 1) /\ 0 \in 0..(W \div 2)
    BY BoundsAssumption, HalfOfW
  <2> QED  BY <2>1, <2>2
<1>2. <<>> \in Seq(Leaf) /\ <<>> \in Seq(Event) /\ <<>> \in Seq(TracedLink)
  OBVIOUS
<1>3. NoSpan \in Span
  BY <1>1, <1>2 DEF NoSpan, Span
<1>4. Len(NoSpan.events) = 0 /\ Len(NoSpan.links) = 0
  BY DEF NoSpan
<1>5. RowOf(ToSet(AttributeFields(<<>>, "span_attr:", Blank))) = {} /\ AllEvents(<<>>) = {} /\ AllLinks(<<>>) = {}
  <2>1. DOMAIN AttributeFields(<<>>, "span_attr:", Blank) = {}
    BY DEF AttributeFields
  <2>2. ToSet(AttributeFields(<<>>, "span_attr:", Blank)) = {}
    BY <2>1 DEF ToSet
  <2>3. RowOf({}) = {}
    BY DEF RowOf
  <2>4. DOMAIN <<>> = {}
    OBVIOUS
  <2>5. AllEvents(<<>>) = {} /\ AllLinks(<<>>) = {}
    BY <2>4, Zenon DEF AllEvents, AllLinks
  <2> QED  BY <2>2, <2>3, <2>5
<1>6. RowOf(PlainFields(PlainSoFar(NoSpan))) = {}
  <2> DEFINE p == PlainSoFar(NoSpan)
  <2>1. OrEmpty(0) = Blank /\ NoSpan.kind = 0 /\ NoSpan.id = Blank /\ NoSpan.parent = Blank /\ NoSpan.name = Blank /\ NoSpan.message = Blank
    BY DEF OrEmpty, NoSpan, Blank
  <2>2. \A k \in PlainKeys : p[k] = Blank
    BY <2>1 DEF PlainSoFar, PlainKeys
  <2> HIDE DEF p
  <2>3. \A f \in PlainFields(p) : f.v = Blank
    BY <2>2 DEF PlainFields, Field
  <2> QED  BY <2>3, NoTexts DEF p
<1>7. RowOf({}) = {}
  BY DEF RowOf
<1>8. SpanPart(NoSpan) = {}
  <2>1. NoSpan.attrs = <<>> /\ NoSpan.events = <<>> /\ NoSpan.links = <<>>
    BY DEF NoSpan
  <2> QED  BY <1>5, <1>6, <1>7, <2>1 DEF SpanPart
<1> QED  BY <1>3, <1>4, <1>8

\* A span that has just begun has its ID only.
LEMMA FirstPart ==
  ASSUME NEW trace \in Strings, NEW id \in Strings
  PROVE  LET sq == [NoSpan EXCEPT !.trace = trace, !.id = id] IN
         /\ sq \in Span /\ LocalOf(sq) = [NoLocal EXCEPT !.trace = trace] /\ sq.kind = 0
         /\ Len(sq.events) = 0 /\ Len(sq.links) = 0
         /\ SpanPart(sq) = RowOf({Field(<<Blank, "span_id", Blank>>, id)})
<1> DEFINE sp == NoSpan
           sq == [sp EXCEPT !.trace = trace, !.id = id]
<1>0. /\ sp \in Span /\ SpanPart(sp) = {} /\ sp.events = <<>> /\ sp.links = <<>> /\ sp.code = 0 /\ sp.start = 0 /\ sp.end = 0 /\ sp.id = Blank
      /\ sp.kind = 0
  BY NoSpanFacts DEF NoSpan, Blank
<1> HIDE DEF sp
<1>1. /\ sq \in Span /\ sq.id = id /\ sq.name = sp.name /\ sq.kind = sp.kind /\ sq.start = sp.start /\ sq.end = sp.end
      /\ sq.events = sp.events /\ sq.links = sp.links /\ sq.attrs = sp.attrs /\ sq.trace = trace /\ sq.code = sp.code
      /\ sq.message = sp.message /\ sq.parent = sp.parent
  BY <1>0 DEF Span
<1> HIDE DEF sq
<1>2. LocalOf(sq) = [NoLocal EXCEPT !.trace = trace]
  <2>1. Len(sq.events) = 0 /\ Len(sq.links) = 0
    BY <1>0, <1>1
  <2>2. LocalOf(sq) = [eventIdx |-> 0, linkIdx |-> 0, trace |-> trace, code |-> 0, start |-> 0, end |-> 0]
    BY <1>0, <1>1, <2>1 DEF LocalOf
  <2> DEFINE R == [eventIdx : {0}, linkIdx : {0}, trace : {"", trace}, code : {0}, start : {0}, end : {0}]
             q == [NoLocal EXCEPT !.trace = trace]
  <2>3. NoLocal \in R
    BY DEF NoLocal
  <2>4. q \in R /\ q.trace = trace
    BY <2>3
  <2> HIDE DEF q
  <2>5. q = [eventIdx |-> 0, linkIdx |-> 0, trace |-> trace, code |-> 0, start |-> 0, end |-> 0]
    BY <2>4
  <2> QED  BY <2>2, <2>5 DEF q
<1> DEFINE K == {"span_id"}
<1>3. K \in SUBSET PlainKeys
  BY DEF PlainKeys
<1>4. \A k \in PlainKeys \ K : PlainSoFar(sq)[k] = PlainSoFar(sp)[k]
  BY <1>1 DEF PlainSoFar, PlainKeys
<1>5. (\A k \in K : PlainSoFar(sp)[k] = Blank) /\ PlainSoFar(sq)["span_id"] = id
  BY <1>0, <1>1 DEF PlainSoFar
<1>6. Plains(K, PlainSoFar(sq)) = {Field(<<Blank, "span_id", Blank>>, id)}
  BY <1>5 DEF Plains
<1> HIDE DEF K
<1>7. SpanPart(sq) = RowOf({Field(<<Blank, "span_id", Blank>>, id)})
  <2>1. SpanPart(sq) = SpanPart(sp) \cup RowOf(Plains(K, PlainSoFar(sq)))
    BY <1>1, <1>3, <1>4, <1>5, PlainStep
  <2> QED  BY <1>0, <1>6, <2>1
<1>8. Len(sq.events) = 0 /\ Len(sq.links) = 0 /\ sq.kind = 0
  BY <1>0, <1>1
<1> QED  BY <1>1, <1>2, <1>7, <1>8 DEF sq, sp

\* The start of a span keeps the invariant: behind the common fields comes its ID.
LEMMA BeginSpanStep == ASSUME Inv, BeginSpan PROVE Inv'
<1>1. PICK trace \in Strings :
        local' = [NoLocal EXCEPT !.trace = trace] /\ Write(2, [NoSpan EXCEPT !.trace = trace, !.id = "s1"])
  <2>1. \A x \in {"t1", ""} : x \in Strings
    BY ClientAssumption
  <2> QED  BY <2>1 DEF BeginSpan
<1>2. /\ level = "scope" /\ level' = "span" /\ Len(pushed) < MaxSpans /\ fs' = Append(fs, Field(<<Blank, "span_id", Blank>>, "s1"))
      /\ common' = common /\ used' = used /\ pushed' = pushed
  BY DEF BeginSpan
<1>3. TypeInv /\ CommonInv /\ SpanInv /\ PushedInv
  BY DEF Inv
<1> DEFINE sq == [NoSpan EXCEPT !.trace = trace, !.id = "s1"]
           f == Field(<<Blank, "span_id", Blank>>, "s1")
<1>4. /\ sq \in Span /\ LocalOf(sq) = [NoLocal EXCEPT !.trace = trace] /\ sq.kind = 0
      /\ Len(sq.events) = 0 /\ Len(sq.links) = 0
      /\ SpanPart(sq) = RowOf({f})
  <2>1. "s1" \in Strings
    BY ClientAssumption
  <2> QED  BY <2>1, FirstPart, Zenon
<1>5. Write(2, sq) /\ local' = LocalOf(sq) /\ fs' = Append(fs, f)
  BY <1>1, <1>2, <1>4
<1>6. HasID(sq)
  <2>1. sq.id = "s1"
    BY NoSpanFacts DEF Span
  <2> QED  BY <2>1 DEF HasID
<1> HIDE DEF sq, f
<1>7. UnnamedIsKindless(sq)
  BY <1>4 DEF UnnamedIsKindless
<1>8. sent \in Writing /\ sent' \in Writing /\ sent'.resource = sent.resource /\ sent'.scope = sent.scope /\ sent'.span = sq
  BY <1>3, <1>4, <1>5, WriteFacts DEF TypeInv
<1>9. ResourceFields' = ResourceFields /\ ScopeFields' = ScopeFields
  BY <1>8 DEF ResourceFields, ScopeFields
<1>10. fs = ScopeFields /\ IsList(ScopeFields) /\ RowOf(ToSet(ScopeFields)) = FrameRow(Current) /\ Len(ScopeFields) \in Nat
  BY <1>2, <1>3, CommonFields DEF CommonInv
<1>11. IsList(<<f>>) /\ ToSet(<<f>>) = {f} /\ fs' = ScopeFields \o <<f>> /\ Len(<<f>>) = 1
  BY <1>5, <1>10, ListAppend, ListOfFew
<1>12. /\ IsList(fs') /\ ToSet(fs') = ToSet(ScopeFields) \cup {f} /\ Len(fs') = Len(ScopeFields) + 1
       /\ SubSeq(fs', 1, Len(ScopeFields)) = ScopeFields
  BY <1>10, <1>11, ListConcat
<1>13. TypeInv'
  <2>1. used \in 0..MaxFields /\ MaxFields \in Nat
    BY <1>3, BoundsAssumption DEF TypeInv
  <2>2. Len(sent'.span.events) <= used' /\ Len(sent'.span.links) <= used'
    BY <1>2, <1>4, <1>8, <2>1
  <2> QED  BY <1>2, <1>3, <1>8, <2>2 DEF TypeInv
<1>14. CommonInv'
  BY <1>2, <1>3, <1>9 DEF CommonInv
<1>15. SpanInv'
  <2>1. RowOf(ToSet(fs')) = FrameRow(Current) \cup RowOf({f})
    BY <1>10, <1>12, RowUnion
  <2>2. Current' = With(sq)
    BY <1>8 DEF Current, With
  <2>3. RowOf(FieldsSoFar(With(sq))) = SpanPart(sq) \cup FrameRow(Current)
    BY RowSoFar, FrameKept DEF Current
  <2>4. RowOf(ToSet(fs')) = RowOf(FieldsSoFar(With(sq)))
    BY <1>4, <2>1, <2>3
  <2>5. RowOf(FieldsSoFar(With(sq))) = RowOf(FieldsSoFar(Current'))
    BY <2>2
  <2>6. RowOf(ToSet(fs')) = RowOf(FieldsSoFar(Current))'
    BY <2>4, <2>5 DEF RowOf, FieldsSoFar
  <2>7. Len(ScopeFields) <= Len(fs')
    BY <1>10, <1>12
  <2> QED  BY <1>2, <1>5, <1>6, <1>7, <1>8, <1>9, <1>12, <2>6, <2>7 DEF SpanInv
<1>16. PushedInv'
  BY <1>2, <1>3 DEF PushedInv
<1> QED  BY <1>13, <1>14, <1>15, <1>16 DEF Inv

(***************************************************************************)
(* The tail, and the span pushed.                                          *)
(***************************************************************************)
TailKeys == {"duration", "status_code", "start_time", "end_time", "trace_id"}

\* The tail holds the plain fields that were kept for it.
LEMMA TailRow ==
  ASSUME NEW sp \in Span, local = LocalOf(sp)
  PROVE  IsList(TailFields) /\ RowOf(ToSet(TailFields)) = RowOf(Plains(TailKeys, PlainOf(sp)))
<1> DEFINE q == PlainOf(sp)
           F(k) == Field(<<Blank, k, Blank>>, q[k])
           timed == sp.start > 0 /\ sp.end > 0
           a == IF timed THEN <<Field(<<Blank, "duration", Blank>>, Dec((sp.end - sp.start) % W))>> ELSE <<>>
           b == <<Field(<<Blank, "status_code", Blank>>, Dec(sp.code))>>
           c == PresentNumber(<<Blank, "start_time", Blank>>, sp.start)
           d == PresentNumber(<<Blank, "end_time", Blank>>, sp.end)
           e == Present(<<Blank, "trace_id", Blank>>, sp.trace)
<1>1. local.start = sp.start /\ local.end = sp.end /\ local.code = sp.code /\ local.trace = sp.trace
  BY DEF LocalOf
<1>2. TailFields = a \o b \o c \o d \o e
  BY <1>1 DEF TailFields
<1>3. /\ q["duration"] = (IF timed THEN Dec((sp.end - sp.start) % W) ELSE Blank) /\ q["status_code"] = Dec(sp.code)
      /\ q["start_time"] = OrEmpty(sp.start) /\ q["end_time"] = OrEmpty(sp.end) /\ q["trace_id"] = sp.trace
  BY DEF PlainOf
<1> HIDE DEF q
<1>4. IsList(a) /\ RowOf(ToSet(a)) = RowOf({F("duration")})
  <2>1. CASE timed
    BY <1>3, <2>1, ListOfFew
  <2>2. CASE ~timed
    <3>1. a = <<>> /\ F("duration").v = Blank
      BY <1>3, <2>2 DEF Field
    <3>2. RowOf({F("duration")}) = {} /\ RowOf({}) = {}
      <4> HIDE DEF F
      <4> QED  BY <3>1, NoText DEF RowOf
    <3> QED  BY <3>1, <3>2, ListOfFew
  <2> QED  BY <2>1, <2>2
<1>5. IsList(b) /\ RowOf(ToSet(b)) = RowOf({F("status_code")})
  BY <1>3, ListOfFew
<1>6. IsList(c) /\ RowOf(ToSet(c)) = RowOf({F("start_time")}) /\ IsList(d) /\ RowOf(ToSet(d)) = RowOf({F("end_time")})
      /\ IsList(e) /\ RowOf(ToSet(e)) = RowOf({F("trace_id")})
  <2>1. IsList(c) /\ RowOf(ToSet(c)) = RowOf({F("start_time")})
    BY <1>3, PresentNumberRow
  <2>2. IsList(d) /\ RowOf(ToSet(d)) = RowOf({F("end_time")})
    BY <1>3, PresentNumberRow
  <2>3. IsList(e) /\ RowOf(ToSet(e)) = RowOf({F("trace_id")})
    BY <1>3, PresentRow
  <2> QED  BY <2>1, <2>2, <2>3
<1> HIDE DEF a, b, c, d, e, timed
<1>7. IsList(a \o b) /\ RowOf(ToSet(a \o b)) = RowOf({F("duration")}) \cup RowOf({F("status_code")})
  BY <1>4, <1>5, ListConcat, RowUnion
<1>8. IsList(a \o b \o c) /\ RowOf(ToSet(a \o b \o c)) = RowOf(ToSet(a \o b)) \cup RowOf({F("start_time")})
  <2> DEFINE ab == a \o b
  <2>1. IsList(ab)
    BY <1>7
  <2> HIDE DEF ab
  <2>2. IsList(ab \o c) /\ RowOf(ToSet(ab \o c)) = RowOf(ToSet(ab)) \cup RowOf({F("start_time")})
    BY <1>6, <2>1, ListConcat, RowUnion
  <2> QED  BY <2>2 DEF ab
<1>9. IsList(a \o b \o c \o d) /\ RowOf(ToSet(a \o b \o c \o d)) = RowOf(ToSet(a \o b \o c)) \cup RowOf({F("end_time")})
  <2> DEFINE ab == a \o b \o c
  <2>1. IsList(ab)
    BY <1>8
  <2> HIDE DEF ab
  <2>2. IsList(ab \o d) /\ RowOf(ToSet(ab \o d)) = RowOf(ToSet(ab)) \cup RowOf({F("end_time")})
    BY <1>6, <2>1, ListConcat, RowUnion
  <2> QED  BY <2>2 DEF ab
<1>10. IsList(TailFields) /\ RowOf(ToSet(TailFields)) = RowOf(ToSet(a \o b \o c \o d)) \cup RowOf({F("trace_id")})
  <2> DEFINE ab == a \o b \o c \o d
  <2>1. IsList(ab) /\ TailFields = ab \o e
    BY <1>2, <1>9
  <2> HIDE DEF ab
  <2> HIDE DEF F
  <2>2. IsList(ab \o e) /\ RowOf(ToSet(ab \o e)) = RowOf(ToSet(ab)) \cup RowOf({F("trace_id")})
    BY <1>6, <2>1, ListConcat, RowUnion
  <2> QED  BY <2>1, <2>2 DEF ab
<1>11. RowOf(Plains(TailKeys, q)) =
         RowOf({F("duration")}) \cup RowOf({F("status_code")}) \cup RowOf({F("start_time")}) \cup RowOf({F("end_time")}) \cup RowOf({F("trace_id")})
  <2>1. Plains(TailKeys, q) = {F("duration"), F("status_code"), F("start_time"), F("end_time"), F("trace_id")}
    BY DEF Plains, TailKeys
  <2> HIDE DEF F
  <2> QED  BY <2>1 DEF RowOf
<1>12. RowOf(ToSet(TailFields)) = RowOf(Plains(TailKeys, q))
  <2> HIDE DEF F
  <2> QED  BY <1>7, <1>8, <1>9, <1>10, <1>11
<1> QED  BY <1>10, <1>12 DEF q

\* The row that is pushed when a span ends.
LEMMA PushedRow ==
  ASSUME Inv, level = "span"
  PROVE  RowOf(ToSet(fs \o TailFields)) = StoredRow(Current)
<1> DEFINE sp == sent.span
           p == PlainSoFar(sp)
           q == PlainOf(sp)
<1>1. TypeInv /\ local = LocalOf(sp) /\ IsList(fs) /\ RowOf(ToSet(fs)) = RowOf(FieldsSoFar(Current))
  BY DEF Inv, SpanInv
<1>2. sp \in Span /\ Current.span = sp
  BY <1>1, CurrentTyped
<1>3. IsList(TailFields) /\ RowOf(ToSet(TailFields)) = RowOf(Plains(TailKeys, q))
  BY <1>1, <1>2, TailRow
<1>4. TailKeys \in SUBSET PlainKeys /\ (\A k \in PlainKeys \ TailKeys : q[k] = p[k]) /\ (\A k \in TailKeys : p[k] = Blank)
  <2>1. TailKeys \in SUBSET PlainKeys
    BY DEF TailKeys, PlainKeys
  <2>2. \A k \in PlainKeys \ TailKeys : q[k] = p[k]
    BY DEF TailKeys, PlainKeys, PlainSoFar, PlainOf
  <2>3. \A k \in TailKeys : p[k] = Blank
    BY DEF TailKeys, PlainSoFar
  <2> QED  BY <2>1, <2>2, <2>3
<1>5. FieldsSoFar(Current) = FieldsOf(Current, p, Times(sp.events)) /\ StoredRow(Current) = RowOf(FieldsOf(Current, q, Times(sp.events)))
  BY <1>2 DEF FieldsSoFar, StoredRow
<1> DEFINE rest == FrameRow(Current) \cup RowOf(ToSet(AttributeFields(sp.attrs, "span_attr:", Blank)))
                   \cup RowOf(AllEvents(sp.events)) \cup RowOf(AllLinks(sp.links))
<1> HIDE DEF p, q
<1>6. RowOf(FieldsOf(Current, p, Times(sp.events))) = RowOf(PlainFields(p)) \cup rest
  BY <1>2, RowOfParts
<1>7. RowOf(FieldsOf(Current, q, Times(sp.events))) = RowOf(PlainFields(q)) \cup rest
  BY <1>2, RowOfParts
<1> HIDE DEF sp, rest
<1>8. RowOf(PlainFields(q)) = RowOf(PlainFields(p)) \cup RowOf(Plains(TailKeys, q))
  BY <1>4, PlainMerge
<1>9. RowOf(ToSet(fs \o TailFields)) = RowOf(ToSet(fs)) \cup RowOf(ToSet(TailFields))
  BY <1>1, <1>3, ListConcat, RowUnion
<1> QED  BY <1>1, <1>3, <1>5, <1>6, <1>7, <1>8, <1>9

\* The end of a span keeps the invariant: the pushed row is that of what was sent, the list is cut back.
LEMMA EndSpanStep == ASSUME Inv, EndSpan PROVE Inv'
<1>1. /\ level = "span" /\ level' = "scope" /\ PushRow(local.start, fs \o TailFields) /\ fs' = CutTo(common.scope)
      /\ Write(0, NoSpan) /\ common' = common /\ used' = used
  BY DEF EndSpan
<1>2. TypeInv /\ CommonInv /\ SpanInv /\ PushedInv
  BY DEF Inv
<1>3. /\ local = LocalOf(sent.span) /\ HasID(sent.span) /\ Len(pushed) < MaxSpans
      /\ Len(ScopeFields) <= Len(fs) /\ SubSeq(fs, 1, Len(ScopeFields)) = ScopeFields
  BY <1>1, <1>2 DEF SpanInv
<1>4. sent' \in Writing /\ sent'.resource = sent.resource /\ sent'.scope = sent.scope /\ sent'.span = NoSpan
  BY <1>1, <1>2, WriteFacts, NoSpanFacts DEF TypeInv
<1>5. ResourceFields' = ResourceFields /\ ScopeFields' = ScopeFields
  BY <1>4 DEF ResourceFields, ScopeFields
<1>6. fs' = ScopeFields
  BY <1>1, <1>2, <1>3 DEF CutTo, CommonInv
<1> DEFINE s == Current
           row == StoredRow(s)
           entry == [row |-> row, time |-> local.start, range |-> IndexRange(row), sent |-> s]
<1>7. s \in Sent /\ s.span = sent.span
  BY <1>2, CurrentTyped
<1>8. RowOf(ToSet(fs \o TailFields)) = row
  BY <1>1, PushedRow
<1>9. Text(row, <<Blank, "trace_id", Blank>>) = s.span.trace
  <2> DEFINE plain == PlainOf(s.span)
  <2>1. plain.trace_id = s.span.trace
    BY DEF PlainOf
  <2> HIDE DEF plain, s
  <2> QED  BY <1>7, <2>1, PlainTexts DEF StoredRow, plain
<1>10. \/ pushed' = pushed
       \/ HasTrace(s.span) /\ pushed' = Append(pushed, entry)
  <2>1. entry = [row |-> row, time |-> local.start, range |-> IndexRange(row),
                 sent |-> [resource |-> sent.resource, scope |-> sent.scope, span |-> sent.span]]
    BY DEF Current, With
  <2>2. \/ pushed' = pushed
        \/ /\ Text(row, <<Blank, "trace_id", Blank>>) # ""
           /\ pushed' = Append(pushed, [row |-> row, time |-> local.start, range |-> IndexRange(row),
                 sent |-> [resource |-> sent.resource, scope |-> sent.scope, span |-> sent.span]])
    <3> HIDE DEF row
    <3> QED  BY <1>1, <1>8, Zenon DEF PushRow
  <2> HIDE DEF entry, row, s
  <2> QED  BY <1>9, <2>1, <2>2 DEF HasTrace
<1>11. HasTrace(s.span) => PushedAsSent(entry)
  <2>1. local.start = s.span.start /\ HasID(s.span)
    BY <1>3, <1>7 DEF LocalOf
  <2> DEFINE start == local.start
             range == IndexRange(row)
  <2>2. entry.row = row /\ entry.time = start /\ entry.range = range /\ entry.sent = s
    OBVIOUS
  <2> HIDE DEF entry, row, s, start, range
  <2> QED  BY <1>7, <2>1, <2>2 DEF PushedAsSent, row, start, range
<1>12. IsList(pushed') /\ Len(pushed') \in 0..MaxSpans /\ PushedInv'
  <2>1. IsList(pushed) /\ Len(pushed) \in Nat /\ MaxSpans \in Nat
    BY <1>2, BoundsAssumption DEF TypeInv, IsList
  <2>2. CASE pushed' = pushed
    BY <1>2, <2>2 DEF TypeInv, PushedInv
  <2>3. CASE HasTrace(s.span) /\ pushed' = Append(pushed, entry)
    <3>1. PushedAsSent(entry)
      BY <1>11, <2>3
    <3> HIDE DEF entry
    <3>2. pushed' = pushed \o <<entry>> /\ IsList(<<entry>>) /\ Len(<<entry>>) = 1 /\ ToSet(<<entry>>) = {entry}
      BY <2>1, <2>3, ListAppend, ListOfFew
    <3>3. IsList(pushed') /\ ToSet(pushed') = ToSet(pushed) \cup {entry} /\ Len(pushed') = Len(pushed) + 1
      BY <2>1, <3>2, ListConcat
    <3>4. Len(pushed') \in 0..MaxSpans
      BY <1>3, <2>1, <3>3
    <3>5. \A x \in ToSet(pushed) : PushedAsSent(x)
      BY <1>2 DEF PushedInv, ToSet
    <3>6. \A x \in ToSet(pushed') : PushedAsSent(x)
      BY <3>1, <3>3, <3>5
    <3>7. \A j \in DOMAIN pushed' : pushed'[j] \in ToSet(pushed')
      BY DEF ToSet
    <3>8. PushedInv'
      BY <3>6, <3>7 DEF PushedInv, PushedAsSent
    <3> QED  BY <3>3, <3>4, <3>8
  <2> QED  BY <1>10, <2>2, <2>3
<1>13. TypeInv'
  <2>1. used \in 0..MaxFields /\ MaxFields \in Nat
    BY <1>2, BoundsAssumption DEF TypeInv
  <2>2. Len(sent'.span.events) <= used' /\ Len(sent'.span.links) <= used'
    BY <1>1, <1>4, <2>1, NoSpanFacts
  <2> QED  BY <1>1, <1>2, <1>4, <1>12, <2>2 DEF TypeInv
<1>14. CommonInv'
  BY <1>1, <1>2, <1>5, <1>6 DEF CommonInv
<1>15. SpanInv'
  BY <1>1 DEF SpanInv
<1> QED  BY <1>12, <1>13, <1>14, <1>15 DEF Inv

\* A pair is a sequence of two.
LEMMA PairOfTwo == ASSUME NEW S, NEW x \in S, NEW y \in S PROVE <<x, y>> \in Seq(S)
  OBVIOUS

\* Attributes of resources and scopes have their type.
LEMMA OwnAttributeTyped == ASSUME TypeInv PROVE OwnAttribute \in Seq(Leaf)
<1>1. Len(pushed) \in 0..(W - 1)
  BY BoundsAssumption DEF TypeInv
<1>2. Dec(Len(pushed)) \in Strings
  BY <1>1, DecimalAssumption DEF Dec
<1>3. "" \in Strings /\ "b" \in Strings /\ "c" \in Strings /\ "d" \in Strings
  BY ClientAssumption
<1> DEFINE a == [path |-> <<"b", "c">>, val |-> Dec(Len(pushed))]
           b == [path |-> <<"b", "d">>, val |-> ""]
<1>4. a \in Leaf
  <2>1. <<"b", "c">> \in Seq(Strings)
    BY <1>3, PairOfTwo
  <2> DEFINE path == <<"b", "c">>
             val == Dec(Len(pushed))
  <2>2. path \in Seq(Strings) /\ val \in Strings
    BY <1>2, <2>1
  <2> HIDE DEF path, val
  <2>3. [path |-> path, val |-> val] \in Leaf
    BY <2>2 DEF Leaf
  <2> QED  BY <2>3 DEF path, val
<1>5. b \in Leaf
  <2>1. <<"b", "d">> \in Seq(Strings)
    BY <1>3, PairOfTwo
  <2> DEFINE path == <<"b", "d">>
             val == ""
  <2>2. path \in Seq(Strings) /\ val \in Strings
    BY <1>3, <2>1
  <2> HIDE DEF path, val
  <2>3. [path |-> path, val |-> val] \in Leaf
    BY <2>2 DEF Leaf
  <2> QED  BY <2>3 DEF path, val
<1>6. OwnAttribute = <<a, b>>
  BY DEF OwnAttribute
<1> HIDE DEF a, b
<1> QED  BY <1>4, <1>5, <1>6

\* Steps outside a span.
LEMMA DecodeResourceStep == ASSUME Inv, DecodeResource PROVE Inv'
<1>1. TypeInv /\ PushedInv /\ OwnAttribute \in Seq(Leaf)
  BY OwnAttributeTyped DEF Inv
<1>2. /\ fs' = AttributeFields(OwnAttribute, "resource_attr:", Blank) /\ sent' = [sent EXCEPT !.resource = OwnAttribute]
      /\ level' = "resource" /\ common' = [common EXCEPT !.resource = Len(fs')] /\ used' = used /\ pushed' = pushed
  BY DEF DecodeResource
<1>3. sent' \in Writing /\ sent'.resource = OwnAttribute /\ sent'.span = sent.span
  BY <1>1, <1>2 DEF TypeInv, Writing
<1>4. fs' = ResourceFields'
  BY <1>2, <1>3 DEF ResourceFields
<1>5. TypeInv'
  BY <1>1, <1>2, <1>3 DEF TypeInv
<1>6. CommonInv'
  BY <1>2, <1>4 DEF CommonInv
<1>7. SpanInv'
  BY <1>2 DEF SpanInv
<1>8. PushedInv'
  BY <1>1, <1>2 DEF PushedInv
<1> QED  BY <1>5, <1>6, <1>7, <1>8 DEF Inv

\* A scope is put behind the fields of its resource,
LEMMA DecodeScopeSpansStep == ASSUME Inv, DecodeScopeSpans PROVE Inv'
<1>1. TypeInv /\ CommonInv /\ PushedInv /\ OwnAttribute \in Seq(Leaf)
  BY OwnAttributeTyped DEF Inv
<1>2. /\ level = "resource"
      /\ fs' = fs \o AttributeFields(OwnAttribute, "scope_attr:", Blank) /\ sent' = [sent EXCEPT !.scope = OwnAttribute]
      /\ level' = "scope" /\ common' = [common EXCEPT !.scope = Len(fs')] /\ used' = used /\ pushed' = pushed
  BY DEF DecodeScopeSpans
<1>3. sent' \in Writing /\ sent'.resource = sent.resource /\ sent'.scope = OwnAttribute /\ sent'.span = sent.span
  BY <1>1, <1>2 DEF TypeInv, Writing
<1>4. ResourceFields' = ResourceFields /\ fs' = ScopeFields'
  BY <1>1, <1>2, <1>3 DEF ResourceFields, ScopeFields, CommonInv
<1>5. TypeInv'
  BY <1>1, <1>2, <1>3 DEF TypeInv
<1>6. CommonInv'
  BY <1>1, <1>2, <1>4 DEF CommonInv
<1>7. SpanInv'
  BY <1>2 DEF SpanInv
<1>8. PushedInv'
  BY <1>1, <1>2 DEF PushedInv
<1> QED  BY <1>5, <1>6, <1>7, <1>8 DEF Inv

\* and cut off again when it ends.
LEMMA EndScopeSpansStep == ASSUME Inv, EndScopeSpans PROVE Inv'
<1>1. TypeInv /\ CommonInv /\ PushedInv
  BY DEF Inv
<1>2. level = "scope" /\ fs' = CutTo(common.resource) /\ level' = "resource" /\ common' = common /\ sent' = sent /\ used' = used /\ pushed' = pushed
  BY DEF EndScopeSpans
<1>3. fs' = ResourceFields
  BY <1>1, <1>2, CommonFields DEF CutTo, CommonInv
<1>4. ResourceFields' = ResourceFields
  BY <1>2 DEF ResourceFields
<1>5. TypeInv' /\ PushedInv'
  BY <1>1, <1>2 DEF TypeInv, PushedInv
<1>6. CommonInv'
  BY <1>1, <1>2, <1>3, <1>4 DEF CommonInv
<1>7. SpanInv'
  BY <1>2 DEF SpanInv
<1> QED  BY <1>5, <1>6, <1>7 DEF Inv

\* Outside of a resource nothing is decoded.
LEMMA OutsideStep ==
  ASSUME Inv, level' \in {"request", "answered", "refused"}, UNCHANGED <<common, sent, used, pushed>>
  PROVE  Inv'
<1>1. TypeInv /\ CommonInv /\ PushedInv
  BY DEF Inv
<1>2. TypeInv' /\ PushedInv'
  BY <1>1 DEF TypeInv, PushedInv
<1>3. CommonInv'
  BY DEF CommonInv
<1>4. SpanInv'
  BY DEF SpanInv
<1> QED  BY <1>2, <1>3, <1>4 DEF Inv

\* A stuttering step keeps the invariant.
LEMMA StutterStep == ASSUME Inv, UNCHANGED decodeVars PROVE Inv'
<1>1. TypeInv /\ CommonInv /\ SpanInv /\ PushedInv
  BY DEF Inv
<1>2. TypeInv' /\ PushedInv'
  BY <1>1 DEF TypeInv, PushedInv, decodeVars
<1>3. ResourceFields' = ResourceFields /\ ScopeFields' = ScopeFields /\ Current' = Current
  BY DEF ResourceFields, ScopeFields, Current, With, decodeVars
<1>4. CommonInv'
  BY <1>1, <1>3 DEF CommonInv, decodeVars
<1>5. RowOf(FieldsSoFar(Current))' = RowOf(FieldsSoFar(Current))
  BY <1>3 DEF RowOf, FieldsSoFar
<1>6. SpanInv'
  BY <1>1, <1>3, <1>5 DEF SpanInv, decodeVars
<1> QED  BY <1>2, <1>4, <1>6 DEF Inv

\* The invariant holds initially,
LEMMA InvInit == ASSUME DecodeInit PROVE Inv
<1>1. level = "request" /\ sent = [resource |-> <<>>, scope |-> <<>>, span |-> NoSpan, last |-> 0] /\ used = 0 /\ pushed = <<>>
  BY DEF DecodeInit
<1>2. TypeInv
  <2>1. sent \in Writing /\ sent.span = NoSpan
    BY <1>1, NoSpanFacts DEF Writing
  <2>2. IsList(pushed) /\ Len(pushed) = 0
    BY <1>1, ListOfFew
  <2> QED  BY <1>1, <2>1, <2>2, NoSpanFacts, BoundsAssumption DEF TypeInv
<1>3. CommonInv /\ SpanInv /\ PushedInv
  BY <1>1 DEF CommonInv, SpanInv, PushedInv
<1> QED  BY <1>2, <1>3 DEF Inv

\* and every step keeps it.
LEMMA InvStep == ASSUME Inv, [DecodeNext]_decodeVars PROVE Inv'
<1>1. ASSUME EndResourceSpans \/ EndRequest \/ Malformed PROVE Inv'
  BY <1>1, OutsideStep DEF EndResourceSpans, EndRequest, Malformed
<1> QED
  BY <1>1, DecodeResourceStep, DecodeScopeSpansStep, BeginSpanStep, DecodeParentStep, DecodeNameAndKindStep, DecodeTimesStep,
     DecodeAttributeStep, DecodeEventStep, DecodeLinkStep, DecodeStatusStep, EndSpanStep, EndScopeSpansStep, StutterStep
     DEF DecodeNext

(***************************************************************************)
(* A span is pushed with its own fields only: the invariant above.         *)
(***************************************************************************)
THEOREM DecodeInvariant == DecodeSpec => []Inv
  BY InvInit, InvStep, PTL DEF DecodeSpec

(***************************************************************************)
(* Every span is read back as it was sent (rowsToResourceSpans of the      *)
(* Tempo API), whatever its neighbours in the request were.                *)
(***************************************************************************)
THEOREM SpansAreReadBack == DecodeSpec => []ReadBackAsSent
<1>1. ASSUME Inv PROVE ReadBackAsSent
  <2>1. ASSUME NEW j \in DOMAIN pushed, EveryEventHasAField(pushed[j].sent.span)
        PROVE  RowToSpan(pushed[j].row) = Meant(pushed[j].sent)
    <3>1. pushed[j].sent \in Sent /\ pushed[j].row = StoredRow(pushed[j].sent)
      BY <1>1 DEF Inv, PushedInv, PushedAsSent
    <3> QED  BY <2>1, <3>1, StoredReadBack
  <2> QED  BY <2>1 DEF ReadBackAsSent
<1> QED  BY <1>1, DecodeInvariant, PTL

(***************************************************************************)
(* A span is shown and found alike whether it was sent in protobuf or in   *)
(* JSON.                                                                   *)
(***************************************************************************)
THEOREM PathsAgree == DecodeSpec => []BothPathsAgree
<1>1. ASSUME Inv PROVE BothPathsAgree
  <2>1. ASSUME NEW j \in DOMAIN pushed, EveryEventHasAField(pushed[j].sent.span)
        PROVE  LET entry == pushed[j]
                   json == RowOf(PushFieldsFromSpan(entry.sent)) IN
               /\ RowToSpan(json) = RowToSpan(entry.row)
               /\ Timed(entry.sent.span) => FieldsToSpan(json) = FieldsToSpan(entry.row)
               /\ Timed(entry.sent.span) /\ entry.sent.span.start <= entry.sent.span.end =>
                     /\ IndexRange(json) = entry.range
                     /\ {entry.time, JSONTime(entry.sent)} \subseteq entry.range[1]..entry.range[2]
    <3> DEFINE entry == pushed[j]
               s == entry.sent
               from == s.span.start
               to == s.span.end
    <3>1. s \in Sent /\ entry.row = StoredRow(s) /\ entry.time = from /\ entry.range = IndexRange(entry.row)
      BY <1>1 DEF Inv, PushedInv, PushedAsSent
    <3>2. RowOf(PushFieldsFromSpan(s)) = JSONRow(s)
      BY JSONRowPushed
    <3>3. EveryEventHasAField(s.span)
      BY <2>1
    <3>4. from \in Nat /\ to \in Nat /\ JSONTime(s) = to
      <4>1. s.span \in Span
        BY <3>1, PartsTyped
      <4> QED  BY <4>1, SpanTyped DEF JSONTime
    <3> HIDE DEF entry, s
    <3>5. RowToSpan(JSONRow(s)) = RowToSpan(StoredRow(s)) /\ (Timed(s.span) => FieldsToSpan(JSONRow(s)) = FieldsToSpan(StoredRow(s)))
      BY <3>1, <3>3, BothAgree
    <3>6. Timed(s.span) => IndexRange(StoredRow(s)) = <<from, to>> /\ IndexRange(JSONRow(s)) = <<from, to>>
      BY <3>1, TimesBack
    <3>7. Timed(s.span) /\ from <= to =>
            IndexRange(JSONRow(s)) = entry.range /\ {entry.time, JSONTime(s)} \subseteq entry.range[1]..entry.range[2]
      <4>1. ASSUME Timed(s.span), from <= to PROVE {entry.time, JSONTime(s)} \subseteq entry.range[1]..entry.range[2]
        <5>1. entry.range = <<from, to>>
          BY <3>1, <3>6, <4>1
        <5> HIDE DEF from, to
        <5> QED  BY <3>1, <3>4, <4>1, <5>1
      <4> QED  BY <3>1, <3>6, <4>1
    <3> QED  BY <3>1, <3>2, <3>5, <3>7 DEF entry, s
  <2> QED  BY <2>1 DEF BothPathsAgree
<1> QED  BY <1>1, DecodeInvariant, PTL

(***************************************************************************)
(* The Jaeger API shows every span with both times in order, with one      *)
(* reference to its parent and one for every other span that it links to.  *)
(***************************************************************************)
THEOREM AllAreShown == DecodeSpec => []JaegerShowsAll
<1>1. ASSUME Inv PROVE JaegerShowsAll
  <2>1. ASSUME NEW j \in DOMAIN pushed
        PROVE  LET sp == pushed[j].sent.span
                   shown == FieldsToSpan(pushed[j].row)
                   Named(r) == <<shown.references[r][1], shown.references[r][2]>>
                   parent == IF sp.parent = "" THEN {} ELSE {<<sp.trace, sp.parent>>}
                   linked == {<<sp.links[l].trace, sp.links[l].span>> : l \in DOMAIN sp.links} IN
               Timed(sp) /\ sp.start <= sp.end =>
                   /\ shown # Nothing
                   /\ {Named(r) : r \in DOMAIN shown.references} = parent \cup linked
                   /\ \A r, o \in DOMAIN shown.references : Named(r) \in parent /\ Named(o) \in parent => r = o
    <3> DEFINE s == pushed[j].sent
    <3>1. s \in Sent /\ pushed[j].row = StoredRow(s) /\ s.span.trace # "" /\ s.span.id # ""
      BY <1>1 DEF Inv, PushedInv, PushedAsSent, HasTrace, HasID
    <3> HIDE DEF s
    <3>2. ASSUME Timed(s.span), s.span.start <= s.span.end
          PROVE  LET sp == s.span
                     shown == FieldsToSpan(StoredRow(s))
                     Named(r) == <<shown.references[r][1], shown.references[r][2]>>
                     linked == {<<sp.links[l].trace, sp.links[l].span>> : l \in DOMAIN sp.links} IN
                 /\ shown # Nothing
                 /\ {Named(r) : r \in DOMAIN shown.references} = ParentOf(sp) \cup linked
                 /\ \A r, o \in DOMAIN shown.references : Named(r) \in ParentOf(sp) /\ Named(o) \in ParentOf(sp) => r = o
      BY <3>1, <3>2, JaegerShows
    <3> QED  BY <3>1, <3>2, Zenon DEF ParentOf, s
  <2> QED  BY <2>1 DEF JaegerShowsAll
<1> QED  BY <1>1, DecodeInvariant, PTL
=============================================================================
