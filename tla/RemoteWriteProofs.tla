-------------------------- MODULE RemoteWriteProofs --------------------------
(***************************************************************************)
(* Theorems about RemoteWrite, for any rows, buffers, workers, block and   *)
(* queue sizes, and any number of restarts and crashes.                    *)
(***************************************************************************)
EXTENDS RemoteWrite, SequenceTheorems, TLAPS

Stages == {"running", "flushing", "draining", "stopping", "closed"}

QueueTypeOK ==
    /\ mem \in Seq(Block)
    /\ log \in Seq(Block)
    /\ rd \in 0..Len(log)
    /\ meta.w \in 0..Len(log)
    /\ meta.r \in 0..meta.w
    /\ evicted \subseteq Rows

RowsTypeOK ==
    /\ buf \in [Pls -> SUBSET Rows]
    /\ pc \in [Workers -> {"idle", "sending", "exited"}]
    /\ held \in [Workers -> SUBSET Rows]
    /\ ghosts \subseteq Block
    /\ stage \in Stages
    /\ accepted \subseteq Rows
    /\ delivered \subseteq Rows
    /\ rejected \subseteq Rows
    /\ twice \subseteq Rows

CountsTypeOK == retried \in BOOLEAN /\ restarts \in Nat /\ crashes \in Nat

(* A worker has a block just as long as it sends it.                       *)
HeldInv == \A w \in Workers : pc[w] = "sending" <=> held[w] # {}

(* What each stage of a graceful stop has already emptied.                 *)
StageInv ==
    /\ stage \in {"draining", "stopping", "closed"} => AllFlushed
    /\ stage = "closed" =>
          /\ \A w \in Workers : pc[w] = "exited"
          /\ mem = <<>>
          /\ meta = [r |-> rd, w |-> Len(log)]

Typed == QueueTypeOK /\ RowsTypeOK /\ CountsTypeOK /\ HeldInv /\ StageInv

(* Without a crash an accepted row has been settled or is where a later    *)
(* step finds it.                                                          *)
RowsOf(q) == UNION {q[i] : i \in 1..Len(q)}
KeptInv ==
    crashes = 0 =>
        \A r \in accepted :
            \/ Settled(r)
            \/ r \in RowsOf(Queue)
            \/ \E p \in Pls : r \in buf[p]
            \/ \E w \in Workers : r \in held[w]

(* Until a block is sent again, no row is in two places, and none that was *)
(* delivered is in any.                                                    *)
Disjoint(q) == \A i, j \in 1..Len(q) : i # j => q[i] \cap q[j] = {}
Separate ==
    /\ delivered \cup RowsOf(Queue) \subseteq accepted
    /\ Disjoint(Queue)
    /\ delivered \cap RowsOf(Queue) = {}
    /\ \A p \in Pls :
          /\ buf[p] \subseteq accepted
          /\ buf[p] \cap (delivered \cup RowsOf(Queue)) = {}
          /\ \A q \in Pls \ {p} : buf[p] \cap buf[q] = {}
          /\ \A w \in Workers : buf[p] \cap held[w] = {}
    /\ \A w \in Workers :
          /\ held[w] \subseteq accepted
          /\ held[w] \cap (delivered \cup RowsOf(Queue)) = {}
          /\ \A v \in Workers \ {w} : held[w] \cap held[v] = {}

OnceInv == ~ retried => ghosts = {} /\ twice = {} /\ Separate

-----------------------------------------------------------------------------
(* Sequences.                                                              *)

LEMMA SubSeqOfAppend ==
    ASSUME NEW S, NEW a \in Seq(S), NEW x \in S, NEW k \in 0..Len(a)
    PROVE  SubSeq(Append(a, x), k + 1, Len(a) + 1) = Append(SubSeq(a, k + 1, Len(a)), x)
<1> DEFINE s == SubSeq(Append(a, x), k + 1, Len(a) + 1)
           t == Append(SubSeq(a, k + 1, Len(a)), x)
<1>1. s \in Seq(S) /\ Len(s) = Len(a) + 1 - k /\ \A i \in 1..Len(s) : s[i] = Append(a, x)[k + i]
  OBVIOUS
<1>2. t \in Seq(S) /\ Len(t) = Len(a) + 1 - k
  OBVIOUS
<1>3. \A i \in 1..Len(s) : s[i] = t[i]
  BY <1>1, <1>2
<1> HIDE DEF s, t
<1>4. s = t
  BY <1>1, <1>2, <1>3, SeqEqual
<1> QED BY <1>4 DEF s, t

LEMMA SubSeqOfConcat ==
    ASSUME NEW S, NEW a \in Seq(S), NEW b \in Seq(S), NEW k \in 0..Len(a)
    PROVE  SubSeq(a, k + 1, Len(a)) \o b = SubSeq(a \o b, k + 1, Len(a) + Len(b))
<1> DEFINE s == SubSeq(a, k + 1, Len(a)) \o b
           t == SubSeq(a \o b, k + 1, Len(a) + Len(b))
<1>1. s \in Seq(S) /\ Len(s) = Len(a) - k + Len(b)
  OBVIOUS
<1>2. t \in Seq(S) /\ Len(t) = Len(a) - k + Len(b) /\ \A i \in 1..Len(t) : t[i] = (a \o b)[k + i]
  OBVIOUS
<1>3. \A i \in 1..Len(s) : s[i] = t[i]
  BY <1>1, <1>2
<1> HIDE DEF s, t
<1>4. s = t
  BY <1>1, <1>2, <1>3, SeqEqual
<1> QED BY <1>4 DEF s, t

LEMMA ConcatOfAppend ==
    ASSUME NEW S, NEW a \in Seq(S), NEW b \in Seq(S), NEW x \in S
    PROVE  a \o Append(b, x) = Append(a \o b, x)
OBVIOUS

LEMMA SubSeqOfRest ==
    ASSUME NEW S, NEW a \in Seq(S), NEW k \in 0..Len(a), NEW d \in 0..(Len(a) - k)
    PROVE  SubSeq(SubSeq(a, k + 1, Len(a)), d + 1, Len(a) - k) = SubSeq(a, k + d + 1, Len(a))
OBVIOUS

-----------------------------------------------------------------------------
(* The queue.                                                              *)

(* The blocks of the file and of memory, read or not.                      *)
Blocks == log \o mem

LEMMA QueueIs ==
    ASSUME QueueTypeOK
    PROVE  /\ Blocks \in Seq(Block) /\ Len(Blocks) = Len(log) + Len(mem)
           /\ rd \in 0..Len(Blocks)
           /\ Queue = SubSeq(Blocks, rd + 1, Len(Blocks))
           /\ Queue \in Seq(Block) /\ Len(Queue) = Len(Blocks) - rd
           /\ \A i \in 1..Len(Queue) : Queue[i] = Blocks[rd + i]
<1>1. Blocks \in Seq(Block) /\ Len(Blocks) = Len(log) + Len(mem) /\ rd \in 0..Len(Blocks)
  BY DEF QueueTypeOK, Blocks
<1>2. Queue = SubSeq(Blocks, rd + 1, Len(Blocks))
  BY <1>1, SubSeqOfConcat DEF Queue, File, Blocks, QueueTypeOK
<1> QED BY <1>1, <1>2

(* Trimming never goes past the last n blocks nor back.                    *)
LEMMA TrimBounds ==
    ASSUME QueueTypeOK, NEW n \in Nat, Len(log) <= n
    PROVE  /\ Trim(n) \in rd..n
           /\ \A m \in Nat : n = m + 1 /\ Len(log) <= m => Trim(n) <= m
<1>1. MaxFile \in Nat
  BY SizesAssumption
<1> QED BY <1>1 DEF Trim, QueueTypeOK

(* A block that is written is put at the end, whether memory takes it, or  *)
(* it goes to the file behind what memory had.                             *)
LEMMA WritePuts ==
    ASSUME QueueTypeOK, NEW b \in Block, WriteBlock(b)
    PROVE  QueueTypeOK' /\ Fifo!Put(b)
<1> DEFINE B == Append(Blocks, b)
<1>0. B \in Seq(Block) /\ Len(B) = Len(Blocks) + 1 /\ Append(mem, b) \in Seq(Block)
  BY QueueIs DEF QueueTypeOK
<1>1. CASE ToMemory(mem) /\ mem' = Append(mem, b) /\ UNCHANGED <<log, rd, meta, evicted>>
  <2>1. QueueTypeOK'
    BY <1>0, <1>1 DEF QueueTypeOK
  <2>2. Queue' = Append(Queue, b)
    <3>1. File \in Seq(Block) /\ mem \in Seq(Block)
      BY DEF File, QueueTypeOK
    <3>2. File' = File
      BY <1>1 DEF File
    <3> QED BY <1>1, <3>1, <3>2, ConcatOfAppend DEF Queue
  <2>3. Queue = SubSeq(Queue, 0 + 1, Len(Queue)) /\ Len(Queue) \in Nat
    BY QueueIs
  <2>4. evicted' = evicted \cup UNION {Queue[i] : i \in 1..0}
    BY <1>1
  <2>5. 0 \in 0..Len(Queue)
    BY <2>3
  <2> QED BY <2>1, <2>2, <2>3, <2>4, <2>5 DEF Fifo!Put, Fifo!LoseOldest
<1>2. CASE WriteFile(Spilled(b)) /\ mem' = LeftInMemory
  <2> DEFINE n == Len(log) + Len(Append(mem, b))
             d == Trim(n) - rd
  <2>1. n = Len(Blocks) + 1 /\ n \in Nat /\ Len(Blocks) \in Nat /\ Len(log) \in Nat /\ Len(log) < n
    BY QueueIs DEF QueueTypeOK
  <2>2. Trim(n) \in rd..Len(Blocks) /\ rd \in Nat
    <3>1. Len(log) <= Len(Blocks) /\ rd \in Nat
      BY QueueIs DEF QueueTypeOK
    <3>2. Trim(n) \in rd..n /\ Trim(n) <= Len(Blocks)
      BY <2>1, <3>1, TrimBounds
    <3> QED BY <2>1, <3>1, <3>2
  <2>3. log' = B /\ mem' = <<>> /\ rd' = Trim(n)
        /\ evicted' = evicted \cup UNION {log'[i] : i \in (rd + 1)..Trim(n)}
    <3>1. log \o Append(mem, b) = B
      BY ConcatOfAppend DEF QueueTypeOK, Blocks
    <3> QED BY <1>2, <3>1 DEF WriteFile, Spilled, LeftInMemory
  <2>4. meta'.w \in 0..Len(log') /\ meta'.r \in 0..meta'.w
    <3>1. CASE UNCHANGED meta
      BY <1>0, <2>1, <2>3, <3>1 DEF QueueTypeOK
    <3>2. ASSUME NEW i \in (Len(log) + 1)..n, meta' = [r |-> Trim(i), w |-> i]
          PROVE  meta'.w \in 0..Len(log') /\ meta'.r \in 0..meta'.w
      <4>1. i \in Nat /\ Len(log) <= i /\ i <= n
        BY <2>1
      <4>2. Trim(i) \in rd..i
        BY <4>1, TrimBounds
      <4> QED BY <1>0, <2>1, <2>2, <2>3, <3>2, <4>1, <4>2
    <3> QED BY <1>2, <3>1, <3>2 DEF WriteFile, Spilled
  <2>5. d \in 0..Len(Queue) /\ rd + d = Trim(n) /\ Len(Queue) = Len(Blocks) - rd
    <3>1. Len(Queue) = Len(Blocks) - rd
      BY QueueIs
    <3> QED BY <2>1, <2>2, <3>1
  <2>6. \A i \in (rd + 1)..Trim(n) : log'[i] = Queue[i - rd] /\ i - rd \in 1..Len(Queue)
    <3> TAKE i \in (rd + 1)..Trim(n)
    <3>1. i \in 1..Len(Blocks) /\ i - rd \in 1..Len(Queue) /\ rd + (i - rd) = i
      BY <2>2, <2>5
    <3>2. Blocks[i] = Queue[i - rd]
      BY <3>1, QueueIs
    <3>3. B[i] = Blocks[i]
      BY <3>1, QueueIs
    <3> QED BY <2>3, <3>1, <3>2, <3>3
  <2>7. evicted' = evicted \cup UNION {Queue[i] : i \in 1..d}
    <3>1. {log'[i] : i \in (rd + 1)..Trim(n)} \subseteq {Queue[i] : i \in 1..d}
      BY <2>2, <2>5, <2>6
    <3>2. \A i \in 1..d : rd + i \in (rd + 1)..Trim(n) /\ Queue[i] = log'[rd + i]
      BY <2>2, <2>5, <2>6
    <3>3. {Queue[i] : i \in 1..d} \subseteq {log'[i] : i \in (rd + 1)..Trim(n)}
      BY <3>2
    <3>4. {log'[i] : i \in (rd + 1)..Trim(n)} = {Queue[i] : i \in 1..d}
      BY <3>1, <3>3
    <3> QED BY <2>3, <3>4
  <2>8. Queue' = Append(SubSeq(Queue, d + 1, Len(Queue)), b)
    <3> DEFINE k == Trim(n)
    <3>1. Queue' = SubSeq(B, k + 1, Len(Blocks) + 1)
      <4>1. Queue' = SubSeq(B, k + 1, Len(B)) \o <<>>
        BY <2>3 DEF Queue, File
      <4>2. SubSeq(B, k + 1, Len(B)) \in Seq(Block)
        BY <1>0, <2>2
      <4> QED BY <1>0, <4>1, <4>2
    <3>2. k \in 0..Len(Blocks) /\ Blocks \in Seq(Block)
      BY <2>2, QueueIs
    <3> HIDE DEF k
    <3>4. Queue' = Append(SubSeq(Blocks, k + 1, Len(Blocks)), b)
      BY <3>1, <3>2, SubSeqOfAppend
    <3>3. SubSeq(Queue, d + 1, Len(Queue)) = SubSeq(Blocks, Trim(n) + 1, Len(Blocks))
      BY <2>5, SubSeqOfRest, QueueIs
    <3> QED BY <3>3, <3>4 DEF k
  <2>9. evicted' \subseteq Rows
    <3>1. \A i \in 1..d : Queue[i] \subseteq Rows
      BY <2>5, QueueIs DEF Block
    <3> QED BY <2>7, <3>1 DEF QueueTypeOK
  <2>10. QueueTypeOK'
    BY <1>0, <2>1, <2>2, <2>3, <2>4, <2>9 DEF QueueTypeOK
  <2> QED BY <2>5, <2>7, <2>8, <2>10 DEF Fifo!Put, Fifo!LoseOldest
<1> QED BY <1>1, <1>2 DEF WriteBlock

(* A worker gets the oldest block, from the file first.                    *)
LEMMA ReadGets ==
    ASSUME QueueTypeOK, NEW w \in Workers, MustReadBlock(w)
    PROVE  /\ QueueTypeOK'
           /\ Fifo!Get
           /\ held' = [held EXCEPT ![w] = Head(Queue)]
<1>1. File \in Seq(Block) /\ mem \in Seq(Block)
  BY DEF File, QueueTypeOK
<1>2. CASE NextFrom = "file"
  <2>1. File # <<>>
    BY <1>2 DEF NextFrom
  <2>2. rd < Len(log) /\ rd \in Nat /\ Len(log) \in Nat
    BY <2>1 DEF File, QueueTypeOK
  <2>3. Head(File) = log[rd + 1] /\ Tail(File) = SubSeq(log, rd + 1 + 1, Len(log))
    BY <2>2 DEF File, QueueTypeOK
  <2>4. /\ held' = [held EXCEPT ![w] = log[rd + 1]]
        /\ rd' = rd + 1 /\ mem' = mem /\ log' = log /\ evicted' = evicted
        /\ meta' = meta \/ meta' = [r |-> rd + 1, w |-> Len(log)]
    BY <1>2 DEF MustReadBlock, Advance, historyVars
  <2>5. File' = Tail(File)
    BY <2>3, <2>4 DEF File
  <2>6. Queue # <<>> /\ Head(Queue) = Head(File) /\ Tail(Queue) = Tail(File) \o mem
    BY <1>1, <2>1 DEF Queue
  <2>7. Queue' = Tail(Queue)
    BY <2>4, <2>5, <2>6 DEF Queue
  <2>8. QueueTypeOK'
    BY <2>2, <2>4 DEF QueueTypeOK
  <2> QED BY <2>3, <2>4, <2>6, <2>7, <2>8 DEF Fifo!Get
<1>3. CASE NextFrom = "memory"
  <2>1. File = <<>> /\ mem # <<>>
    BY <1>3 DEF NextFrom
  <2>2. /\ held' = [held EXCEPT ![w] = Head(mem)]
        /\ mem' = Tail(mem) /\ log' = log /\ rd' = rd /\ meta' = meta /\ evicted' = evicted
    BY <1>3 DEF MustReadBlock, historyVars
  <2>3. Queue = mem /\ Queue' = Tail(mem)
    <3>1. File' = <<>>
      BY <2>1, <2>2 DEF File
    <3> QED BY <1>1, <2>1, <2>2, <3>1 DEF Queue
  <2>4. QueueTypeOK'
    BY <2>1, <2>2 DEF QueueTypeOK
  <2> QED BY <2>1, <2>2, <2>3, <2>4 DEF Fifo!Get
<1> QED BY <1>2, <1>3 DEF MustReadBlock

(* Closing writes memory behind the file; the oldest blocks may go.        *)
LEMMA CloseDiscards ==
    ASSUME QueueTypeOK, MustClose
    PROVE  QueueTypeOK' /\ Fifo!Discard
<1> DEFINE n == Len(log) + Len(mem)
           k == Trim(n)
           d == k - rd
<1>1. n = Len(Blocks) /\ n \in Nat /\ Len(log) \in Nat /\ Len(log) <= n /\ rd \in Nat
  BY QueueIs DEF QueueTypeOK
<1>2. k \in rd..n
  BY <1>1, TrimBounds
<1>3. log' = Blocks /\ mem' = <<>> /\ rd' = k /\ meta' = [r |-> k, w |-> n]
      /\ evicted' = evicted \cup UNION {Blocks[i] : i \in (rd + 1)..k}
  BY DEF MustClose, Blocks
<1>4. d \in 0..Len(Queue) /\ rd + d = k /\ Len(Queue) = Len(Blocks) - rd
  <2>1. Len(Queue) = Len(Blocks) - rd
    BY QueueIs
  <2> QED BY <1>1, <1>2, <2>1
<1>5. {Blocks[i] : i \in (rd + 1)..k} = {Queue[i] : i \in 1..d}
  <2>1. \A i \in (rd + 1)..k : i - rd \in 1..d /\ i - rd \in 1..Len(Queue) /\ rd + (i - rd) = i
    BY <1>1, <1>2, <1>4
  <2>2. \A i \in (rd + 1)..k : i - rd \in 1..d /\ Queue[i - rd] = Blocks[i]
    BY <2>1, QueueIs
  <2>3. \A i \in 1..d : rd + i \in (rd + 1)..k /\ i \in 1..Len(Queue)
    BY <1>1, <1>2, <1>4
  <2>4. \A i \in 1..d : rd + i \in (rd + 1)..k /\ Queue[i] = Blocks[rd + i]
    BY <2>3, QueueIs
  <2> HIDE DEF d, k
  <2> QED BY <2>2, <2>4
<1>6. Queue' = SubSeq(Queue, d + 1, Len(Queue))
  <2>1. Queue' = SubSeq(Blocks, k + 1, Len(Blocks)) \o <<>>
    BY <1>3 DEF Queue, File
  <2>2. SubSeq(Blocks, k + 1, Len(Blocks)) \in Seq(Block) /\ Blocks \in Seq(Block)
    BY <1>1, <1>2, QueueIs
  <2>3. SubSeq(Queue, d + 1, Len(Queue)) = SubSeq(Blocks, k + 1, Len(Blocks))
    BY <1>4, SubSeqOfRest, QueueIs
  <2> DEFINE rest == SubSeq(Blocks, k + 1, Len(Blocks))
  <2>4. rest \o <<>> = rest
    <3> HIDE DEF k
    <3> QED BY <2>2, ConcatEmptySeq
  <2> QED BY <2>1, <2>3, <2>4
<1>7. evicted' \subseteq Rows
  <2>1. \A i \in 1..d : Queue[i] \subseteq Rows
    BY <1>4, QueueIs DEF Block
  <2> QED BY <1>3, <1>5, <2>1 DEF QueueTypeOK
<1>8. QueueTypeOK'
  <2>1. log' \in Seq(Block) /\ mem' \in Seq(Block) /\ Len(log') = n
    BY <1>1, <1>3, QueueIs
  <2> HIDE DEF k, n
  <2> QED BY <1>1, <1>2, <1>3, <1>7, <2>1 DEF QueueTypeOK
<1>9. evicted' = evicted \cup UNION {Queue[i] : i \in 1..d}
  BY <1>3, <1>5
<1> QED BY <1>4, <1>6, <1>8, <1>9 DEF Fifo!Discard, Fifo!LoseOldest

(* A new process finds what the metainfo says, all of it after MustClose.  *)
LEMMA ReopenType ==
    ASSUME QueueTypeOK, Reopen
    PROVE  /\ QueueTypeOK'
           /\ mem = <<>> /\ meta = [r |-> rd, w |-> Len(log)] => Queue' = Queue
<1>1. /\ log' = SubSeq(log, 1, meta.w) /\ rd' = meta.r /\ mem' = <<>>
      /\ meta' = meta /\ evicted' = evicted
  BY DEF Reopen, historyVars
<1>2. log' \in Seq(Block) /\ Len(log') = meta.w
  BY <1>1 DEF QueueTypeOK
<1>3. QueueTypeOK'
  BY <1>1, <1>2 DEF QueueTypeOK
<1>4. ASSUME mem = <<>>, meta = [r |-> rd, w |-> Len(log)] PROVE Queue' = Queue
  <2>1. log' = log /\ rd' = rd
    BY <1>1, <1>4 DEF QueueTypeOK
  <2> QED BY <1>1, <1>4, <2>1 DEF Queue, File
<1> QED BY <1>3, <1>4

-----------------------------------------------------------------------------
(* What the queue's actions do to its rows.                                *)

LEMMA PutRows ==
    ASSUME QueueTypeOK, NEW b \in Block, Fifo!Put(b)
    PROVE  /\ RowsOf(Queue') \subseteq RowsOf(Queue) \cup b
           /\ RowsOf(Queue) \cup b \subseteq RowsOf(Queue') \cup evicted'
           /\ evicted \subseteq evicted'
           /\ Disjoint(Queue) /\ RowsOf(Queue) \cap b = {} => Disjoint(Queue')
<1>1. PICK d \in 0..Len(Queue) : 
          /\ evicted' = evicted \cup UNION {Queue[i] : i \in 1..d}
          /\ Queue' = Append(SubSeq(Queue, d + 1, Len(Queue)), b)
  BY DEF Fifo!Put, Fifo!LoseOldest
<1>2. Queue \in Seq(Block)
  BY QueueIs
<1> DEFINE q == Queue
           m == Len(q) - d
<1>3. /\ Len(q) \in Nat /\ m \in Nat /\ Len(Queue') = m + 1
      /\ \A i \in 1..m : Queue'[i] = q[d + i] /\ d + i \in 1..Len(q)
      /\ Queue'[m + 1] = b
  BY <1>1, <1>2
<1>4. \A i \in 1..Len(q) : i \in 1..d \/ (i - d \in 1..m /\ Queue'[i - d] = q[i])
  BY <1>3
<1> HIDE DEF q, m
<1>5. 1..(m + 1) = 1..m \cup {m + 1} /\ m + 1 \notin 1..m
  BY <1>3
<1>6. RowsOf(Queue') \subseteq RowsOf(q) \cup b
  BY <1>3, <1>5 DEF RowsOf
<1>7. \A i \in 1..Len(q) : q[i] \subseteq RowsOf(Queue') \cup evicted'
  <2> TAKE i \in 1..Len(q)
  <2>1. CASE i \in 1..d
    BY <1>1, <2>1 DEF q
  <2>2. CASE i - d \in 1..m /\ Queue'[i - d] = q[i]
    <3>1. i - d \in 1..Len(Queue')
      BY <1>3, <1>5, <2>2
    <3> QED BY <2>2, <3>1 DEF RowsOf
  <2> QED BY <1>4, <2>1, <2>2
<1>8. b \subseteq RowsOf(Queue')
  <2>1. m + 1 \in 1..Len(Queue')
    BY <1>3, <1>5
  <2> QED BY <1>3, <2>1 DEF RowsOf
<1>9. RowsOf(q) \subseteq RowsOf(Queue') \cup evicted'
  BY <1>7 DEF RowsOf
<1>10. ASSUME Disjoint(q), RowsOf(q) \cap b = {}, NEW i \in 1..(m + 1), NEW j \in 1..(m + 1), i # j
       PROVE  Queue'[i] \cap Queue'[j] = {}
  <2>1. \A x \in 1..m : Queue'[x] \subseteq RowsOf(q)
    BY <1>3 DEF RowsOf
  <2>2. CASE i \in 1..m /\ j \in 1..m
    <3>1. d + i # d + j
      BY <1>10, <2>2
    <3> QED BY <1>3, <1>10, <2>2, <3>1 DEF Disjoint
  <2>3. CASE i = m + 1 \/ j = m + 1
    BY <1>3, <1>5, <1>10, <2>1, <2>3
  <2> QED BY <1>5, <2>2, <2>3
<1> QED BY <1>1, <1>3, <1>6, <1>8, <1>9, <1>10 DEF q, Disjoint

LEMMA GetRows ==
    ASSUME QueueTypeOK, Fifo!Get
    PROVE  /\ Head(Queue) \in Block
           /\ RowsOf(Queue) = Head(Queue) \cup RowsOf(Queue')
           /\ Disjoint(Queue) => Disjoint(Queue') /\ Head(Queue) \cap RowsOf(Queue') = {}
<1> DEFINE q == Queue
           m == Len(q) - 1
<1>1. q \in Seq(Block) /\ q # <<>> /\ Queue' = Tail(q)
  BY QueueIs DEF Fifo!Get
<1>2. /\ m \in Nat /\ Len(q) = m + 1 /\ Head(q) \in Block /\ Head(q) = q[1]
      /\ Len(Queue') = m /\ \A i \in 1..m : Queue'[i] = q[i + 1]
  BY <1>1
<1> HIDE DEF q, m
<1>3. /\ \A i \in 1..m : i + 1 \in 1..Len(q) /\ i + 1 # 1
      /\ 1 \in 1..Len(q)
      /\ \A i \in 1..Len(q) : i = 1 \/ (i - 1 \in 1..m /\ q[i] = Queue'[i - 1])
      /\ \A i, j \in 1..m : i # j => i + 1 # j + 1
  BY <1>2
<1>4. RowsOf(q) = Head(q) \cup RowsOf(Queue')
  <2>1. \A i \in 1..m : Queue'[i] \subseteq RowsOf(q)
    BY <1>2, <1>3 DEF RowsOf
  <2>2. \A i \in 1..Len(q) : q[i] \subseteq Head(q) \cup RowsOf(Queue')
    BY <1>2, <1>3 DEF RowsOf
  <2>3. Head(q) \subseteq RowsOf(q)
    BY <1>2, <1>3 DEF RowsOf
  <2> QED BY <1>2, <2>1, <2>2, <2>3 DEF RowsOf
<1>5. ASSUME Disjoint(q)
      PROVE  Disjoint(Queue') /\ Head(q) \cap RowsOf(Queue') = {}
  <2>1. \A i \in 1..m : Head(q) \cap Queue'[i] = {}
    BY <1>2, <1>3, <1>5 DEF Disjoint
  <2>2. Disjoint(Queue')
    BY <1>2, <1>3, <1>5 DEF Disjoint
  <2> QED BY <1>2, <2>1, <2>2 DEF RowsOf
<1> QED BY <1>2, <1>4, <1>5 DEF q

LEMMA DiscardRows ==
    ASSUME QueueTypeOK, Fifo!Discard
    PROVE  /\ RowsOf(Queue') \subseteq RowsOf(Queue)
           /\ RowsOf(Queue) \subseteq RowsOf(Queue') \cup evicted'
           /\ evicted \subseteq evicted'
           /\ Disjoint(Queue) => Disjoint(Queue')
<1>1. PICK d \in 0..Len(Queue) :
          /\ evicted' = evicted \cup UNION {Queue[i] : i \in 1..d}
          /\ Queue' = SubSeq(Queue, d + 1, Len(Queue))
  BY DEF Fifo!Discard, Fifo!LoseOldest
<1>2. Queue \in Seq(Block)
  BY QueueIs
<1> DEFINE q == Queue
           m == Len(q) - d
<1>3. /\ Len(q) \in Nat /\ m \in Nat /\ Len(Queue') = m
      /\ \A i \in 1..m : Queue'[i] = q[d + i] /\ d + i \in 1..Len(q)
  BY <1>1, <1>2
<1>4. /\ \A i \in 1..Len(q) : i \in 1..d \/ (i - d \in 1..m /\ Queue'[i - d] = q[i])
      /\ \A i, j \in 1..m : i # j => d + i # d + j
  BY <1>3
<1> HIDE DEF q, m
<1>5. \A i \in 1..m : Queue'[i] \subseteq RowsOf(q)
  BY <1>3 DEF RowsOf
<1>6. \A i \in 1..Len(q) : q[i] \subseteq RowsOf(Queue') \cup evicted'
  <2> TAKE i \in 1..Len(q)
  <2>1. CASE i \in 1..d
    BY <1>1, <2>1 DEF q
  <2>2. CASE i - d \in 1..m /\ Queue'[i - d] = q[i]
    BY <1>3, <2>2 DEF RowsOf
  <2> QED BY <1>4, <2>1, <2>2
<1>7. Disjoint(q) => Disjoint(Queue')
  BY <1>3, <1>4 DEF Disjoint
<1>8. RowsOf(q) \subseteq RowsOf(Queue') \cup evicted' /\ RowsOf(Queue') \subseteq RowsOf(q)
  BY <1>3, <1>5, <1>6 DEF RowsOf
<1> QED BY <1>1, <1>7, <1>8 DEF q

-----------------------------------------------------------------------------
(* Types, hands and stages.                                                *)

LEMMA TypedInit == Init => Typed
<1> SUFFICES ASSUME Init PROVE Typed
  OBVIOUS
<1>1. QueueTypeOK
  BY DEF Init, QueueTypeOK
<1>3. RowsTypeOK
  BY DEF Init, RowsTypeOK, Stages
<1>4. CountsTypeOK
  BY DEF Init, CountsTypeOK
<1>2. HeldInv /\ StageInv
  BY DEF Init, HeldInv, StageInv
<1> QED BY <1>1, <1>2, <1>3, <1>4 DEF Typed

(* A full or old buffer is one block, and so is what a worker holds.       *)
LEMMA BlocksAre ==
    ASSUME Typed
    PROVE  /\ \A p \in Pls, r \in Rows : buf[p] \cup {r} \in Block
           /\ \A p \in Pls : buf[p] # {} => buf[p] \in Block
           /\ \A w \in Workers : pc[w] = "sending" => held[w] \in Block
BY DEF Typed, RowsTypeOK, HeldInv, Block

(* What AddLogRow, PeriodicFlush and ReturnUnsent do to the queue.         *)
LEMMA FlushPuts ==
    ASSUME Typed, NEW p \in Pls,
           PeriodicFlush(p) \/ \E r \in Rows : AddLogRow(p, r)
    PROVE  /\ QueueTypeOK'
           /\ UNCHANGED <<workerVars, stage, delivered, rejected, twice, retried, countVars>>
           /\ stage \in {"running", "flushing"}
           /\ \/ /\ accepted' = accepted /\ Fifo!Put(buf[p]) /\ buf[p] \in Block
                 /\ buf' = [buf EXCEPT ![p] = {}]
              \/ \E r \in Rows \ accepted :
                    /\ accepted' = accepted \cup {r}
                    /\ \/ /\ buf[p] \cup {r} \in Block
                          /\ Fifo!Put(buf[p] \cup {r}) /\ buf' = [buf EXCEPT ![p] = {}]
                       \/ /\ UNCHANGED <<queueVars, evicted>>
                          /\ buf' = [buf EXCEPT ![p] = @ \cup {r}]
<1>1. CASE PeriodicFlush(p)
  <2>1. buf[p] \in Block /\ WriteBlock(buf[p])
    BY <1>1, BlocksAre DEF PeriodicFlush
  <2> QED BY <1>1, <2>1, WritePuts DEF PeriodicFlush, Typed
<1>2. ASSUME NEW r \in Rows, AddLogRow(p, r), Cardinality(buf[p]) + 1 > MaxRows
      PROVE  /\ QueueTypeOK' /\ accepted' = accepted \cup {r} /\ r \in Rows \ accepted
             /\ buf[p] \cup {r} \in Block /\ Fifo!Put(buf[p] \cup {r})
             /\ buf' = [buf EXCEPT ![p] = {}]
             /\ UNCHANGED <<workerVars, stage, delivered, rejected, twice, retried, countVars>>
             /\ stage \in {"running", "flushing"}
  <2>1. buf[p] \cup {r} \in Block /\ WriteBlock(buf[p] \cup {r})
    BY <1>2, BlocksAre DEF AddLogRow
  <2> QED BY <1>2, <2>1, WritePuts DEF AddLogRow, Typed
<1>3. ASSUME NEW r \in Rows, AddLogRow(p, r), ~ (Cardinality(buf[p]) + 1 > MaxRows)
      PROVE  /\ QueueTypeOK' /\ accepted' = accepted \cup {r} /\ r \in Rows \ accepted
             /\ buf' = [buf EXCEPT ![p] = @ \cup {r}]
             /\ UNCHANGED <<queueVars, evicted>>
             /\ UNCHANGED <<workerVars, stage, delivered, rejected, twice, retried, countVars>>
             /\ stage \in {"running", "flushing"}
  BY <1>3 DEF AddLogRow, Typed, QueueTypeOK, queueVars
<1> QED BY <1>1, <1>2, <1>3

LEMMA ReturnPuts ==
    ASSUME Typed, NEW w \in Workers, ReturnUnsent(w)
    PROVE  QueueTypeOK' /\ held[w] \in Block /\ Fifo!Put(held[w])
<1>1. held[w] \in Block /\ WriteBlock(held[w])
  BY BlocksAre DEF ReturnUnsent, PutBack
<1> QED BY <1>1, WritePuts DEF Typed

(* The steps that leave the queue alone.                                   *)
LEMMA QueueKept ==
    ASSUME UNCHANGED <<queueVars, evicted>>
    PROVE  UNCHANGED <<Queue, evicted>> /\ (QueueTypeOK => QueueTypeOK')
BY DEF queueVars, Queue, File, QueueTypeOK

Quiet(w) == ReaderExits(w) \/ SendBlockOK(w) \/ SendBlockLostReply(w) \/ SendBlockRejected(w)

LEMMA QuietKeeps ==
    /\ \A w \in Workers : Quiet(w) => UNCHANGED <<queueVars, evicted>>
    /\ \A b \in ghosts : GhostDelivers(b) => UNCHANGED <<queueVars, evicted>>
    /\ Stop \/ UnblockAllReaders \/ ClientMustStop \/ UNCHANGED vars
            => UNCHANGED <<queueVars, evicted>>
BY DEF Quiet, ReaderExits, SendBlockOK, SendBlockLostReply, SendBlockRejected, GhostDelivers,
       Stop, UnblockAllReaders, ClientMustStop, historyVars, vars, queueVars

LEMMA QueueTypeStep == Typed /\ [Next]_vars => QueueTypeOK'
<1> SUFFICES ASSUME Typed, [Next]_vars PROVE QueueTypeOK'
  OBVIOUS
<1>0. QueueTypeOK
  BY DEF Typed
<1>1. ASSUME NEW p \in Pls, PeriodicFlush(p) \/ \E r \in Rows : AddLogRow(p, r)
      PROVE  QueueTypeOK'
  BY <1>1, FlushPuts
<1>2. ASSUME NEW w \in Workers, WorkerStep(w) PROVE QueueTypeOK'
  BY <1>0, <1>2, ReadGets, ReturnPuts, QuietKeeps, QueueKept DEF WorkerStep, Quiet
<1>3. ASSUME NEW b \in ghosts, GhostDelivers(b) PROVE QueueTypeOK'
  BY <1>0, <1>3, QuietKeeps, QueueKept
<1>4. CASE Stop \/ UnblockAllReaders \/ ClientMustStop \/ UNCHANGED vars
  BY <1>0, <1>4, QuietKeeps, QueueKept
<1>5. CASE MustClose \/ Restart \/ Crash
  BY <1>0, <1>5, CloseDiscards, ReopenType DEF Restart, Crash
<1> QED BY <1>1, <1>2, <1>3, <1>4, <1>5 DEF Next

LEMMA CountsStep == CountsTypeOK /\ [Next]_vars => CountsTypeOK'
<1> SUFFICES ASSUME CountsTypeOK, [Next]_vars PROVE CountsTypeOK'
  OBVIOUS
<1>1. \/ UNCHANGED <<retried, restarts, crashes>>
      \/ retried' = TRUE /\ UNCHANGED <<restarts, crashes>>
      \/ restarts' = restarts + 1 /\ UNCHANGED <<retried, crashes>>
      \/ restarts' = restarts + 1 /\ retried' = TRUE /\ crashes' = crashes + 1
  <2>1. ASSUME NEW p \in Pls, PeriodicFlush(p) \/ \E r \in Rows : AddLogRow(p, r)
        PROVE  UNCHANGED <<retried, restarts, crashes>>
    BY <2>1 DEF PeriodicFlush, AddLogRow, countVars
  <2>2. ASSUME NEW w \in Workers, WorkerStep(w)
        PROVE  UNCHANGED <<restarts, crashes>> /\ (UNCHANGED retried \/ retried' = TRUE)
    BY <2>2 DEF WorkerStep, MustReadBlock, ReaderExits, SendBlockOK, SendBlockLostReply,
                SendBlockRejected, ReturnUnsent, countVars
  <2>3. ASSUME NEW b \in ghosts, GhostDelivers(b) PROVE UNCHANGED <<retried, restarts, crashes>>
    BY <2>3 DEF GhostDelivers, countVars
  <2>4. Stop \/ UnblockAllReaders \/ ClientMustStop \/ MustClose \/ UNCHANGED vars
            => UNCHANGED <<retried, restarts, crashes>>
    BY DEF Stop, UnblockAllReaders, ClientMustStop, MustClose, vars, countVars
  <2>5. Restart \/ Crash => /\ restarts' = restarts + 1
                            /\ \/ UNCHANGED <<retried, crashes>>
                               \/ retried' = TRUE /\ crashes' = crashes + 1
    BY DEF Restart, Crash, Reopen
  <2>6. Next \/ UNCHANGED vars
    OBVIOUS
  <2>7. CASE \E p \in Pls : PeriodicFlush(p) \/ \E r \in Rows : AddLogRow(p, r)
    BY <2>1, <2>7
  <2>8. CASE \E w \in Workers : WorkerStep(w)
    BY <2>2, <2>8
  <2>9. CASE \E b \in ghosts : GhostDelivers(b)
    BY <2>3, <2>9
  <2>10. CASE Restart \/ Crash
    BY <2>5, <2>10
  <2>11. CASE Stop \/ UnblockAllReaders \/ ClientMustStop \/ MustClose \/ UNCHANGED vars
    BY <2>4, <2>11
  <2> QED BY <2>6, <2>7, <2>8, <2>9, <2>10, <2>11 DEF Next
<1>2. restarts' \in Nat /\ crashes' \in Nat
  <2>1. (restarts' = restarts \/ restarts' = restarts + 1) /\ (crashes' = crashes \/ crashes' = crashes + 1)
    BY <1>1
  <2> QED BY <2>1 DEF CountsTypeOK
<1>3. retried' = retried \/ retried' = TRUE
  BY <1>1
<1>4. retried' \in BOOLEAN
  BY <1>3, Zenon DEF CountsTypeOK
<1> QED BY <1>2, <1>4 DEF CountsTypeOK

LEMMA TypedStep == Typed /\ [Next]_vars => Typed'
<1> SUFFICES ASSUME Typed, [Next]_vars PROVE Typed'
  OBVIOUS
<1> DEFINE Rest == RowsTypeOK /\ HeldInv /\ StageInv
<1>0. QueueTypeOK' /\ CountsTypeOK' /\ QueueTypeOK /\ Rest
  BY QueueTypeStep, CountsStep DEF Typed
<1> USE DEF RowsTypeOK, HeldInv, StageInv, AllFlushed, Stages
<1>1. ASSUME NEW p \in Pls, PeriodicFlush(p) \/ \E r \in Rows : AddLogRow(p, r)
      PROVE  Rest'
  <2>1. PICK b \in SUBSET Rows : buf' = [buf EXCEPT ![p] = b]
    <3>1. {} \in SUBSET Rows /\ \A r \in Rows : buf[p] \cup {r} \in SUBSET Rows
      BY <1>0
    <3> QED BY <1>1, <3>1, FlushPuts
  <2>2. accepted' \subseteq Rows
    BY <1>0, <1>1, FlushPuts
  <2>3. UNCHANGED <<pc, held, ghosts, stage, delivered, rejected, twice>>
        /\ stage \in {"running", "flushing"}
    BY <1>1, FlushPuts DEF workerVars
  <2> QED BY <1>0, <2>1, <2>2, <2>3
<1>2. ASSUME NEW w \in Workers, MustReadBlock(w) PROVE Rest'
  <2>1. held' = [held EXCEPT ![w] = Head(Queue)] /\ Head(Queue) \in Block
    BY <1>0, <1>2, ReadGets, GetRows
  <2>2. Head(Queue) # {} /\ Head(Queue) \subseteq Rows
    BY <2>1 DEF Block
  <2>3. /\ pc' = [pc EXCEPT ![w] = "sending"] /\ stage # "closed"
        /\ UNCHANGED <<buf, ghosts, stage, historyVars, delivered, twice, retried, countVars>>
    BY <1>2 DEF MustReadBlock
  <2> QED BY <1>0, <2>1, <2>2, <2>3 DEF historyVars, countVars
<1>3. ASSUME NEW w \in Workers, ReaderExits(w) PROVE Rest'
  BY <1>0, <1>3 DEF ReaderExits, historyVars, countVars, queueVars
<1>4. ASSUME NEW w \in Workers,
             SendBlockOK(w) \/ SendBlockRejected(w)
      PROVE  Rest'
  <2>1. held' = [held EXCEPT ![w] = {}]
        /\ (pc' = [pc EXCEPT ![w] = "idle"] \/ pc' = [pc EXCEPT ![w] = "exited"])
    BY <1>4 DEF SendBlockOK, SendBlockRejected, Finish
  <2>2. pc[w] = "sending" /\ UNCHANGED <<buf, mem, log, rd, meta, ghosts, stage, accepted, retried, countVars>>
    BY <1>4 DEF SendBlockOK, SendBlockRejected, queueVars, historyVars
  <2>3. delivered' \subseteq Rows /\ twice' \subseteq Rows /\ rejected' \subseteq Rows
    BY <1>0, <1>4 DEF SendBlockOK, SendBlockRejected, Deliver, historyVars
  <2> QED BY <1>0, <2>1, <2>2, <2>3 DEF countVars
<1>5. ASSUME NEW w \in Workers, SendBlockLostReply(w) PROVE Rest'
  BY <1>0, <1>5 DEF SendBlockLostReply, Deliver, workerVars, historyVars, countVars, queueVars
<1>6. ASSUME NEW w \in Workers, ReturnUnsent(w) PROVE Rest'
  <2>1. held[w] \in Block
    BY <1>6, ReturnPuts
  <2> QED BY <1>0, <1>6, <2>1 DEF ReturnUnsent, countVars
<1>7. ASSUME NEW b \in ghosts, GhostDelivers(b) PROVE Rest'
  <2>1. b \subseteq Rows
    BY <1>0, <1>7 DEF Block
  <2> QED BY <1>0, <1>7, <2>1 DEF GhostDelivers, Deliver, historyVars, countVars, queueVars
<1>8. ASSUME Stop \/ UnblockAllReaders \/ ClientMustStop PROVE Rest'
  <2>1. UNCHANGED <<buf, pc, held, ghosts, accepted, delivered, rejected, twice>>
    BY <1>8 DEF Stop, UnblockAllReaders, ClientMustStop, workerVars, historyVars
  <2>2. \/ stage' = "flushing"
        \/ stage' = "draining" /\ AllFlushed
        \/ stage' = "stopping" /\ stage = "draining"
    BY <1>8 DEF Stop, UnblockAllReaders, ClientMustStop, To
  <2>3. StageInv'
    BY <1>0, <2>1, <2>2
  <2>4. HeldInv'
    BY <1>0, <2>1
  <2>5. RowsTypeOK'
    BY <1>0, <2>1, <2>2
  <2> QED BY <2>3, <2>4, <2>5
<1>9. ASSUME MustClose PROVE Rest'
  <2>1. Len(log') = Len(log) + Len(mem)
    BY <1>0, <1>9 DEF MustClose, QueueTypeOK
  <2>2. mem' = <<>> /\ meta' = [r |-> rd', w |-> Len(log')]
    BY <1>9, <2>1 DEF MustClose
  <2>3. /\ stage = "stopping" /\ stage' = "closed" /\ \A w \in Workers : pc[w] = "exited"
        /\ UNCHANGED <<buf, pc, held, ghosts, accepted, delivered, rejected, twice>>
    BY <1>9 DEF MustClose, To, workerVars
  <2>4. StageInv'
    BY <1>0, <2>2, <2>3
  <2>5. HeldInv'
    BY <1>0, <2>3
  <2>6. RowsTypeOK'
    BY <1>0, <2>3
  <2> QED BY <2>4, <2>5, <2>6
<1>10. ASSUME Restart \/ Crash PROVE Rest'
  <2>1. Reopen
    BY <1>10 DEF Restart, Crash
  <2>2. /\ buf' = [p \in Pls |-> {}] /\ pc' = [w \in Workers |-> "idle"]
        /\ held' = [w \in Workers |-> {}] /\ ghosts' = {} /\ stage' = "running"
        /\ UNCHANGED <<accepted, delivered, rejected, twice>>
    BY <2>1 DEF Reopen, historyVars
  <2>3. StageInv' /\ HeldInv'
    BY <2>2
  <2>4. RowsTypeOK'
    BY <1>0, <2>2
  <2> QED BY <2>3, <2>4
<1>11. ASSUME UNCHANGED vars PROVE Rest'
  <2>1. UNCHANGED <<buf, pc, held, ghosts, stage, accepted, delivered, rejected, twice>>
        /\ UNCHANGED <<mem, meta, rd, log>>
    BY <1>11 DEF vars, queueVars, workerVars, historyVars
  <2>2. StageInv' /\ HeldInv'
    BY <1>0, <2>1
  <2>3. RowsTypeOK'
    BY <1>0, <2>1
  <2> QED BY <2>2, <2>3
<1> QED BY <1>0, <1>1, <1>2, <1>3, <1>4, <1>5, <1>6, <1>7, <1>8, <1>9, <1>10, <1>11
        DEF Next, WorkerStep, Typed

-----------------------------------------------------------------------------
(* Nothing is lost.                                                        *)

LEMMA KeptStep == Typed /\ KeptInv /\ [Next]_vars => KeptInv'
<1> SUFFICES ASSUME Typed, KeptInv, [Next]_vars, crashes' = 0, NEW x \in accepted'
             PROVE  \/ Settled(x)'
                    \/ x \in RowsOf(Queue')
                    \/ \E p \in Pls : x \in buf'[p]
                    \/ \E w \in Workers : x \in held'[w]
  BY DEF KeptInv
<1> DEFINE Found == \/ Settled(x)
                    \/ x \in RowsOf(Queue)
                    \/ \E p \in Pls : x \in buf[p]
                    \/ \E w \in Workers : x \in held[w]
<1>0. QueueTypeOK /\ RowsTypeOK
  BY DEF Typed
<1>00. x \in accepted /\ crashes = 0 => Found
  BY DEF KeptInv
<1> USE DEF Settled
<1>1. ASSUME NEW p \in Pls, PeriodicFlush(p) \/ \E r \in Rows : AddLogRow(p, r)
      PROVE  Found'
  <2>1. /\ UNCHANGED <<held, delivered, rejected, crashes>>
        /\ \/ /\ x \in accepted /\ Fifo!Put(buf[p]) /\ buf[p] \in Block
              /\ buf' = [buf EXCEPT ![p] = {}]
           \/ \E r \in Rows \ accepted :
                 /\ x \in accepted \/ x = r
                 /\ \/ /\ buf[p] \cup {r} \in Block
                       /\ Fifo!Put(buf[p] \cup {r}) /\ buf' = [buf EXCEPT ![p] = {}]
                    \/ /\ UNCHANGED <<Queue, evicted>>
                       /\ buf' = [buf EXCEPT ![p] = @ \cup {r}]
    BY <1>1, FlushPuts, QueueKept DEF workerVars, countVars
  <2>2. CASE x \in accepted /\ Fifo!Put(buf[p]) /\ buf[p] \in Block /\ buf' = [buf EXCEPT ![p] = {}]
    <3>1. RowsOf(Queue) \cup buf[p] \subseteq RowsOf(Queue') \cup evicted' /\ evicted \subseteq evicted'
      BY <1>0, <2>2, PutRows
    <3> QED BY <1>0, <1>00, <2>1, <2>2, <3>1 DEF RowsTypeOK
  <2>3. ASSUME NEW r \in Rows \ accepted, x \in accepted \/ x = r, buf[p] \cup {r} \in Block,
               Fifo!Put(buf[p] \cup {r}), buf' = [buf EXCEPT ![p] = {}]
        PROVE  Found'
    <3>1. RowsOf(Queue) \cup (buf[p] \cup {r}) \subseteq RowsOf(Queue') \cup evicted'
          /\ evicted \subseteq evicted'
      BY <1>0, <2>3, PutRows
    <3> QED BY <1>0, <1>00, <2>1, <2>3, <3>1 DEF RowsTypeOK
  <2>4. ASSUME NEW r \in Rows \ accepted, x \in accepted \/ x = r,
               UNCHANGED <<Queue, evicted>>, buf' = [buf EXCEPT ![p] = @ \cup {r}]
        PROVE  Found'
    BY <1>0, <1>00, <2>1, <2>4 DEF RowsTypeOK
  <2> QED BY <2>1, <2>2, <2>3, <2>4
<1>2. ASSUME NEW w \in Workers, MustReadBlock(w) PROVE Found'
  <2>1. held' = [held EXCEPT ![w] = Head(Queue)] /\ RowsOf(Queue) = Head(Queue) \cup RowsOf(Queue')
    BY <1>0, <1>2, ReadGets, GetRows
  <2>2. held[w] = {} /\ UNCHANGED <<buf, accepted, delivered, rejected, evicted, crashes>>
    BY <1>2 DEF MustReadBlock, Typed, HeldInv, historyVars, countVars
  <2> QED BY <1>0, <1>00, <2>1, <2>2 DEF RowsTypeOK
<1>3. ASSUME NEW w \in Workers, Quiet(w) PROVE Found'
  <2>1. UNCHANGED <<Queue, evicted, buf, accepted, crashes>>
    BY <1>3, QuietKeeps, QueueKept
    DEF Quiet, ReaderExits, SendBlockOK, SendBlockLostReply, SendBlockRejected,
        historyVars, countVars
  <2>2. /\ delivered \subseteq delivered' /\ rejected \subseteq rejected'
        /\ \/ held' = held
           \/ held' = [held EXCEPT ![w] = {}] /\ held[w] \subseteq delivered' \cup rejected'
    BY <1>3 DEF Quiet, ReaderExits, SendBlockOK, SendBlockLostReply, SendBlockRejected,
                Finish, Deliver, workerVars, historyVars
  <2> QED BY <1>0, <1>00, <2>1, <2>2 DEF RowsTypeOK
<1>4. ASSUME NEW w \in Workers, ReturnUnsent(w) PROVE Found'
  <2>1. RowsOf(Queue) \cup held[w] \subseteq RowsOf(Queue') \cup evicted' /\ evicted \subseteq evicted'
    BY <1>0, <1>4, ReturnPuts, PutRows
  <2>2. held' = [held EXCEPT ![w] = {}] /\ UNCHANGED <<buf, accepted, delivered, rejected, crashes>>
    BY <1>4 DEF ReturnUnsent, countVars
  <2> QED BY <1>0, <1>00, <2>1, <2>2 DEF RowsTypeOK
<1>5. ASSUME NEW b \in ghosts, GhostDelivers(b) PROVE Found'
  <2>1. UNCHANGED <<Queue, evicted, buf, held, accepted, rejected, crashes>>
        /\ delivered \subseteq delivered'
    BY <1>5, QuietKeeps, QueueKept DEF GhostDelivers, Deliver, historyVars, countVars
  <2> QED BY <1>00, <2>1
<1>6. ASSUME Stop \/ UnblockAllReaders \/ ClientMustStop \/ UNCHANGED vars PROVE Found'
  <2>1. UNCHANGED <<Queue, evicted>>
    BY <1>6, QuietKeeps, QueueKept
  <2>2. UNCHANGED <<buf, held, accepted, delivered, rejected, crashes>>
    BY <1>6 DEF Stop, UnblockAllReaders, ClientMustStop, vars, workerVars, historyVars, countVars
  <2> QED BY <1>00, <2>1, <2>2
<1>7. ASSUME MustClose PROVE Found'
  <2>1. RowsOf(Queue) \subseteq RowsOf(Queue') \cup evicted' /\ evicted \subseteq evicted'
    BY <1>0, <1>7, CloseDiscards, DiscardRows
  <2>2. UNCHANGED <<buf, held, accepted, delivered, rejected, crashes>>
    BY <1>7 DEF MustClose, workerVars, countVars
  <2> QED BY <1>00, <2>1, <2>2
<1>8. ASSUME Restart PROVE Found'
  <2>1. Queue' = Queue
    BY <1>0, <1>8, ReopenType DEF Restart, Typed, StageInv
  <2>2. /\ \A p \in Pls : buf[p] = {}
        /\ \A w \in Workers : held[w] = {}
    BY <1>8 DEF Restart, Typed, StageInv, HeldInv, AllFlushed
  <2>3. UNCHANGED <<accepted, delivered, rejected, evicted, crashes>>
    BY <1>8 DEF Restart, Reopen, historyVars
  <2> QED BY <1>00, <2>1, <2>2, <2>3
<1>9. ~ Crash
  BY DEF Crash, Typed, CountsTypeOK
<1>10. ASSUME NEW w \in Workers, WorkerStep(w) PROVE Found'
  BY <1>2, <1>3, <1>4, <1>10 DEF WorkerStep, Quiet
<1>11. Next \/ UNCHANGED vars
  OBVIOUS
<1> QED BY <1>1, <1>5, <1>6, <1>7, <1>8, <1>9, <1>10, <1>11 DEF Next

-----------------------------------------------------------------------------
(* Nothing is delivered twice by itself.                                   *)

LEMMA OnceStep == Typed /\ OnceInv /\ [Next]_vars => OnceInv'
<1> SUFFICES ASSUME Typed, OnceInv, [Next]_vars, ~ retried'
             PROVE  ghosts' = {} /\ twice' = {} /\ Separate'
  BY DEF OnceInv
<1> DEFINE Good == ghosts = {} /\ twice = {} /\ Separate
<1>0. QueueTypeOK /\ RowsTypeOK
  BY DEF Typed
<1>00. ~ retried => Good
  BY DEF OnceInv
<1> USE DEF Separate
<1>1. ASSUME NEW p \in Pls, PeriodicFlush(p) \/ \E r \in Rows : AddLogRow(p, r)
      PROVE  Good'
  <2>1. UNCHANGED <<held, ghosts, delivered, twice, retried>>
    BY <1>1, FlushPuts DEF workerVars, countVars
  <2>2. Good
    BY <1>00, <2>1
  <2>3. CASE accepted' = accepted /\ Fifo!Put(buf[p]) /\ buf[p] \in Block /\ buf' = [buf EXCEPT ![p] = {}]
    <3>1. RowsOf(Queue') \subseteq RowsOf(Queue) \cup buf[p] /\ Disjoint(Queue')
      BY <1>0, <2>2, <2>3, PutRows
    <3> QED BY <1>0, <2>1, <2>2, <2>3, <3>1 DEF RowsTypeOK
  <2>4. ASSUME NEW r \in Rows \ accepted, accepted' = accepted \cup {r}, buf[p] \cup {r} \in Block,
               Fifo!Put(buf[p] \cup {r}), buf' = [buf EXCEPT ![p] = {}]
        PROVE  Good'
    <3>1. RowsOf(Queue) \cap (buf[p] \cup {r}) = {}
      BY <2>2, <2>4
    <3>2. RowsOf(Queue') \subseteq RowsOf(Queue) \cup (buf[p] \cup {r}) /\ Disjoint(Queue')
      BY <1>0, <2>2, <2>4, <3>1, PutRows
    <3> QED BY <1>0, <2>1, <2>2, <2>4, <3>2 DEF RowsTypeOK
  <2>5. ASSUME NEW r \in Rows \ accepted, accepted' = accepted \cup {r},
               UNCHANGED <<Queue, evicted>>, buf' = [buf EXCEPT ![p] = @ \cup {r}]
        PROVE  Good'
    BY <1>0, <2>1, <2>2, <2>5 DEF RowsTypeOK
  <2> QED BY <1>1, <2>3, <2>4, <2>5, FlushPuts, QueueKept
<1>2. ASSUME NEW w \in Workers, MustReadBlock(w) PROVE Good'
  <2>1. UNCHANGED <<buf, accepted, ghosts, delivered, twice, retried>>
    BY <1>2 DEF MustReadBlock, historyVars
  <2>2. Good
    BY <1>00, <2>1
  <2>3. held' = [held EXCEPT ![w] = Head(Queue)]
    BY <1>0, <1>2, ReadGets
  <2>4. /\ RowsOf(Queue) = Head(Queue) \cup RowsOf(Queue')
        /\ Disjoint(Queue') /\ Head(Queue) \cap RowsOf(Queue') = {}
    BY <1>0, <1>2, <2>2, ReadGets, GetRows
  <2> QED BY <1>0, <2>1, <2>2, <2>3, <2>4 DEF RowsTypeOK
<1>3. ASSUME NEW w \in Workers, Quiet(w) PROVE Good'
  <2>1. UNCHANGED <<Queue, buf, accepted>>
    BY <1>3, QuietKeeps, QueueKept
    DEF Quiet, ReaderExits, SendBlockOK, SendBlockLostReply, SendBlockRejected, historyVars
  <2>2. ~ SendBlockLostReply(w)
    BY DEF SendBlockLostReply
  <2>3. /\ UNCHANGED <<ghosts, retried>>
        /\ \/ UNCHANGED <<held, delivered, twice>>
           \/ /\ held' = [held EXCEPT ![w] = {}]
              /\ \/ UNCHANGED <<delivered, twice>>
                 \/ delivered' = delivered \cup held[w] /\ twice' = twice \cup (delivered \cap held[w])
    BY <1>3, <2>2 DEF Quiet, ReaderExits, SendBlockOK, SendBlockRejected, Finish, Deliver
  <2>4. Good
    BY <1>00, <2>3
  <2> QED BY <1>0, <2>1, <2>3, <2>4 DEF RowsTypeOK
<1>4. ASSUME NEW w \in Workers, ReturnUnsent(w) PROVE Good'
  <2>1. /\ UNCHANGED <<buf, accepted, ghosts, delivered, twice, retried>>
        /\ held' = [held EXCEPT ![w] = {}]
    BY <1>4 DEF ReturnUnsent
  <2>2. Good
    BY <1>00, <2>1
  <2>3. RowsOf(Queue) \cap held[w] = {}
    BY <2>2
  <2>4. RowsOf(Queue') \subseteq RowsOf(Queue) \cup held[w] /\ Disjoint(Queue')
    BY <1>0, <1>4, <2>2, <2>3, ReturnPuts, PutRows
  <2> QED BY <1>0, <2>1, <2>2, <2>4 DEF RowsTypeOK
<1>5. ASSUME NEW b \in ghosts, GhostDelivers(b) PROVE FALSE
  <2>1. ~ retried
    BY <1>5 DEF GhostDelivers
  <2> QED BY <1>00, <1>5, <2>1
<1>6. ASSUME Stop \/ UnblockAllReaders \/ ClientMustStop \/ UNCHANGED vars PROVE Good'
  <2>1. UNCHANGED Queue
    BY <1>6, QuietKeeps, QueueKept
  <2>2. UNCHANGED <<buf, held, ghosts, accepted, delivered, twice, retried>>
    BY <1>6 DEF Stop, UnblockAllReaders, ClientMustStop, vars, workerVars, historyVars
  <2>3. Good
    BY <1>00, <2>2
  <2> QED BY <2>1, <2>2, <2>3
<1>7. ASSUME MustClose PROVE Good'
  <2>1. UNCHANGED <<buf, held, ghosts, accepted, delivered, twice, retried>>
    BY <1>7 DEF MustClose, workerVars
  <2>2. Good
    BY <1>00, <2>1
  <2>3. RowsOf(Queue') \subseteq RowsOf(Queue) /\ Disjoint(Queue')
    BY <1>0, <1>7, <2>2, CloseDiscards, DiscardRows
  <2> QED BY <2>1, <2>2, <2>3
<1>8. ASSUME Restart PROVE Good'
  <2>1. Queue' = Queue
    BY <1>0, <1>8, ReopenType DEF Restart, Typed, StageInv
  <2>2. /\ buf' = [p \in Pls |-> {}] /\ held' = [w \in Workers |-> {}] /\ ghosts' = {}
        /\ UNCHANGED <<accepted, delivered, twice, retried>>
    BY <1>8 DEF Restart, Reopen, historyVars
  <2>3. Good
    BY <1>00, <2>2
  <2> QED BY <2>1, <2>2, <2>3
<1>9. ~ Crash
  BY DEF Crash
<1>10. ASSUME NEW w \in Workers, WorkerStep(w) PROVE Good'
  BY <1>2, <1>3, <1>4, <1>10 DEF WorkerStep, Quiet
<1>11. Next \/ UNCHANGED vars
  OBVIOUS
<1> QED BY <1>1, <1>5, <1>6, <1>7, <1>8, <1>9, <1>10, <1>11 DEF Next

-----------------------------------------------------------------------------
(* Theorems.                                                               *)

WriteInv == Typed /\ KeptInv /\ OnceInv

LEMMA QueueInit == Init => Queue = <<>> /\ RowsOf(Queue) = {} /\ Disjoint(Queue)
BY DEF Init, Queue, File, RowsOf, Disjoint

LEMMA WriteInit == Init => WriteInv
<1> SUFFICES ASSUME Init PROVE WriteInv
  OBVIOUS
<1>1. KeptInv
  BY DEF Init, KeptInv
<1>2. Separate
  BY QueueInit DEF Init, Separate
<1>3. OnceInv
  BY <1>2 DEF Init, OnceInv
<1> QED BY <1>1, <1>3, TypedInit DEF WriteInv

(* The inductive invariant of vtagent: where rows are kept while nothing   *)
(* crashes, and in one place only while nothing is sent again.             *)
THEOREM WriteInvariant == Spec => []WriteInv
<1>1. WriteInv /\ [Next]_vars => WriteInv'
  BY TypedStep, KeptStep, OnceStep DEF WriteInv
<1> QED BY WriteInit, <1>1, PTL DEF Spec

(* However many workers, buffers and restarts there are: without a crash   *)
(* no row is lost between pendingLogs, the queue and the workers.          *)
THEOREM NothingIsLostWithoutCrash == Spec => []NothingLostWithoutCrash
<1>1. WriteInv => NothingLostWithoutCrash
  <2> SUFFICES ASSUME WriteInv, NEW r \in RowsOf(Queue) PROVE In(mem, r) \/ In(File, r)
    BY DEF WriteInv, KeptInv, NothingLostWithoutCrash
  <2>1. mem \in Seq(Block) /\ File \in Seq(Block)
    BY DEF WriteInv, Typed, QueueTypeOK, File
  <2>2. PICK i \in 1..Len(Queue) : r \in Queue[i]
    BY DEF RowsOf
  <2>3. CASE i <= Len(File)
    BY <2>1, <2>2, <2>3 DEF Queue, In
  <2>4. CASE i > Len(File)
    <3>1. i - Len(File) \in 1..Len(mem) /\ Queue[i] = mem[i - Len(File)]
      BY <2>1, <2>2, <2>4 DEF Queue
    <3> QED BY <2>2, <3>1 DEF In
  <2> QED BY <2>1, <2>2, <2>3, <2>4
<1> QED BY WriteInvariant, <1>1, PTL

(* A graceful stop leaves every row that is not settled on disk, between   *)
(* the offsets of the metainfo.                                            *)
THEOREM CloseKeepsAll == Spec => []ClosedKeepsAll
<1>1. WriteInv => ClosedKeepsAll
  <2> SUFFICES ASSUME WriteInv, stage = "closed", crashes = 0, NEW r \in accepted
               PROVE  Settled(r) \/ In(SubSeq(log, meta.r + 1, meta.w), r)
    BY DEF ClosedKeepsAll
  <2>1. /\ \A p \in Pls : buf[p] = {}
        /\ \A w \in Workers : held[w] = {}
        /\ mem = <<>> /\ meta = [r |-> rd, w |-> Len(log)]
    BY DEF WriteInv, Typed, StageInv, HeldInv, AllFlushed
  <2>2. Queue = SubSeq(log, meta.r + 1, meta.w)
    <3>1. File \in Seq(Block)
      BY DEF WriteInv, Typed, QueueTypeOK, File
    <3> QED BY <2>1, <3>1 DEF Queue, File
  <2>3. Settled(r) \/ r \in RowsOf(Queue)
    BY <2>1 DEF WriteInv, KeptInv
  <2> QED BY <2>2, <2>3 DEF RowsOf, In
<1> QED BY WriteInvariant, <1>1, PTL

(* Rows go from buffer to queue to worker without ever being in two        *)
(* places: only a repeated send delivers a row twice.                      *)
THEOREM TwiceOnlyIfSentAgain == Spec => []TwiceOnlyIfRetried
<1>1. WriteInv => TwiceOnlyIfRetried
  BY DEF WriteInv, OnceInv, TwiceOnlyIfRetried
<1> QED BY WriteInvariant, <1>1, PTL

(* Memory and file, with their spills, offsets, eviction, close and        *)
(* reopen, implement one FIFO queue, but for what a crash does.            *)
THEOREM ImplementsQueue == Spec => ImplementsFifo
<1>1. Init => Fifo!Init
  BY QueueInit DEF Fifo!Init, Init
<1>2. WriteInv /\ [Next]_vars => [Fifo!Next(Block) \/ crashes' # crashes]_<<Queue, evicted>>
  <2> SUFFICES ASSUME WriteInv, [Next]_vars
               PROVE  Fifo!Next(Block) \/ crashes' # crashes \/ UNCHANGED <<Queue, evicted>>
    OBVIOUS
  <2>0. Typed /\ QueueTypeOK
    BY DEF WriteInv, Typed
  <2>1. ASSUME NEW p \in Pls, PeriodicFlush(p) \/ \E r \in Rows : AddLogRow(p, r)
        PROVE  Fifo!Next(Block) \/ UNCHANGED <<Queue, evicted>>
    BY <2>0, <2>1, FlushPuts, QueueKept DEF Fifo!Next
  <2>2. ASSUME NEW w \in Workers, WorkerStep(w)
        PROVE  Fifo!Next(Block) \/ UNCHANGED <<Queue, evicted>>
    <3>1. CASE MustReadBlock(w)
      BY <2>0, <3>1, ReadGets DEF Fifo!Next
    <3>2. CASE ReturnUnsent(w)
      BY <2>0, <3>2, ReturnPuts DEF Fifo!Next
    <3>3. CASE Quiet(w)
      BY <3>3, QuietKeeps, QueueKept
    <3> QED BY <2>2, <3>1, <3>2, <3>3 DEF WorkerStep, Quiet
  <2>3. ASSUME NEW b \in ghosts, GhostDelivers(b) PROVE UNCHANGED <<Queue, evicted>>
    BY <2>3, QuietKeeps, QueueKept
  <2>4. Stop \/ UnblockAllReaders \/ ClientMustStop \/ UNCHANGED vars => UNCHANGED <<Queue, evicted>>
    BY QuietKeeps, QueueKept
  <2>5. MustClose => Fifo!Next(Block)
    BY <2>0, CloseDiscards DEF Fifo!Next
  <2>6. Restart => UNCHANGED <<Queue, evicted>>
    BY <2>0, ReopenType DEF Restart, Reopen, Typed, StageInv, historyVars
  <2>7. Crash => crashes' # crashes
    BY <2>0 DEF Crash, Typed, CountsTypeOK
  <2>8. Next \/ UNCHANGED vars
    OBVIOUS
  <2> QED BY <2>1, <2>2, <2>3, <2>4, <2>5, <2>6, <2>7, <2>8 DEF Next
<1> QED BY WriteInvariant, <1>1, <1>2, PTL DEF Spec, ImplementsFifo
=============================================================================
