----------------------------- MODULE RemoteWrite -----------------------------
(***************************************************************************)
(* How vtagent forwards rows to one -remoteWrite.url: app/vtagent/         *)
(* remotewrite and the persistent queue it uses.                           *)
(*                                                                         *)
(* Rows are collected in pendingLogs, compressed into blocks and put in a  *)
(* FastQueue: in memory while the workers keep up, in a file otherwise.    *)
(* Workers read blocks and send each until the remote side accepts or      *)
(* rejects it.  A graceful stop puts unsent blocks back and writes what is *)
(* in memory to the file; a crash leaves the file as its metainfo says.    *)
(***************************************************************************)
EXTENDS Integers, Sequences, FiniteSets

CONSTANTS
    Rows,        \* rows pushed to vtagent
    Pls,         \* the pendingLogs of the url
    Workers,     \* the workers of the url: -remoteWrite.queues
    MaxRows,     \* rows that fit in -remoteWrite.maxBlockSize
    MaxMem,      \* maxInmemoryBlocks
    MaxFile,     \* blocks that fit in -remoteWrite.maxDiskUsagePerURL; 0: no limit
    MaxRestarts, \* bound: restarts of the process
    MaxCrashes   \* bound: how many of them follow a crash

ASSUME SizesAssumption ==
    /\ MaxRows \in Nat \ {0} /\ MaxMem \in Nat \ {0} /\ MaxFile \in Nat
    /\ MaxRestarts \in Nat /\ MaxCrashes \in Nat

VARIABLES
    buf,        \* buf[p]: rows in p's writeRequest
    mem,        \* blocks in the channel fq.ch
    log,        \* blocks ever written to the queue file
    rd,         \* blocks of log that have been read: the reader offset
    meta,       \* offsets in the metainfo file
    pc,         \* pc[w]: where worker w is
    held,       \* held[w]: the block w sends
    ghosts,     \* blocks whose send was given up but may still succeed
    stage,      \* where the process is in its life
    accepted,   \* history: rows pushed
    delivered,  \* rows the remote storage has
    rejected,   \* history: rows of blocks answered with 400 or 404
    evicted,    \* history: rows of blocks dropped for lack of disk space
    twice,      \* history: rows delivered more than once
    retried,    \* history: a block was sent again that may have arrived
    restarts, crashes

queueVars   == <<mem, log, rd, meta>>
workerVars  == <<pc, held, ghosts>>
countVars   == <<restarts, crashes>>
historyVars == <<accepted, rejected, evicted>>
vars == <<buf, queueVars, workerVars, stage, historyVars, delivered, twice, retried, countVars>>

Block == (SUBSET Rows) \ {{}}
File  == SubSeq(log, rd + 1, Len(log))

Init ==
    /\ buf = [p \in Pls |-> {}]
    /\ mem = <<>> /\ log = <<>> /\ rd = 0 /\ meta = [r |-> 0, w |-> 0]
    /\ pc = [w \in Workers |-> "idle"]
    /\ held = [w \in Workers |-> {}]
    /\ ghosts = {}
    /\ stage = "running"
    /\ accepted = {} /\ delivered = {} /\ rejected = {} /\ evicted = {}
    /\ twice = {} /\ retried = FALSE
    /\ restarts = 0 /\ crashes = 0

-----------------------------------------------------------------------------
(* FastQueue.                                                              *)

(* The reader offset once the file may hold n blocks: the oldest go.       *)
Trim(n) == IF MaxFile > 0 /\ n - rd > MaxFile THEN n - MaxFile ELSE rd

(* Blocks bs are written to the file, one by one; each write may save the  *)
(* metainfo, at most once a second.                                        *)
WriteFile(bs) ==
    LET n == Len(log) + Len(bs)
    IN  /\ log' = log \o bs
        /\ rd' = Trim(n)
        /\ evicted' = evicted \cup UNION {log'[i] : i \in (rd + 1)..Trim(n)}
        /\ \/ UNCHANGED meta
           \/ \E i \in (Len(log) + 1)..n : meta' = [r |-> Trim(i), w |-> i]

(* Whether a block may go to memory, m being what is there.                *)
ToMemory(m) == File = <<>> /\ Len(m) < MaxMem

(* What goes to the file when b does not fit in memory.                    *)
Spilled(b) == Append(mem, b)
(* Variant: the blocks stay in memory, too.                                *)
KeptInMemory == mem
(* What stays in memory then.                                              *)
LeftInMemory == <<>>

(* tryWriteBlock.  Memory that has not been read for 5 seconds is moved to *)
(* the file first, and so is memory that is full.                          *)
WriteBlock(b) ==
    \/ /\ ToMemory(mem)
       /\ mem' = Append(mem, b)
       /\ UNCHANGED <<log, rd, meta, evicted>>
    \/ /\ mem # <<>> \/ ~ ToMemory(mem)
       /\ WriteFile(Spilled(b))
       /\ mem' = LeftInMemory

(* Variant: the file is forgotten.                                         *)
NextFromMemory == IF mem # <<>> THEN "memory" ELSE "none"
(* Where MustReadBlock takes the next block from.                          *)
NextFrom == IF File # <<>> THEN "file" ELSE IF mem # <<>> THEN "memory" ELSE "none"

-----------------------------------------------------------------------------
(* pendingLogs.                                                            *)

(* Stop is called when nobody pushes any more.                             *)
AddLogRow(p, r) ==
    /\ stage = "running"
    /\ r \notin accepted
    /\ accepted' = accepted \cup {r}
    /\ IF Cardinality(buf[p]) + 1 > MaxRows
       THEN /\ WriteBlock(buf[p] \cup {r})
            /\ buf' = [buf EXCEPT ![p] = {}]
       ELSE /\ buf' = [buf EXCEPT ![p] = @ \cup {r}]
            /\ UNCHANGED <<queueVars, evicted>>
    /\ UNCHANGED <<workerVars, stage, delivered, rejected, twice, retried, countVars>>

(* The ticker of periodicFlusher, or its last flush when p is stopped.     *)
PeriodicFlush(p) ==
    /\ stage \in {"running", "flushing"}
    /\ buf[p] # {}
    /\ WriteBlock(buf[p])
    /\ buf' = [buf EXCEPT ![p] = {}]
    /\ UNCHANGED <<workerVars, stage, accepted, delivered, rejected, twice, retried, countVars>>

-----------------------------------------------------------------------------
(* Workers.                                                                *)

(* Variant: the reader offset stays where it is.                           *)
AdvanceNot(offset) == offset
Advance(offset) == offset + 1

MustReadBlock(w) ==
    /\ pc[w] = "idle"
    /\ stage # "closed"
    /\ \/ /\ NextFrom = "file"
          /\ held' = [held EXCEPT ![w] = log[rd + 1]]
          /\ rd' = Advance(rd)
          /\ meta' \in {meta, [r |-> Advance(rd), w |-> Len(log)]}
          /\ UNCHANGED <<mem, log>>
       \/ /\ NextFrom = "memory"
          /\ held' = [held EXCEPT ![w] = Head(mem)]
          /\ mem' = Tail(mem)
          /\ UNCHANGED <<log, rd, meta>>
    /\ pc' = [pc EXCEPT ![w] = "sending"]
    /\ UNCHANGED <<buf, ghosts, stage, historyVars, delivered, twice, retried, countVars>>

(* Readers have been unblocked: nothing is left, or the deadline is over.  *)
ReaderExits(w) ==
    /\ pc[w] = "idle"
    /\ stage \in {"draining", "stopping"}
    /\ pc' = [pc EXCEPT ![w] = "exited"]
    /\ UNCHANGED <<buf, queueVars, held, ghosts, stage, historyVars, delivered, twice, retried, countVars>>

Deliver(b) ==
    /\ delivered' = delivered \cup b
    /\ twice' = twice \cup (delivered \cap b)

Finish(w) ==
    /\ held' = [held EXCEPT ![w] = {}]
    /\ \/ pc' = [pc EXCEPT ![w] = "idle"]
       \/ stage = "stopping" /\ pc' = [pc EXCEPT ![w] = "exited"]

(* A 2xx answer.                                                           *)
SendBlockOK(w) ==
    /\ pc[w] = "sending"
    /\ Deliver(held[w])
    /\ Finish(w)
    /\ UNCHANGED <<buf, queueVars, ghosts, stage, historyVars, retried, countVars>>

(* The block arrives but the answer does not: it will be sent again.       *)
SendBlockLostReply(w) ==
    /\ pc[w] = "sending"
    /\ Deliver(held[w])
    /\ retried' = TRUE
    /\ UNCHANGED <<buf, queueVars, workerVars, stage, historyVars, countVars>>

(* 400 or 404: the block is dropped.                                       *)
SendBlockRejected(w) ==
    /\ pc[w] = "sending"
    /\ rejected' = rejected \cup held[w]
    /\ Finish(w)
    /\ UNCHANGED <<buf, queueVars, ghosts, stage, accepted, evicted, delivered, twice, retried, countVars>>

(* Variant: an unsent block is given up.                                   *)
PutBackNothing(b) == UNCHANGED <<queueVars, evicted>>
PutBack(b) == WriteBlock(b)

(* stopCh is closed while the block is being sent: the sender has given    *)
(* up, or it still tries when the grace period is over.                    *)
ReturnUnsent(w) ==
    /\ pc[w] = "sending"
    /\ stage = "stopping"
    /\ PutBack(held[w])
    /\ \/ UNCHANGED <<ghosts, retried>>
       \/ ghosts' = ghosts \cup {held[w]} /\ retried' = TRUE
    /\ pc' = [pc EXCEPT ![w] = "exited"]
    /\ held' = [held EXCEPT ![w] = {}]
    /\ UNCHANGED <<buf, stage, accepted, delivered, rejected, twice, countVars>>

(* The goroutine that was left behind gets through after all.              *)
GhostDelivers(b) ==
    /\ b \in ghosts
    /\ Deliver(b)
    /\ ghosts' = ghosts \ {b}
    /\ UNCHANGED <<buf, queueVars, pc, held, stage, historyVars, retried, countVars>>

-----------------------------------------------------------------------------
(* Stop, crash and restart.                                                *)

To(from, to) == stage = from /\ stage' = to

Stop ==
    /\ To("running", "flushing")
    /\ UNCHANGED <<buf, queueVars, workerVars, historyVars, delivered, twice, retried, countVars>>

(* Variant: the queue's readers are let go before the last flush.          *)
FlushedAlways == TRUE
AllFlushed == \A p \in Pls : buf[p] = {}

UnblockAllReaders ==
    /\ To("flushing", "draining")
    /\ AllFlushed
    /\ UNCHANGED <<buf, queueVars, workerVars, historyVars, delivered, twice, retried, countVars>>

(* client.MustStop closes stopCh.                                          *)
ClientMustStop ==
    /\ To("draining", "stopping")
    /\ UNCHANGED <<buf, queueVars, workerVars, historyVars, delivered, twice, retried, countVars>>

(* fq.MustClose once the workers have returned.                            *)
MustClose ==
    /\ To("stopping", "closed")
    /\ \A w \in Workers : pc[w] = "exited"
    /\ LET n == Len(log) + Len(mem)
       IN  /\ log' = log \o mem
           /\ rd' = Trim(n)
           /\ evicted' = evicted \cup UNION {log'[i] : i \in (rd + 1)..Trim(n)}
           /\ meta' = [r |-> Trim(n), w |-> n]
    /\ mem' = <<>>
    /\ UNCHANGED <<buf, workerVars, accepted, delivered, rejected, twice, retried, countVars>>

(* A new process opens the queue where the metainfo says.                  *)
Reopen ==
    /\ restarts < MaxRestarts
    /\ restarts' = restarts + 1
    /\ stage' = "running"
    /\ log' = SubSeq(log, 1, meta.w)
    /\ rd' = meta.r
    /\ mem' = <<>>
    /\ buf' = [p \in Pls |-> {}]
    /\ pc' = [w \in Workers |-> "idle"]
    /\ held' = [w \in Workers |-> {}]
    /\ ghosts' = {}
    /\ UNCHANGED <<meta, historyVars, delivered, twice>>

Restart == stage = "closed" /\ Reopen /\ UNCHANGED <<crashes, retried>>

(* The process is killed.                                                  *)
Crash ==
    /\ stage # "closed"
    /\ crashes < MaxCrashes
    /\ crashes' = crashes + 1
    /\ retried' = TRUE
    /\ Reopen

WorkerStep(w) ==
    \/ MustReadBlock(w) \/ ReaderExits(w) \/ SendBlockOK(w) \/ SendBlockLostReply(w)
    \/ SendBlockRejected(w) \/ ReturnUnsent(w)

Next ==
    \/ \E p \in Pls : PeriodicFlush(p) \/ \E r \in Rows : AddLogRow(p, r)
    \/ \E w \in Workers : WorkerStep(w)
    \/ \E b \in ghosts : GhostDelivers(b)
    \/ Stop \/ UnblockAllReaders \/ ClientMustStop \/ MustClose \/ Restart \/ Crash

Spec == Init /\ [][Next]_vars

(* Tickers fire, workers run, and a block that is sent again and again is  *)
(* accepted some time.                                                     *)
FairSpec ==
    /\ Spec
    /\ \A p \in Pls : WF_vars(PeriodicFlush(p))
    /\ \A w \in Workers : SF_vars(MustReadBlock(w)) /\ WF_vars(SendBlockOK(w))

-----------------------------------------------------------------------------
(* Properties.                                                             *)

In(seq, r) == \E i \in 1..Len(seq) : r \in seq[i]
Settled(r) == r \in delivered \cup rejected \cup evicted

(* Without a crash a row is in some buffer, block or queue until it is     *)
(* delivered, rejected or evicted: stopping and restarting at any moment   *)
(* loses nothing.                                                          *)
NothingLostWithoutCrash ==
    crashes = 0 =>
        \A r \in accepted :
            \/ Settled(r)
            \/ \E p \in Pls : r \in buf[p]
            \/ In(mem, r) \/ In(File, r)
            \/ \E w \in Workers : r \in held[w]

(* "to properly save in-memory data to persistent queue on graceful        *)
(* shutdown": what is not settled then is on disk for the next process.    *)
ClosedKeepsAll ==
    stage = "closed" /\ crashes = 0 =>
        \A r \in accepted : Settled(r) \/ In(SubSeq(log, meta.r + 1, meta.w), r)

(* The remote storage gets a row twice only if a block that may have       *)
(* arrived is sent again: after a lost answer, a sender left behind by the *)
(* grace period, or a crash.                                               *)
TwiceOnlyIfRetried == twice # {} => retried

(* A row pushed to vtagent is settled, unless the process stops first.     *)
EventuallySettled ==
    \A r \in Rows : (r \in accepted) ~> (Settled(r) \/ stage # "running" \/ restarts > 0)

(* But for what a crash does to it, memory and file together are one FIFO  *)
(* queue that outlives restarts.                                           *)
Queue == File \o mem
Fifo  == INSTANCE BlockQueue WITH queue <- Queue, lost <- evicted
ImplementsFifo ==
    Fifo!Init /\ [][Fifo!Next(Block) \/ crashes' # crashes]_<<Queue, evicted>>
=============================================================================
