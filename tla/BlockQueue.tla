----------------------------- MODULE BlockQueue -----------------------------
(***************************************************************************)
(* What vtagent's queue to one remote storage promises while the process   *)
(* lives, without memory, files or locks: one first-in first-out queue of  *)
(* blocks from which only the oldest may be dropped, and never unnoticed.  *)
(***************************************************************************)
EXTENDS Naturals, Sequences

VARIABLES
    queue,   \* the blocks, the oldest first
    lost     \* the rows of dropped blocks

Init == queue = <<>> /\ lost = {}

Get ==
    /\ queue # <<>>
    /\ queue' = Tail(queue)
    /\ UNCHANGED lost

LoseOldest(d) == lost' = lost \cup UNION {queue[i] : i \in 1..d}

(* A block is put at the end; the d oldest may be dropped for lack of room.*)
Put(b) ==
    \E d \in 0..Len(queue) :
        /\ LoseOldest(d)
        /\ queue' = Append(SubSeq(queue, d + 1, Len(queue)), b)

(* They may be dropped, too, when the queue is closed: the file can have   *)
(* less room than memory has.                                              *)
Discard ==
    \E d \in 0..Len(queue) :
        /\ LoseOldest(d)
        /\ queue' = SubSeq(queue, d + 1, Len(queue))

Next(Blocks) == Get \/ Discard \/ \E b \in Blocks : Put(b)
=============================================================================
