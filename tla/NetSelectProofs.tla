--------------------------- MODULE NetSelectProofs ---------------------------
(***************************************************************************)
(* Theorems about NetSelect, for any number of nodes, vtselects among them *)
(* and blocks per node.                                                    *)
(***************************************************************************)
EXTENDS NetSelect, Aggregates, TLAPS

Outcomes == Errors \cup {"none"}

SelectTypeOK ==
    /\ op \in Ops
    /\ pc \in [Nodes -> {"asked", "streaming", "returned", "failing", "handled"}]
    /\ got \in [Nodes -> Nat]
    /\ err \in [Nodes -> Outcomes]
    /\ errs \in [Nodes -> Outcomes]
    /\ own \in [Nodes -> Outcomes]
    /\ answer \in Errors \cup {"none", "ok", "all"}

FlagsTypeOK == partial \in BOOLEAN /\ cancelled \in BOOLEAN /\ stopped \in BOOLEAN

ServerTypeOK ==
    /\ srv \in [Nodes -> {"away", "queued", "running", "replied"}]
    /\ status \in [Nodes -> {"none", "ok", "failed", "retention"}]
    /\ sent \in [Nodes -> Nat]
    /\ end \in [Nodes -> {"open", "eof", "cut"}]
    /\ silent \subseteq Nodes

(* A status precedes every block, and a response that ends well is whole   *)
(* unless its node has kept an error to itself.                            *)
ServerInv ==
    \A n \in Nodes :
        /\ srv[n] \in {"away", "queued"} => status[n] = "none" /\ sent[n] = 0
        /\ srv[n] = "running" => status[n] = IF sent[n] = 0 THEN "none" ELSE "ok"
        /\ end[n] # "open" => srv[n] = "replied"
        /\ end[n] = "eof" /\ status[n] = "ok" /\ n \notin silent => sent[n] = BlocksOf(n)

(* The goroutine of a node returns no error only when it has read all of a *)
(* response that ended well.                                               *)
ReadInv ==
    \A n \in Nodes :
        /\ pc[n] = "streaming" => status[n] = "ok"
        /\ pc[n] \in {"returned", "failing", "handled"} /\ err[n] = "none" =>
              got[n] = sent[n] /\ end[n] = "eof" /\ status[n] = "ok"

(* Where an error is between the goroutine that met it and the answer.     *)
ErrorsInv ==
    \A n \in Nodes :
        /\ pc[n] = "returned" /\ ~ cancelled => own[n] = err[n]
        /\ pc[n] = "failing" => err[n] # "none" /\ own[n] = err[n]
        /\ errs[n] # "none" => pc[n] = "handled" /\ own[n] = errs[n]
        /\ pc[n] = "handled" => err[n] = "none" \/ errs[n] # "none" \/ cancelled

(* Only an error that is recorded cancels a request that needs all nodes.  *)
CancelInv ==
    ~ partial /\ ~ stopped /\ answer = "none" /\ cancelled => \E n \in Nodes : errs[n] # "none"

AnswerInv ==
    /\ answer # "none" => \A n \in Nodes : pc[n] = "handled"
    /\ answer \in Errors => \E n \in Nodes : errs[n] = answer
    /\ answer = "ok" /\ ~ partial /\ ~ stopped => \A n \in Nodes : err[n] = "none"

SelectInv ==
    /\ SelectTypeOK /\ FlagsTypeOK /\ ServerTypeOK
    /\ ServerInv /\ ReadInv /\ ErrorsInv /\ CancelInv /\ AnswerInv

-----------------------------------------------------------------------------
(* The handlers at the nodes.                                              *)

LEMMA BlocksOfType == \A n \in Nodes : BlocksOf(n) \in Nat
BY BlocksAssumption DEF BlocksOf

(* A reply leaves the status that a block has brought.                     *)
LEMMA ReplyKeeps ==
    ASSUME ServerTypeOK, NEW n \in Nodes, NEW st \in {"ok", "failed", "retention"},
           NEW e \in {"eof", "cut"}, Reply(n, st, e)
    PROVE  /\ srv' \in [Nodes -> {"away", "queued", "running", "replied"}]
           /\ status' \in [Nodes -> {"none", "ok", "failed", "retention"}]
           /\ end' \in [Nodes -> {"open", "eof", "cut"}]
           /\ srv'[n] = "replied" /\ end'[n] = e
           /\ status'[n] = IF status[n] = "none" THEN st ELSE status[n]
           /\ \A m \in Nodes \ {n} :
                 srv'[m] = srv[m] /\ end'[m] = end[m] /\ status'[m] = status[m]
BY DEF Reply, ServerTypeOK

(* What the steps of a handler are to the node that is read from.          *)
Serves(n) ==
    /\ UNCHANGED client
    /\ ServerTypeOK'
    /\ ServerInv'
    /\ \A m \in Nodes :
          /\ end[m] # "open" => sent'[m] = sent[m] /\ end'[m] = end[m] /\ status'[m] = status[m]
          /\ status[m] = "ok" => status'[m] = "ok"
          /\ sent'[m] >= sent[m]

LEMMA HandlerServes ==
    ASSUME ServerTypeOK, ServerInv, NEW n \in Nodes, HandlerStep(n)
    PROVE  Serves(n)
<1> USE DEF Serves
<1>0. /\ \A m \in Nodes : sent[m] \in Nat /\ BlocksOf(m) \in Nat
      /\ UNCHANGED client => \A m \in Nodes : BlocksOf(m)' = BlocksOf(m)
  BY BlocksOfType DEF ServerTypeOK, client, BlocksOf
<1>1. CASE Arrive(n) \/ TakeSlot(n)
  <2>1. \E x \in {"queued", "running"} :
            /\ srv' = [srv EXCEPT ![n] = x]
            /\ srv[n] \in {"away", "queued"}
            /\ UNCHANGED <<client, status, sent, end, silent>>
    BY <1>1 DEF Arrive, TakeSlot
  <2>2. ServerTypeOK'
    BY <2>1 DEF ServerTypeOK
  <2>3. ServerInv'
    BY <1>0, <2>1 DEF ServerInv, ServerTypeOK
  <2> QED BY <1>0, <2>1, <2>2, <2>3
<1>2. CASE SendBlock(n)
  <2>1. /\ srv[n] = "running" /\ sent[n] < BlocksOf(n)
        /\ sent' = [sent EXCEPT ![n] = sent[n] + 1]
        /\ status' = [status EXCEPT ![n] = "ok"]
        /\ UNCHANGED <<client, srv, end, silent>>
    BY <1>2 DEF SendBlock
  <2>2. ServerTypeOK'
    <3>1. sent' \in [Nodes -> Nat]
      BY <1>0, <2>1 DEF ServerTypeOK
    <3>2. status' \in [Nodes -> {"none", "ok", "failed", "retention"}]
      BY <2>1 DEF ServerTypeOK
    <3> QED BY <2>1, <3>1, <3>2 DEF ServerTypeOK
  <2>3. end[n] = "open"
    BY <2>1 DEF ServerInv
  <2>4. /\ sent'[n] = sent[n] + 1 /\ sent'[n] # 0 /\ sent'[n] >= sent[n] /\ status'[n] = "ok"
        /\ \A m \in Nodes \ {n} : sent'[m] = sent[m] /\ sent'[m] >= sent[m] /\ status'[m] = status[m]
    BY <1>0, <2>1 DEF ServerTypeOK
  <2>5. ServerInv'
    BY <1>0, <2>1, <2>3, <2>4 DEF ServerInv
  <2> QED BY <2>1, <2>2, <2>3, <2>4, <2>5
<1>3. ASSUME NEW st \in {"ok", "failed", "retention"}, NEW e \in {"eof", "cut"},
             Reply(n, st, e), srv[n] \in {"queued", "running"}, UNCHANGED <<client, sent>>,
             silent \subseteq silent', silent' \subseteq Nodes,
             e = "eof" /\ n \notin silent' =>
                \/ status[n] = "none" /\ st # "ok"
                \/ sent[n] = BlocksOf(n)
      PROVE  Serves(n)
  <2>1. ServerTypeOK'
    BY <1>3, ReplyKeeps DEF ServerTypeOK
  <2>2. end[n] = "open"
    BY <1>3 DEF ServerInv
  <2>3. ServerInv'
    BY <1>0, <1>3, ReplyKeeps DEF ServerInv
  <2>4. \A m \in Nodes : status[m] = "ok" => status'[m] = "ok"
    BY <1>3, ReplyKeeps
  <2>5. \A m \in Nodes : end[m] # "open" => end'[m] = end[m] /\ status'[m] = status[m]
    BY <1>3, <2>2, ReplyKeeps
  <2>6. \A m \in Nodes : sent'[m] = sent[m] /\ sent'[m] >= sent[m]
    BY <1>0, <1>3
  <2> QED BY <1>3, <2>1, <2>3, <2>4, <2>5, <2>6
<1>4. n \in Nodes /\ silent \subseteq Nodes
  BY DEF ServerTypeOK
<1>5. CASE Complete(n)
  BY <1>3, <1>4, <1>5 DEF Complete
<1>6. CASE OutOfRetention(n)
  <2>1. n \notin silent' => status[n] = "none"
    BY <1>0, <1>6 DEF OutOfRetention, ServerInv
  <2>2. silent \subseteq silent' /\ silent' \subseteq Nodes
    BY <1>4, <1>6 DEF OutOfRetention
  <2> QED BY <1>3, <1>6, <2>1, <2>2 DEF OutOfRetention
<1>7. CASE Fail(n)
  <2>1. CASE status[n] = "none"
    BY <1>3, <1>4, <1>7, <2>1 DEF Fail
  <2>2. CASE status[n] # "none"
    BY <1>3, <1>4, <1>7, <2>2 DEF Fail
  <2> QED BY <2>1, <2>2
<1>8. CASE FailSilently(n)
  BY <1>3, <1>4, <1>8 DEF FailSilently
<1>9. CASE SeeClientGone(n)
  BY <1>3, <1>4, <1>9 DEF SeeClientGone
<1> QED BY <1>1, <1>2, <1>5, <1>6, <1>7, <1>8, <1>9 DEF HandlerStep

-----------------------------------------------------------------------------
(* The goroutines.                                                         *)

Client == ReadInv /\ ErrorsInv /\ CancelInv /\ AnswerInv
Types  == SelectTypeOK /\ FlagsTypeOK /\ ServerTypeOK

LEMMA InitInv == Init => SelectInv
<1> SUFFICES ASSUME Init PROVE SelectInv
  OBVIOUS
<1>1. SelectTypeOK /\ ServerTypeOK
  BY DEF Init, SelectTypeOK, ServerTypeOK, Outcomes
<1>2. partial \in BOOLEAN
  BY Zenon DEF Init
<1>3. FlagsTypeOK
  BY <1>2, Zenon DEF Init, FlagsTypeOK
<1>4. ServerInv /\ Client
  BY DEF Init, ServerInv, Client, ReadInv, ErrorsInv, CancelInv, AnswerInv, Errors
<1> QED BY <1>1, <1>3, <1>4 DEF SelectInv, Client

(* What a handler does leaves the goroutines' invariants alone.            *)
LEMMA HandlerKeeps ==
    ASSUME Types, ServerInv, Client, NEW n \in Nodes, HandlerStep(n)
    PROVE  SelectInv'
<1>1. Serves(n)
  BY HandlerServes DEF Types
<1>2. UNCHANGED <<op, partial, pc, got, err, errs, cancelled, answer, stopped, own>>
  BY <1>1 DEF Serves, client
<1>3. SelectTypeOK'
  BY <1>2 DEF Types, SelectTypeOK
<1>4. FlagsTypeOK'
  BY <1>2, Zenon DEF Types, FlagsTypeOK
<1>5. ReadInv'
  BY <1>1, <1>2 DEF Serves, Client, ReadInv
<1>6. ErrorsInv' /\ CancelInv' /\ AnswerInv'
  BY <1>2 DEF Client, ErrorsInv, CancelInv, AnswerInv
<1> QED BY <1>1, <1>3, <1>4, <1>5, <1>6 DEF SelectInv, Serves

(* The ways in which sn.runQuery returns: without an error at the end of a *)
(* whole response only.                                                    *)
LEMMA Returns ==
    ASSUME NEW n \in Nodes,
           Refused(n) \/ EndOfStream(n) \/ ConnectionLost(n) \/ Abort(n)
    PROVE  \E e \in Outcomes :
              /\ Return(n, e)
              /\ pc[n] \in {"asked", "streaming"}
              /\ e = "none" => pc[n] = "streaming" /\ got[n] = sent[n] /\ end[n] = "eof"
BY DEF Refused, EndOfStream, ConnectionLost, Abort, Outcomes, Errors

(* The steps of a client leave what the servers have done.                 *)
LEMMA ClientKeepsServer ==
    ASSUME ServerTypeOK, ServerInv, UNCHANGED <<server, op>>
    PROVE  ServerTypeOK' /\ ServerInv'
BY DEF server, ServerTypeOK, ServerInv, BlocksOf

LEMMA NodeKeeps ==
    ASSUME Types, ServerInv, Client, NEW n \in Nodes, NodeStep(n)
    PROVE  SelectInv'
<1> USE DEF Types, Client
<1>1. UNCHANGED <<server, op, partial, answer, stopped>>
  BY DEF NodeStep, Accepted, Refused, ReadBlock, EndOfStream, ConnectionLost, Abort, Return,
         CheckContext, RecordError
<1>2. ServerTypeOK' /\ ServerInv'
  BY <1>1, ClientKeepsServer
<1>3. UNCHANGED <<srv, status, sent, end, silent>>
  BY <1>1 DEF server
<1>4. answer = "none"
  BY DEF AnswerInv, NodeStep, Accepted, Refused, ReadBlock, EndOfStream, ConnectionLost, Abort,
         CheckContext, RecordError
<1>5. AnswerInv'
  BY <1>1, <1>4 DEF AnswerInv, Errors
<1>6. cancelled' \in BOOLEAN
  <2>1. cancelled' = cancelled \/ cancelled' = TRUE \/ cancelled' = (cancelled \/ Cancels(err[n]))
    BY DEF NodeStep, Accepted, Refused, ReadBlock, EndOfStream, ConnectionLost, Abort, Return,
           CheckContext, RecordError
  <2> QED BY <2>1, Zenon DEF FlagsTypeOK
<1>7. FlagsTypeOK'
  BY <1>1, <1>6, Zenon DEF FlagsTypeOK
<1> DEFINE Rest == SelectTypeOK' /\ ReadInv' /\ ErrorsInv' /\ CancelInv'
<1>8. ASSUME Accepted(n) PROVE Rest
  <2>1. pc[n] = "asked" /\ status[n] = "ok" /\ pc' = [pc EXCEPT ![n] = "streaming"]
        /\ UNCHANGED <<got, err, errs, cancelled, own>>
    BY <1>8 DEF Accepted
  <2>2. SelectTypeOK'
    BY <1>1, <2>1 DEF SelectTypeOK
  <2>3. ReadInv' /\ ErrorsInv' /\ CancelInv'
    BY <1>1, <1>3, <2>1 DEF SelectTypeOK, ReadInv, ErrorsInv, CancelInv
  <2> QED BY <2>2, <2>3
<1>9. ASSUME NEW e \in Outcomes, Return(n, e), pc[n] \in {"asked", "streaming"},
             e = "none" => pc[n] = "streaming" /\ got[n] = sent[n] /\ end[n] = "eof"
      PROVE  Rest
  <2>1. /\ pc' = [pc EXCEPT ![n] = "returned"] /\ err' = [err EXCEPT ![n] = e]
        /\ own' = [own EXCEPT ![n] = IF cancelled THEN @ ELSE e]
        /\ UNCHANGED <<got, errs, cancelled>>
    BY <1>9 DEF Return
  <2>2. SelectTypeOK'
    BY <1>1, <2>1 DEF SelectTypeOK
  <2>3. ReadInv'
    BY <1>3, <1>9, <2>1 DEF SelectTypeOK, ReadInv
  <2>4. ErrorsInv'
    BY <1>9, <2>1 DEF SelectTypeOK, ErrorsInv
  <2>5. CancelInv'
    BY <1>1, <2>1 DEF CancelInv
  <2> QED BY <2>2, <2>3, <2>4, <2>5
<1>10. ASSUME ReadBlock(n) PROVE Rest
  <2>1. pc[n] = "streaming" /\ got' = [got EXCEPT ![n] = @ + 1]
        /\ UNCHANGED <<pc, err, errs, cancelled, own>>
    BY <1>10 DEF ReadBlock
  <2>2. got' \in [Nodes -> Nat]
    BY <2>1 DEF SelectTypeOK
  <2>3. SelectTypeOK'
    BY <1>1, <2>1, <2>2 DEF SelectTypeOK
  <2>4. \A m \in Nodes \ {n} : got'[m] = got[m]
    BY <2>1 DEF SelectTypeOK
  <2>5. ReadInv'
    BY <1>3, <2>1, <2>4 DEF ReadInv
  <2>6. ErrorsInv' /\ CancelInv'
    BY <1>1, <2>1 DEF ErrorsInv, CancelInv
  <2> QED BY <2>3, <2>5, <2>6
<1>11. ASSUME CheckContext(n) PROVE Rest
  <2>1. /\ pc[n] = "returned"
        /\ \/ pc' = [pc EXCEPT ![n] = "handled"] /\ (err[n] = "none" \/ cancelled)
           \/ pc' = [pc EXCEPT ![n] = "failing"] /\ err[n] # "none" /\ ~ cancelled
        /\ UNCHANGED <<got, err, errs, cancelled, own>>
    BY <1>11 DEF CheckContext, Overridden
  <2>2. SelectTypeOK'
    BY <1>1, <2>1 DEF SelectTypeOK
  <2>3. ReadInv'
    BY <1>3, <2>1 DEF SelectTypeOK, ReadInv
  <2>4. ErrorsInv'
    BY <2>1 DEF SelectTypeOK, ErrorsInv
  <2>5. CancelInv'
    BY <1>1, <2>1 DEF CancelInv
  <2> QED BY <2>2, <2>3, <2>4, <2>5
<1>12. ASSUME RecordError(n) PROVE Rest
  <2>1. /\ pc[n] = "failing" /\ pc' = [pc EXCEPT ![n] = "handled"]
        /\ errs' = [errs EXCEPT ![n] = err[n]]
        /\ cancelled => cancelled'
        /\ UNCHANGED <<got, err, own>>
    BY <1>12 DEF RecordError
  <2>2. SelectTypeOK'
    BY <1>1, <2>1 DEF SelectTypeOK
  <2>3. ReadInv'
    BY <1>3, <2>1 DEF SelectTypeOK, ReadInv
  <2>4. err[n] # "none" /\ own[n] = err[n]
    BY <2>1 DEF ErrorsInv
  <2>5. ErrorsInv'
    BY <2>1, <2>4 DEF SelectTypeOK, ErrorsInv
  <2>6. CancelInv'
    BY <2>1, <2>4 DEF SelectTypeOK, CancelInv
  <2> QED BY <2>2, <2>3, <2>5, <2>6
<1>13. Rest
  BY <1>8, <1>9, <1>10, <1>11, <1>12, Returns DEF NodeStep
<1> QED BY <1>2, <1>5, <1>7, <1>13 DEF SelectInv

(* getFirstError: "ok" to a request for all nodes means that none has an   *)
(* error, and an error is one of theirs.                                   *)
LEMMA FirstErrorIs ==
    ASSUME SelectTypeOK
    PROVE  /\ FirstError(errs) \in Errors \cup {"ok", "all"}
           /\ FirstError(errs) \in Errors => \E n \in Nodes : errs[n] = FirstError(errs)
           /\ FirstError(errs) = "ok" /\ ~ partial => \A n \in Nodes : errs[n] = "none"
<1> DEFINE D == {n \in Nodes : errs[n] # IF partial THEN "unavailable" ELSE "none"}
<1>1. CASE D = {}
  <2>1. FirstError(errs) = IF partial THEN "all" ELSE "ok"
    BY <1>1 DEF FirstError
  <2>2. ~ partial => \A n \in Nodes : errs[n] = "none"
    BY <1>1
  <2> QED BY <2>1, <2>2 DEF Errors
<1>2. CASE D # {}
  <2>1. Min(D) \in D
    <3>1. D \in SUBSET Nat
      BY NAssumption DEF Nodes
    <3> HIDE DEF D
    <3> QED BY <1>2, <3>1, MinIsLeast
  <2>2. FirstError(errs) = IF errs[Min(D)] = "none" THEN "ok" ELSE errs[Min(D)]
    BY <1>2 DEF FirstError
  <2>3. Min(D) \in Nodes /\ errs[Min(D)] \in Outcomes /\ (~ partial => errs[Min(D)] # "none")
    BY <2>1 DEF SelectTypeOK
  <2> HIDE DEF D
  <2> QED BY <2>2, <2>3 DEF Outcomes, Errors
<1> QED BY <1>1, <1>2

LEMMA CallerKeeps ==
    ASSUME Types, ServerInv, Client, StopQuery \/ Answer \/ UNCHANGED vars
    PROVE  SelectInv'
<1> USE DEF Types, Client
<1>1. UNCHANGED <<server, op, partial, pc, got, err, errs, own>>
  BY DEF StopQuery, Answer, vars, client
<1>2. ServerTypeOK' /\ ServerInv'
  BY <1>1, ClientKeepsServer
<1>3. ReadInv'
  BY <1>1 DEF ReadInv, server
<1>4. (cancelled => cancelled') /\ (answer # "none" => answer' = answer)
      /\ (answer # "none" \/ ~ StopQuery => stopped' = stopped)
  BY DEF StopQuery, Answer, vars, client
<1>5. ErrorsInv'
  BY <1>1, <1>4 DEF ErrorsInv
<1>6. FlagsTypeOK'
  <2>1. (cancelled' = cancelled \/ cancelled' = TRUE) /\ (stopped' = stopped \/ stopped' = TRUE)
    BY DEF StopQuery, Answer, vars, client
  <2> QED BY <1>1, <2>1, Zenon DEF FlagsTypeOK
<1>7. CASE StopQuery
  <2>1. stopped' /\ answer' = answer /\ answer = "none"
    BY <1>7 DEF StopQuery
  <2>2. SelectTypeOK'
    BY <1>1, <2>1 DEF SelectTypeOK
  <2>3. CancelInv' /\ AnswerInv'
    BY <1>1, <2>1 DEF CancelInv, AnswerInv, Errors
  <2> QED BY <1>2, <1>3, <1>5, <1>6, <2>2, <2>3 DEF SelectInv
<1>8. CASE Answer
  <2>1. /\ answer = "none" /\ answer' = FirstError(errs) /\ \A n \in Nodes : pc[n] = "handled"
        /\ stopped' = stopped
    BY <1>8 DEF Answer
  <2>2. answer' \in Errors \cup {"ok", "all"}
    BY <2>1, FirstErrorIs
  <2>3. SelectTypeOK'
    BY <1>1, <2>2 DEF SelectTypeOK
  <2>4. CancelInv'
    BY <2>2 DEF CancelInv, Errors
  <2>5. ASSUME FirstError(errs) = "ok", ~ partial, ~ stopped, NEW n \in Nodes
        PROVE  err[n] = "none"
    <3>1. \A m \in Nodes : errs[m] = "none"
      BY <2>5, FirstErrorIs
    <3>2. ~ cancelled
      BY <2>1, <2>5, <3>1 DEF CancelInv
    <3> QED BY <2>1, <3>1, <3>2 DEF ErrorsInv
  <2>6. AnswerInv'
    BY <1>1, <2>1, <2>5, FirstErrorIs DEF AnswerInv
  <2> QED BY <1>2, <1>3, <1>5, <1>6, <2>3, <2>4, <2>6 DEF SelectInv
<1>9. CASE UNCHANGED vars
  <2>1. UNCHANGED <<answer, cancelled, stopped>>
    BY <1>9 DEF vars, client
  <2>2. SelectTypeOK'
    BY <1>1, <2>1 DEF SelectTypeOK
  <2>3. CancelInv' /\ AnswerInv'
    BY <1>1, <2>1 DEF CancelInv, AnswerInv
  <2> QED BY <1>2, <1>3, <1>5, <1>6, <2>2, <2>3 DEF SelectInv
<1> QED BY <1>7, <1>8, <1>9

-----------------------------------------------------------------------------
(* Theorems.                                                               *)

(* The inductive invariant of a request: what each node has sent, what its *)
(* goroutine has read of it, and where every error has gone.               *)
THEOREM SelectInvariant == Spec => []SelectInv
<1>1. SelectInv /\ [Next]_vars => SelectInv'
  <2> SUFFICES ASSUME SelectInv, [Next]_vars PROVE SelectInv'
    OBVIOUS
  <2>1. Types /\ ServerInv /\ Client
    BY DEF SelectInv, Types, Client
  <2>2. ASSUME NEW n \in Nodes, HandlerStep(n) \/ NodeStep(n) PROVE SelectInv'
    BY <2>1, <2>2, HandlerKeeps, NodeKeeps
  <2>3. Next \/ UNCHANGED vars
    OBVIOUS
  <2> QED BY <2>1, <2>2, <2>3, CallerKeeps DEF Next
<1> QED BY InitInv, <1>1, PTL DEF Spec

(* However many nodes there are and in whichever order they fail, answer   *)
(* and are cancelled: without partial responses "ok" means that every node *)
(* was read to the end of a whole response.                                *)
THEOREM AnswersAreComplete == Spec => []CompleteOrError
<1>1. SelectInv => CompleteOrError
  BY DEF SelectInv, CompleteOrError, AnswerInv, ReadInv, ServerInv
<1> QED BY SelectInvariant, <1>1, PTL

(* An error that is reported is one that a node met while the context was  *)
(* alive, for full and partial responses alike.                            *)
THEOREM CausesAreReal == Spec => []CauseIsReal
<1>1. SelectInv => CauseIsReal
  BY DEF SelectInv, CauseIsReal, AnswerInv, ErrorsInv, Errors
<1> QED BY SelectInvariant, <1>1, PTL

-----------------------------------------------------------------------------
(* The values of a request.                                                *)

Values == DOMAIN Hits[1]

LEMMA SeenByType ==
    \A n \in Nodes :
        /\ SeenBy(n) \subseteq Values /\ DOMAIN Hits[n] = Values
        /\ IsFiniteSet(SeenBy(n)) /\ Cardinality(SeenBy(n)) \in Nat
        /\ \A v \in Values : Hits[n][v] \in Nat
        /\ \A v \in Values \ SeenBy(n) : Hits[n][v] = 0
<1>1. \A n \in Nodes : Hits[n] \in [Values -> Nat]
  BY HitsAssumption DEF Nodes, Values
<1>2. IsFiniteSet(Values)
  BY HitsAssumption DEF Values
<1> QED BY <1>1, <1>2, FS_Subset, FS_CardinalityType DEF SeenBy

(* A node whose answer has no value without hits has named all it has.     *)
LEMMA NoZeroMeansAll ==
    ASSUME NEW n \in Nodes, ~ HasZeroHits(ValuesOf(n))
    PROVE  ValuesOf(n) = [v \in SeenBy(n) |-> Hits[n][v]]
<1> SUFFICES ASSUME ~ (Cardinality(SeenBy(n)) <= Limit) PROVE FALSE
  BY DEF ValuesOf
<1> DEFINE K == CHOOSE S \in kSubset(Limit, SeenBy(n)) : TRUE
<1>1. Limit \in Nat \ {0} /\ Limit <= Cardinality(SeenBy(n))
  BY SeenByType, HitsAssumption
<1>2. \E S \in kSubset(Limit, SeenBy(n)) : TRUE
  BY <1>1, SeenByType, SubsetOfSize
<1>3. K \in kSubset(Limit, SeenBy(n))
  BY <1>2
<1>4. K # {}
  BY <1>1, <1>3, FS_EmptySet DEF kSubset
<1>5. ValuesOf(n) = [v \in K |-> 0]
  BY DEF ValuesOf
<1> HIDE DEF K
<1> QED BY <1>4, <1>5 DEF HasZeroHits

Total(v) == MapThenSumSet(LAMBDA n : Hits[n][v], Nodes)
SumOf(a, v) == MapThenSumSet(LAMBDA n : IF v \in DOMAIN a[n] THEN a[n][v] ELSE 0, Nodes)

(* Answers that leave no value out add up to the hits of all nodes.        *)
LEMMA SumIsTotal ==
    ASSUME NEW a, \A n \in Nodes : a[n] = [v \in SeenBy(n) |-> Hits[n][v]], NEW v \in Values
    PROVE  SumOf(a, v) = Total(v)
<1> DEFINE Summing(g) == g = [s \in SUBSET Nodes |->
                                 IF s = {} THEN 0
                                 ELSE (IF v \in DOMAIN a[Pick(s)] THEN a[Pick(s)][v] ELSE 0) + g[s \ {Pick(s)}]]
           Totalling(g) == g = [s \in SUBSET Nodes |->
                                 IF s = {} THEN 0 ELSE Hits[Pick(s)][v] + g[s \ {Pick(s)}]]
<1>1. /\ SumOf(a, v) = (CHOOSE g : Summing(g))[Nodes]
      /\ Total(v) = (CHOOSE g : Totalling(g))[Nodes]
  BY DEF SumOf, Total, MapThenSumSet, MapThenFoldSet, Pick
<1>2. \A n \in Nodes : (IF v \in DOMAIN a[n] THEN a[n][v] ELSE 0) = Hits[n][v]
  BY SeenByType
<1>3. \A s \in SUBSET Nodes : s # {} =>
         (IF v \in DOMAIN a[Pick(s)] THEN a[Pick(s)][v] ELSE 0) = Hits[Pick(s)][v]
  BY <1>2, PickIn
<1>4. ASSUME NEW g PROVE Summing(g) <=> Totalling(g)
  BY <1>3
<1> HIDE DEF Summing, Totalling
<1>5. (CHOOSE g : Summing(g)) = (CHOOSE g : Totalling(g))
  BY <1>4, Zenon
<1> QED BY <1>1, <1>5

(* The merged answer has no number that is neither "unknown" nor total.    *)
LEMMA MergedIsTotal ==
    ASSUME NEW a, \A n \in Nodes : a[n] = ValuesOf(n), NEW v \in DOMAIN MergeValuesWithHits(a)
    PROVE  MergeValuesWithHits(a)[v] \in {0, Total(v)}
<1> DEFINE all == UNION {DOMAIN a[n] : n \in Nodes}
           reset == (\E n \in Nodes : NeedReset(a[n])) \/ Cardinality(all) > Limit
           kept == IF Cardinality(all) > Limit THEN CHOOSE S \in kSubset(Limit, all) : TRUE ELSE all
           sum == [w \in all |-> SumOf(a, w)]
<1>1. MergeValuesWithHits(a) = [w \in kept |-> IF reset THEN 0 ELSE sum[w]]
  BY DEF MergeValuesWithHits, SumOf
<1>2. CASE reset
  BY <1>1, <1>2
<1>3. CASE ~ reset
  <2>1. \A n \in Nodes : a[n] = [w \in SeenBy(n) |-> Hits[n][w]]
    BY <1>3, NoZeroMeansAll DEF NeedReset
  <2>2. kept = all /\ v \in all /\ MergeValuesWithHits(a)[v] = SumOf(a, v)
    BY <1>1, <1>3
  <2>3. v \in Values
    BY <2>1, <2>2, SeenByType
  <2> QED BY <2>1, <2>2, <2>3, SumIsTotal
<1> QED BY <1>2, <1>3

(* When all nodes have answered, a reported number of hits is that of all  *)
(* of them together, for any number of nodes, values and any limit.        *)
THEOREM HitsAreSummed == Spec => []HitsAreTotal
<1>1. ASSUME SelectInv, op = "values", answer = "ok", ~ partial, ~ stopped, NEW v \in DOMAIN Merged
      PROVE  Merged[v] \in {0, Total(v)}
  <2> DEFINE a == [n \in Nodes |-> ValuesOf(n)]
  <2>1. [n \in Nodes |-> IF err[n] = "none" THEN ValuesOf(n) ELSE <<>>] = a
    BY <1>1 DEF SelectInv, AnswerInv
  <2>2. Merged = MergeValuesWithHits(a) /\ \A n \in Nodes : a[n] = ValuesOf(n)
    BY <2>1 DEF Merged
  <2> HIDE DEF a
  <2> QED BY <1>1, <2>2, MergedIsTotal
<1>2. SelectInv => HitsAreTotal
  BY <1>1 DEF HitsAreTotal, Total
<1> QED BY SelectInvariant, <1>2, PTL
=============================================================================
