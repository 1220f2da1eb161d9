---------------------- MODULE DocumentLifecycleProofs ----------------------
(***************************************************************************)
(* Safety of DocumentLifecycle for any number of calls, keys and tries.    *)
(***************************************************************************)
EXTENDS DocumentLifecycle, TLAPS

\* A step left everything kept of document e alone.
Same(e) ==
  /\ docs'[e] = docs[e]
  /\ pc'[e] = pc[e] /\ rpc'[e] = rpc[e] /\ key'[e] = key[e] /\ reply'[e] = reply[e]
  /\ job'[e] = job[e] /\ tries'[e] = tries[e] /\ run'[e] = run[e]
  /\ disturbed'[e] = disturbed[e]
  /\ Events(e)' = Events(e)
  /\ \A i \in Events(e) : outbox'[i] = outbox[i]

\* A step that leaves a document alone preserves what is known of it.
LEMMA Frame ==
  ASSUME NEW e \in DocId, DocInv(e), Same(e)
  PROVE  DocInv(e)'
<1> USE DEF Same, Present, Resolved
<1>1. CallInv(e)'
  BY DEF DocInv, CallInv, Untouched
<1>2. RowInv(e)'
  BY DEF DocInv, RowInv
<1>3. RunInv(e)'
  BY DEF DocInv, RunInv
<1>4. JobInv(e)'
  BY DEF DocInv, JobInv, Backed
<1>5. ReplyInv(e)'
  BY DEF DocInv, ReplyInv, Backed
<1>6. EventInv(e)'
  BY DEF DocInv, EventInv, Latest, Reports
<1>7. SoloInv(e)'
  BY DEF DocInv, SoloInv
<1> QED BY <1>1, <1>2, <1>3, <1>4, <1>5, <1>6, <1>7 DEF DocInv

\* What a commit does to the events of a document.
LEMMA AppendEvent ==
  ASSUME StoreTypeOK, NEW p \in Payload, outbox' = Append(outbox, p), NEW e \in DocId
  PROVE  /\ outbox' \in Seq(Payload)
         /\ Events(e)' = IF p.document_id = e THEN Events(e) \cup {Len(outbox) + 1} ELSE Events(e)
         /\ outbox'[Len(outbox) + 1] = p
         /\ \A i \in Events(e) : i \in Nat /\ i < Len(outbox) + 1 /\ outbox'[i] = outbox[i]
BY DEF StoreTypeOK, Events

\* What a move of one run does: it has the new value, every other run is as it
\* was.
OnlyRun(d, n, r) ==
  /\ r \in Run
  /\ run' \in [DocId -> [Attempt -> Run]]
  /\ run'[d][n] = r
  /\ \A m \in Attempt : m # n => run'[d][m] = run[d][m]
  /\ \A e \in DocId : e # d => run'[e] = run[e]

LEMMA RunMoves ==
  ASSUME run \in [DocId -> [Attempt -> Run]], NEW d \in DocId, NEW n \in Attempt, NEW l \in RunPC
  PROVE  /\ Reset(d, n, l) => OnlyRun(d, n, RunAt(l))
         /\ RunGoto(d, n, l) =>
              OnlyRun(d, n, [pc |-> l, key |-> run[d][n].key, out |-> run[d][n].out])
         /\ \A k \in Key \cup {NULL} : Hold(d, n, l, k) =>
              OnlyRun(d, n, [pc |-> l, key |-> k, out |-> "none"])
         /\ \A o \in Outcome : Decide(d, n, l, o) =>
              OnlyRun(d, n, [pc |-> l, key |-> run[d][n].key, out |-> o])
<1>1. run[d][n] \in Run
  OBVIOUS
<1>2. ASSUME NEW r \in Run, run' = [run EXCEPT ![d][n] = r]
      PROVE  OnlyRun(d, n, r)
  BY <1>2 DEF OnlyRun
<1>3. RunAt(l) \in Run
  BY DEF RunAt, Run
<1>4. ASSUME RunGoto(d, n, l)
      PROVE  OnlyRun(d, n, [pc |-> l, key |-> run[d][n].key, out |-> run[d][n].out])
  <2>1. [run[d][n] EXCEPT !.pc = l] = [pc |-> l, key |-> run[d][n].key, out |-> run[d][n].out]
    BY <1>1 DEF Run
  <2>2. [pc |-> l, key |-> run[d][n].key, out |-> run[d][n].out] \in Run
    BY <1>1 DEF Run
  <2>3. run' = [run EXCEPT ![d][n] = [run[d][n] EXCEPT !.pc = l]]
    BY <1>4 DEF RunGoto
  <2> QED BY <1>2, <2>1, <2>2, <2>3
<1>5. ASSUME NEW o \in Outcome, Decide(d, n, l, o)
      PROVE  OnlyRun(d, n, [pc |-> l, key |-> run[d][n].key, out |-> o])
  <2>1. [pc |-> l, key |-> run[d][n].key, out |-> o] \in Run
    BY <1>1 DEF Run
  <2>2. run' = [run EXCEPT ![d][n] = [pc |-> l, key |-> run[d][n].key, out |-> o]]
    BY <1>5 DEF Decide
  <2> QED BY <1>2, <2>1, <2>2
<1>6. ASSUME NEW k \in Key \cup {NULL}, Hold(d, n, l, k)
      PROVE  OnlyRun(d, n, [pc |-> l, key |-> k, out |-> "none"])
  <2>1. [pc |-> l, key |-> k, out |-> "none"] \in Run
    BY DEF Run
  <2> QED BY <1>2, <1>6, <2>1 DEF Hold
<1> QED BY <1>2, <1>3, <1>4, <1>5, <1>6 DEF Reset

-----------------------------------------------------------------------------
(* Types *)

\* The envelope of an outcome has the type of a payload.
LEMMA EnvelopeType ==
  ASSUME NEW d \in DocId, NEW k \in Key, NEW status,
         NEW result \in Result \cup {"null"}, NEW error \in Error \cup {"null"},
         status \in {"completed", "needs_review"} => result \in Result
  PROVE  build_envelope(d, k, status, result, error) \in Payload
BY DEF build_envelope, Payload

\* finish_document keeps the tables well typed.
LEMMA FinishType ==
  ASSUME StoreTypeOK, NEW d \in DocId, NEW status \in Terminal,
         NEW result \in Result \cup {"null"}, NEW error \in Error \cup {"null"},
         NEW payload \in Payload,
         finish_document(d, status, result, error, payload)
  PROVE  StoreTypeOK'
<1>1. outbox' \in Seq(Payload)
  BY DEF finish_document, StoreTypeOK
<1>2. docs' \in [DocId -> Row \cup {NoRow}]
  <2>1. CASE Present(d)
    <3>1. docs[d] \in Row
      BY <2>1 DEF StoreTypeOK, Present, NoRow
    <3>2. [key |-> docs[d].key, status |-> status, result |-> result, error |-> error] \in Row
      BY <3>1 DEF Row
    <3> QED BY <2>1, <3>2 DEF finish_document, StoreTypeOK
  <2>2. CASE ~Present(d)
    BY <2>2 DEF finish_document, StoreTypeOK
  <2> QED BY <2>1, <2>2
<1> QED BY <1>1, <1>2 DEF StoreTypeOK

\* What a handler answers has the type of a reply.
LEMMA ReplyType ==
  ASSUME TypeOK
  PROVE  /\ \A code \in Code : \A id \in DocId \cup {NULL} : Answer(code, id) \in Reply
         /\ \A d \in DocId : Present(d) => ResponseFor(d) \in Reply
<1>1. \A code \in Code : \A id \in DocId \cup {NULL} : Answer(code, id) \in Reply
  BY DEF Answer, Reply
<1>2. ASSUME NEW d \in DocId, Present(d)
      PROVE  ResponseFor(d) \in Reply
  <2>1. docs[d] \in Row
    BY <1>2 DEF TypeOK, StoreTypeOK, Present, NoRow
  <2> QED BY <2>1 DEF ResponseFor, Reply, Row, Code, Error
<1> QED BY <1>1, <1>2

\* A row that passes the unique index is well typed.
LEMMA InsertType ==
  ASSUME StoreTypeOK, NEW d \in DocId, NEW k \in Key, submit_document(d, k)
  PROVE  StoreTypeOK'
<1>1. [key |-> k, status |-> "queued", result |-> "null", error |-> "null"] \in Row
  BY DEF Row, Processable
<1> QED BY <1>1 DEF submit_document, StoreTypeOK

\* Steps of a handler.
LEMMA CallType ==
  ASSUME IInv, NEW c \in DocId, Call(c)
  PROVE  TypeOK'
<1> USE NullAssumption, MaxTriesAssumption DEF IInv, TypeOK, Goto, Done, storeVars, jobVars
<1>0. CallInv(c) /\ RowInv(c) /\ 0 \in Attempt
  BY DEF DocInv, Attempt
<1>1. ASSUME NEW m \in Method, NEW k \in Key, NEW r \in Request, Receive(c, m, k, r)
      PROVE  TypeOK'
  <2>1. Answer(Admission(m, r), NULL) \in Reply
    BY ReplyType DEF Admission, Code
  <2>2. StoreTypeOK'
    BY <1>1 DEF Receive, StoreTypeOK
  <2>3. rpc' \in [DocId -> Method \cup {"none"}]
    BY <1>1 DEF Receive
  <2>4. pc' \in [DocId -> CallPC] /\ reply' \in [DocId -> Reply]
    <3>1. CASE Admission(m, r) = "OK"
      BY <1>1, <3>1 DEF Receive, CallPC
    <3>2. CASE Admission(m, r) # "OK"
      <4>1. /\ pc' = [pc EXCEPT ![c] = "done"]
            /\ reply' = [reply EXCEPT ![c] = Answer(Admission(m, r), NULL)]
        BY <1>1, <3>2 DEF Receive
      <4>2. pc' \in [DocId -> CallPC]
        BY <4>1 DEF CallPC
      <4>3. reply' \in [DocId -> Reply]
        BY <2>1, <4>1
      <4> QED BY <4>2, <4>3
    <3> QED BY <3>1, <3>2
  <2>5. key' \in [DocId -> Key \cup {NULL}]
    BY <1>1 DEF Receive
  <2> QED BY <1>1, <2>2, <2>3, <2>4, <2>5 DEF Receive
<1>2. CASE Insert(c)
  <2>1. StoreTypeOK'
    BY <1>0, <1>2, InsertType DEF Insert, CallInv
  <2>2. run' \in [DocId -> [Attempt -> Run]]
    BY <1>0, <1>2, RunMoves DEF OnlyRun, Insert, RunPC
  <2> QED BY <1>2, <2>1, <2>2 DEF Insert, CallPC
<1>3. CASE InsertConflict(c)
  BY <1>3 DEF InsertConflict, StoreTypeOK, CallPC
<1>4. CASE Lookup(c)
  <2>0. \E a \in Reply : reply' = [reply EXCEPT ![c] = a]
    <3>1. \A id \in DocId \cup {NULL} :
            Answer("ALREADY_EXISTS", id) \in Reply /\ Answer("VANISHED", id) \in Reply
      BY ReplyType DEF Code
    <3>2. \A d \in DocId : Present(d) => ResponseFor(d) \in Reply
      BY ReplyType
    <3> QED BY ONLY <1>4, <3>1, <3>2 DEF Lookup, Done
  <2>1. reply' \in [DocId -> Reply]
    BY <2>0
  <2> QED BY <1>4, <2>1 DEF Lookup, StoreTypeOK, CallPC
<1>5. CASE EnqueueAccepted(c)
  BY <1>5 DEF EnqueueAccepted, StoreTypeOK, CallPC
<1>6. CASE SubmitOK(c)
  BY <1>6 DEF SubmitOK, StoreTypeOK, CallPC, Answer, Reply, Code, Processable
<1>7. CASE EnqueueRaises(c)
  BY <1>7 DEF EnqueueRaises, StoreTypeOK, CallPC
<1>8. CASE Rollback(c)
  BY <1>8 DEF Rollback, delete_document, StoreTypeOK, CallPC
<1>13. CASE Refuse(c)
  <2>1. reply' \in [DocId -> Reply]
    BY <1>13, ReplyType DEF Refuse, Code
  <2> QED BY <1>13, <2>1 DEF Refuse, StoreTypeOK, CallPC
<1>9. CASE InlineEnds(c)
  <2>1. Answer("INTERNAL", NULL) \in Reply
    BY ReplyType DEF Code
  <2>2. pc' \in [DocId -> CallPC] /\ reply' \in [DocId -> Reply]
    <3>1. CASE run[c][0].pc = "ok"
      BY <1>9, <3>1 DEF InlineEnds, CallPC
    <3>2. CASE run[c][0].pc = "cancelled"
      BY <1>9, <3>2 DEF InlineEnds, CallPC
    <3>3. CASE run[c][0].pc = "raised"
      BY <1>9, <2>1, <3>3 DEF InlineEnds, CallPC
    <3> QED BY <1>9, <3>1, <3>2, <3>3 DEF InlineEnds, Ended
  <2> QED BY <1>9, <2>2 DEF InlineEnds, StoreTypeOK
<1>10. CASE Reread(c)
  <2>1. reply' \in [DocId -> Reply]
    BY <1>10, ReplyType DEF Reread, Code
  <2> QED BY <1>10, <2>1 DEF Reread, StoreTypeOK, CallPC
<1>11. CASE MarkCancelled(c)
  <2>1. StoreTypeOK'
    <3>1. CASE UNCHANGED storeVars
      BY <3>1 DEF StoreTypeOK
    <3>2. CASE Present(c) /\ finish_document(c, "failed", "null", "cancelled",
                   build_envelope(c, docs[c].key, "failed", "null", "cancelled"))
      <4>1. build_envelope(c, docs[c].key, "failed", "null", "cancelled") \in Payload
        BY <3>2, <1>0, EnvelopeType DEF RowInv, Error
      <4> QED BY <3>2, <4>1, FinishType DEF Error, Terminal
    <3> QED BY <1>11, <3>1, <3>2 DEF MarkCancelled
  <2>2. reply' \in [DocId -> Reply]
    BY <1>11, ReplyType DEF MarkCancelled, Code
  <2> QED BY <1>11, <2>1, <2>2 DEF MarkCancelled, CallPC
<1>12. CASE Abandon(c)
  <2>1. run' \in [DocId -> [Attempt -> Run]]
    BY <1>0, <1>12, RunMoves DEF OnlyRun, Abandon, RunPC
  <2> QED BY <1>12, <2>1 DEF Abandon, StoreTypeOK, CallPC
<1> QED
  BY <1>1, <1>2, <1>3, <1>4, <1>5, <1>6, <1>7, <1>8, <1>9, <1>10, <1>11, <1>12, <1>13 DEF Call

\* Steps of a run.
LEMMA RunType ==
  ASSUME IInv, NEW d \in DocId, NEW n \in Attempt, RunStep(d, n)
  PROVE  TypeOK'
<1> USE NullAssumption DEF IInv, TypeOK, storeVars, jobVars, callVars
<1>0. run[d][n] \in Run /\ RunInv(d) /\ docs[d] \in Row \cup {NoRow}
  BY DEF DocInv, StoreTypeOK
<1>1. CASE Load(d, n)
  <2>1. docs[d].key \in Key \cup {NULL}
    BY <1>0 DEF Row, NoRow
  <2>2. run' \in [DocId -> [Attempt -> Run]]
    BY <1>1, <2>1, RunMoves DEF OnlyRun, Load, RunPC
  <2> QED BY <1>1, <2>2 DEF Load, StoreTypeOK
<1>2. CASE Mark(d, n)
  <2>1. run' \in [DocId -> [Attempt -> Run]]
    BY <1>2, RunMoves DEF OnlyRun, Mark, RunPC
  <2>2. StoreTypeOK'
    <3>1. CASE docs[d].status = "queued"
      <4>1. docs[d] \in Row
        BY <1>0, <3>1 DEF NoRow
      <4>2. [docs[d] EXCEPT !.status = "processing"] \in Row
        BY <4>1 DEF Row, Processable
      <4> QED BY <1>2, <3>1, <4>2 DEF Mark, mark_processing, StoreTypeOK
    <3>2. CASE docs[d].status # "queued"
      BY <1>2, <3>2 DEF Mark, mark_processing, StoreTypeOK
    <3> QED BY <3>1, <3>2
  <2> QED BY <1>2, <2>1, <2>2 DEF Mark
<1>3. CASE Work(d, n)
  <2>1. run' \in [DocId -> [Attempt -> Run]]
    BY <1>3, RunMoves DEF OnlyRun, Work, RunPC, Outcome
  <2> QED BY <1>3, <2>1 DEF Work, StoreTypeOK
<1>4. CASE Finish(d, n)
  <2>1. run' \in [DocId -> [Attempt -> Run]]
    BY <1>4, RunMoves DEF OnlyRun, Finish, RunPC
  <2>2. run[d][n].key \in Key /\ run[d][n].out \in Result
    BY <1>0, <1>4 DEF Finish, RunInv, Live
  <2>3. StatusOf(run[d][n].out) \in {"completed", "needs_review"}
    BY DEF StatusOf
  <2>4. build_envelope(d, run[d][n].key, StatusOf(run[d][n].out), run[d][n].out, "null") \in Payload
    BY <2>2, <2>3, EnvelopeType
  <2>5. StatusOf(run[d][n].out) \in Terminal
    BY <2>3 DEF Terminal
  <2>6. StoreTypeOK'
    BY <1>4, <2>2, <2>4, <2>5, FinishType DEF Finish
  <2> QED BY <1>4, <2>1, <2>6 DEF Finish
<1>5. CASE Fail(d, n)
  <2>1. run' \in [DocId -> [Attempt -> Run]]
    BY <1>5, RunMoves DEF OnlyRun, Fail, RunPC
  <2>2. run[d][n].key \in Key /\ run[d][n].out \in Error
    BY <1>0, <1>5 DEF Fail, RunInv, Live, Error
  <2>3. build_envelope(d, run[d][n].key, "failed", "null", run[d][n].out) \in Payload
    BY <2>2, EnvelopeType
  <2>4. StoreTypeOK'
    BY <1>5, <2>2, <2>3, FinishType DEF Fail, Terminal
  <2> QED BY <1>5, <2>1, <2>4 DEF Fail
<1>6. CASE Return(d, n)
  <2>1. run' \in [DocId -> [Attempt -> Run]]
    BY <1>6, RunMoves DEF OnlyRun, Return, RunPC
  <2> QED BY <1>6, <2>1 DEF Return, StoreTypeOK
<1>7. CASE Raise(d, n)
  <2>1. run' \in [DocId -> [Attempt -> Run]]
    BY <1>7, RunMoves DEF OnlyRun, Raise, RunPC, Outcome
  <2> QED BY <1>7, <2>1 DEF Raise, StoreTypeOK
<1>8. CASE Cancel(d, n)
  <2>1. run' \in [DocId -> [Attempt -> Run]]
    BY <1>8, RunMoves DEF OnlyRun, Cancel, RunPC
  <2> QED BY <1>8, <2>1 DEF Cancel, StoreTypeOK
<1>9. CASE Crash(d, n)
  <2>1. run' \in [DocId -> [Attempt -> Run]]
    BY <1>9, RunMoves DEF OnlyRun, Crash, RunPC
  <2> QED BY <1>9, <2>1 DEF Crash, StoreTypeOK
<1> QED
  BY <1>1, <1>2, <1>3, <1>4, <1>5, <1>6, <1>7, <1>8, <1>9 DEF RunStep, Progress

\* Steps of SAQ.
LEMMA SaqType ==
  ASSUME IInv, NEW d \in DocId, Saq(d)
  PROVE  TypeOK'
<1> USE MaxTriesAssumption DEF IInv, TypeOK, storeVars, callVars, Requeue
<1>1. CASE Dequeue(d)
  <2>1. tries[d] + 1 \in Attempt
    BY <1>1 DEF Dequeue, Attempt
  <2>2. run' \in [DocId -> [Attempt -> Run]]
    BY <1>1, <2>1, RunMoves DEF OnlyRun, Dequeue, RunPC
  <2> QED BY <1>1, <2>1, <2>2 DEF Dequeue, StoreTypeOK
<1>2. CASE Sweep(d)
  BY <1>2 DEF Sweep, StoreTypeOK
<1>3. ASSUME NEW n \in Attempt, Ack(d, n)
      PROVE  TypeOK'
  <2>1. run' \in [DocId -> [Attempt -> Run]]
    BY <1>3, RunMoves DEF OnlyRun, Ack, RunPC
  <2>2. job' \in [DocId -> {"none", "queued", "active", "done", "exhausted"}]
    BY <1>3 DEF Ack
  <2> QED BY <1>3, <2>1, <2>2 DEF Ack, StoreTypeOK
<1> QED BY <1>1, <1>2, <1>3 DEF Saq

-----------------------------------------------------------------------------
(* A step of one document leaves the others alone *)

LEMMA EventsKept ==
  ASSUME outbox' = outbox, NEW e \in DocId
  PROVE  Events(e)' = Events(e) /\ \A i \in Events(e) : outbox'[i] = outbox[i]
BY DEF Events

\* What finish_document does to its document and to the others.
LEMMA Commit ==
  ASSUME StoreTypeOK, NEW d \in DocId, NEW status, NEW result, NEW error,
         NEW payload \in Payload, payload.document_id = d,
         finish_document(d, status, result, error, payload)
  PROVE  /\ \A e \in DocId : e # d =>
              /\ docs'[e] = docs[e]
              /\ Events(e)' = Events(e)
              /\ \A i \in Events(e) : outbox'[i] = outbox[i]
         /\ docs'[d] = IF Present(d)
                       THEN [key |-> docs[d].key, status |-> status,
                             result |-> result, error |-> error]
                       ELSE docs[d]
         /\ Events(d)' = Events(d) \cup {Len(outbox) + 1}
         /\ outbox'[Len(outbox) + 1] = payload
         /\ Len(outbox) + 1 \in Nat
         /\ \A i \in Events(d) : i \in Nat /\ i < Len(outbox) + 1 /\ outbox'[i] = outbox[i]
<1>1. outbox' = Append(outbox, payload) /\ Len(outbox) + 1 \in Nat
  BY DEF finish_document, StoreTypeOK
<1>2. \A e \in DocId :
        /\ Events(e)' = IF e = d THEN Events(e) \cup {Len(outbox) + 1} ELSE Events(e)
        /\ outbox'[Len(outbox) + 1] = payload
        /\ \A i \in Events(e) : i \in Nat /\ i < Len(outbox) + 1 /\ outbox'[i] = outbox[i]
  BY <1>1, AppendEvent
<1>3. /\ \A e \in DocId : e # d => docs'[e] = docs[e]
      /\ docs'[d] = IF Present(d)
                    THEN [key |-> docs[d].key, status |-> status,
                          result |-> result, error |-> error]
                    ELSE docs[d]
  BY DEF finish_document, StoreTypeOK
<1> QED BY <1>1, <1>2, <1>3

LEMMA CallOthers ==
  ASSUME IInv, NEW c \in DocId, Call(c), NEW e \in DocId, e # c
  PROVE  Same(e)
<1> USE DEF IInv, TypeOK, Goto, Done, storeVars, jobVars, Same
<1>0. CallInv(c) /\ RowInv(c) /\ 0 \in Attempt
  BY MaxTriesAssumption DEF DocInv, Attempt
<1>1. ASSUME NEW m \in Method, NEW k \in Key, NEW r \in Request, Receive(c, m, k, r)
      PROVE  Same(e)
  <2>1. outbox' = outbox
    BY <1>1 DEF Receive
  <2> QED BY <1>1, <2>1, EventsKept DEF Receive
<1>2. CASE Insert(c)
  <2>1. outbox' = outbox
    BY <1>2 DEF Insert, submit_document
  <2>2. docs'[e] = docs[e]
    BY <1>2 DEF Insert, submit_document, StoreTypeOK
  <2>3. run'[e] = run[e]
    BY <1>2 DEF Insert, Reset
  <2> QED BY <1>2, <2>1, <2>2, <2>3, EventsKept DEF Insert
<1>3. CASE InsertConflict(c)
  BY <1>3, EventsKept DEF InsertConflict
<1>4. CASE Lookup(c)
  BY <1>4, EventsKept DEF Lookup
<1>5. CASE EnqueueAccepted(c)
  BY <1>5, EventsKept DEF EnqueueAccepted
<1>6. CASE SubmitOK(c)
  BY <1>6, EventsKept DEF SubmitOK
<1>7. CASE EnqueueRaises(c)
  BY <1>7, EventsKept DEF EnqueueRaises
<1>8. CASE Rollback(c)
  <2>1. outbox' = outbox /\ docs'[e] = docs[e]
    BY <1>8 DEF Rollback, delete_document, StoreTypeOK
  <2> QED BY <1>8, <2>1, EventsKept DEF Rollback
<1>13. CASE Refuse(c)
  BY <1>13, EventsKept DEF Refuse
<1>9. CASE InlineEnds(c)
  BY <1>9, EventsKept DEF InlineEnds, Ended
<1>10. CASE Reread(c)
  BY <1>10, EventsKept DEF Reread
<1>11. CASE MarkCancelled(c)
  <2>1. /\ docs'[e] = docs[e]
        /\ Events(e)' = Events(e)
        /\ \A i \in Events(e) : outbox'[i] = outbox[i]
    <3> DEFINE p == build_envelope(c, docs[c].key, "failed", "null", "cancelled")
    <3>1. CASE UNCHANGED storeVars
      BY <3>1, EventsKept
    <3>2. CASE Present(c) /\ finish_document(c, "failed", "null", "cancelled", p)
      <4>1. p \in Payload
        BY <3>2, <1>0, EnvelopeType DEF RowInv, Error
      <4>2. p.document_id = c
        BY DEF build_envelope
      <4> QED BY <3>2, <4>1, <4>2, Commit
    <3> QED BY <1>11, <3>1, <3>2 DEF MarkCancelled
  <2> QED BY <1>11, <2>1 DEF MarkCancelled
<1>12. CASE Abandon(c)
  <2>1. run'[e] = run[e]
    BY <1>12 DEF Abandon, Reset
  <2> QED BY <1>12, <2>1, EventsKept DEF Abandon
<1> QED
  BY <1>1, <1>2, <1>3, <1>4, <1>5, <1>6, <1>7, <1>8, <1>9, <1>10, <1>11, <1>12, <1>13 DEF Call

LEMMA RunOthers ==
  ASSUME IInv, NEW d \in DocId, NEW n \in Attempt, RunStep(d, n), NEW e \in DocId, e # d
  PROVE  Same(e)
<1> USE DEF IInv, TypeOK, storeVars, jobVars, callVars, Same
<1>0. run[d][n] \in Run /\ RunInv(d) /\ docs[d].key \in Key \cup {NULL}
  BY DEF DocInv, StoreTypeOK, Row, NoRow
<1>1. CASE Load(d, n)
  <2>1. run'[e] = run[e]
    BY <1>1 DEF Load, Hold, Reset
  <2> QED BY <1>1, <2>1, EventsKept DEF Load
<1>2. CASE Mark(d, n)
  <2>1. run'[e] = run[e]
    BY <1>2 DEF Mark, RunGoto
  <2>2. outbox' = outbox /\ docs'[e] = docs[e]
    BY <1>2 DEF Mark, mark_processing, StoreTypeOK
  <2> QED BY <1>2, <2>1, <2>2, EventsKept DEF Mark
<1>3. CASE Work(d, n)
  <2>1. run'[e] = run[e]
    BY <1>3 DEF Work, Decide, Reset
  <2> QED BY <1>3, <2>1, EventsKept DEF Work
<1>4. CASE Finish(d, n)
  <2> DEFINE p == build_envelope(d, run[d][n].key, StatusOf(run[d][n].out), run[d][n].out, "null")
  <2>1. run'[e] = run[e]
    BY <1>4 DEF Finish, RunGoto
  <2>2. run[d][n].key \in Key /\ run[d][n].out \in Result
    BY <1>0, <1>4 DEF Finish, RunInv, Live
  <2>3. p \in Payload /\ p.document_id = d
    BY <2>2, EnvelopeType DEF StatusOf, build_envelope
  <2>4. /\ docs'[e] = docs[e]
        /\ Events(e)' = Events(e)
        /\ \A i \in Events(e) : outbox'[i] = outbox[i]
    BY <1>4, <2>3, Commit DEF Finish
  <2> QED BY <1>4, <2>1, <2>4 DEF Finish
<1>5. CASE Fail(d, n)
  <2> DEFINE p == build_envelope(d, run[d][n].key, "failed", "null", run[d][n].out)
  <2>1. run'[e] = run[e]
    BY <1>5 DEF Fail, RunGoto
  <2>2. run[d][n].key \in Key /\ run[d][n].out \in Error
    BY <1>0, <1>5 DEF Fail, RunInv, Live, Error
  <2>3. p \in Payload /\ p.document_id = d
    <3>1. p.document_id = d
      BY ONLY TRUE DEF build_envelope
    <3>2. "failed" \notin {"completed", "needs_review"}
      OBVIOUS
    <3> QED BY ONLY d \in DocId, <2>2, <3>1, <3>2, EnvelopeType
  <2>4. /\ docs'[e] = docs[e]
        /\ Events(e)' = Events(e)
        /\ \A i \in Events(e) : outbox'[i] = outbox[i]
    <3>1. finish_document(d, "failed", "null", run[d][n].out, p)
      BY ONLY <1>5 DEF Fail
    <3> HIDE DEF p
    <3> QED BY <2>3, <3>1, Commit
  <2> QED BY <1>5, <2>1, <2>4 DEF Fail
<1>6. CASE Return(d, n)
  <2>1. run'[e] = run[e]
    BY <1>6 DEF Return, Reset
  <2> QED BY <1>6, <2>1, EventsKept DEF Return
<1>7. CASE Raise(d, n)
  <2>1. run'[e] = run[e]
    BY <1>7 DEF Raise, Decide, Reset
  <2> QED BY <1>7, <2>1, EventsKept DEF Raise
<1>8. CASE Cancel(d, n)
  <2>1. run'[e] = run[e]
    BY <1>8 DEF Cancel, Reset
  <2> QED BY <1>8, <2>1, EventsKept DEF Cancel
<1>9. CASE Crash(d, n)
  <2>1. run'[e] = run[e]
    BY <1>9 DEF Crash, Reset
  <2> QED BY <1>9, <2>1, EventsKept DEF Crash
<1> QED
  BY <1>1, <1>2, <1>3, <1>4, <1>5, <1>6, <1>7, <1>8, <1>9 DEF RunStep, Progress

LEMMA SaqOthers ==
  ASSUME IInv, NEW d \in DocId, Saq(d), NEW e \in DocId, e # d
  PROVE  Same(e)
<1> USE DEF IInv, TypeOK, storeVars, callVars, Same, Requeue
<1>1. CASE Dequeue(d)
  <2>1. tries[d] + 1 \in Attempt
    BY <1>1, MaxTriesAssumption DEF Dequeue, Attempt
  <2>2. run'[e] = run[e]
    BY <1>1 DEF Dequeue, Reset
  <2> QED BY <1>1, <2>2, EventsKept DEF Dequeue
<1>2. CASE Sweep(d)
  BY <1>2, EventsKept DEF Sweep
<1>3. ASSUME NEW n \in Attempt, Ack(d, n)
      PROVE  Same(e)
  <2>1. run'[e] = run[e]
    BY <1>3 DEF Ack, Reset
  <2> QED BY <1>3, <2>1, EventsKept DEF Ack
<1> QED BY <1>1, <1>2, <1>3 DEF Saq

-----------------------------------------------------------------------------
(* A step of a handler preserves what is known of its document *)

\* A step that touches nothing but where the handler stands and what it has
\* answered.
LEMMA AnswerStep ==
  ASSUME IInv, NEW c \in DocId, NEW l, NEW r,
         UNCHANGED <<storeVars, rpc, key, jobVars, run, disturbed>>,
         pc' = [pc EXCEPT ![c] = l], reply' = [reply EXCEPT ![c] = r],
         CallInv(c)', ReplyInv(c)',
         l = "enqueued" => pc[c] = "enqueued",
         l # "run" => run[c][0].pc \notin Live,
         l = "run" => pc[c] = "run",
         l = "cancelled" => pc[c] = "cancelled" \/ (pc[c] = "run" /\ run[c][0].pc = "cancelled")
  PROVE  DocInv(c)'
<1> USE DEF storeVars, jobVars, Present, Resolved
<1>1. DocInv(c) /\ pc'[c] = l
  BY DEF IInv, TypeOK
<1>2. Events(c)' = Events(c) /\ outbox' = outbox
  BY EventsKept
<1>3. RowInv(c)'
  BY <1>1 DEF DocInv, RowInv
<1>4. RunInv(c)'
  BY <1>1 DEF DocInv, RunInv
<1>5. JobInv(c)'
  BY <1>1 DEF DocInv, JobInv, Backed
<1>6. EventInv(c)'
  BY <1>1, <1>2 DEF DocInv, EventInv, Latest
<1>7. SoloInv(c)'
  BY <1>1, <1>2 DEF DocInv, SoloInv
<1> QED BY <1>3, <1>4, <1>5, <1>6, <1>7 DEF DocInv

\* While the handler is not awaiting its run, that run is not going on.
LEMMA NoInlineRun ==
  ASSUME IInv, NEW c \in DocId, pc[c] # "run"
  PROVE  run[c][0].pc \notin Live
<1>1. RunInv(c) /\ 0 \in Attempt
  BY MaxTriesAssumption DEF IInv, DocInv, Attempt
<1> QED BY <1>1 DEF RunInv

\* The answers to a call that wrote nothing, or is over.
LEMMA HandlerAnswers ==
  ASSUME IInv, NEW c \in DocId,
         \/ InsertConflict(c) \/ Lookup(c) \/ SubmitOK(c) \/ EnqueueRaises(c)
         \/ Refuse(c) \/ InlineEnds(c) \/ Reread(c)
  PROVE  DocInv(c)'
<1> USE NullAssumption DEF Goto, Done, storeVars, jobVars
<1>0. /\ DocInv(c) /\ CallInv(c) /\ RowInv(c) /\ RunInv(c) /\ JobInv(c) /\ ReplyInv(c)
      /\ TypeOK /\ 0 \in Attempt /\ c # NULL
  BY MaxTriesAssumption DEF IInv, DocInv, Attempt
<1>1. CASE InsertConflict(c)
  <2>1. pc' = [pc EXCEPT ![c] = "lookup"] /\ reply' = [reply EXCEPT ![c] = reply[c]]
    BY <1>0, <1>1 DEF InsertConflict, TypeOK
  <2>2. CallInv(c)' /\ ReplyInv(c)'
    BY <1>0, <1>1, <2>1 DEF InsertConflict, CallInv, ReplyInv, Untouched, Present, Resolved, Backed, Events, TypeOK
  <2> QED BY <1>1, <2>1, <2>2, AnswerStep, NoInlineRun DEF InsertConflict
<1>2. CASE Lookup(c)
  <2>0. /\ pc' = [pc EXCEPT ![c] = "done"] /\ reply' = [reply EXCEPT ![c] = reply'[c]]
        /\ reply'[c].document_id # c
        /\ rpc[c] = "Submit" => reply'[c].code # "OK"
    <3>1. ~Present(c)
      BY <1>0, <1>2 DEF Lookup, CallInv, Untouched
    <3>2. CASE ~KeyTaken(key[c])
      BY <1>0, <1>2, <3>2 DEF Lookup, Answer, KeyTaken, TypeOK
    <3>3. CASE KeyTaken(key[c])
      <4>1. PICK d \in DocId : /\ Present(d)
                              /\ Done(c, IF rpc[c] = "Submit" THEN Answer("ALREADY_EXISTS", d)
                                                              ELSE ResponseFor(d))
        BY <1>2, <3>3 DEF Lookup
      <4>2. d # c
        BY <3>1, <4>1
      <4>3. CASE rpc[c] = "Submit"
        BY <1>0, <4>1, <4>2, <4>3 DEF Answer, TypeOK
      <4>4. CASE rpc[c] # "Submit"
        BY <1>0, <4>1, <4>2, <4>4 DEF ResponseFor, TypeOK
      <4> QED BY <4>3, <4>4
    <3> QED BY <3>2, <3>3
  <2>1. pc'[c] = "done"
    BY <1>0, <2>0 DEF TypeOK
  <2>2. CallInv(c)'
    BY <1>0, <1>2, <2>1 DEF Lookup, CallInv
  <2>3. ReplyInv(c)'
    BY <1>0, <1>2, <2>0, <2>1 DEF Lookup, ReplyInv
  <2> QED BY <1>2, <2>0, <2>2, <2>3, AnswerStep, NoInlineRun DEF Lookup
<1>3. CASE SubmitOK(c)
  <2> DEFINE r == [Answer("OK", c) EXCEPT !.status = "queued"]
  <2>1. r.code = "OK" /\ r.document_id = c
    BY DEF Answer
  <2>2. pc'[c] = "done" /\ reply'[c] = r
    BY <1>0, <1>3 DEF SubmitOK, TypeOK
  <2>3. CallInv(c)'
    BY <1>0, <1>3, <2>2 DEF SubmitOK, CallInv
  <2>4. ReplyInv(c)'
    BY <1>0, <1>3, <2>1, <2>2 DEF SubmitOK, ReplyInv, CallInv, JobInv, Backed, Present, Resolved
  <2> QED BY <1>3, <2>3, <2>4, AnswerStep, NoInlineRun DEF SubmitOK
<1>4. CASE EnqueueRaises(c)
  <2>1. pc' = [pc EXCEPT ![c] = "rollback"] /\ reply' = [reply EXCEPT ![c] = reply[c]]
    BY <1>0, <1>4 DEF EnqueueRaises, TypeOK
  <2>2. CallInv(c)' /\ ReplyInv(c)'
    BY <1>0, <1>4, <2>1 DEF EnqueueRaises, CallInv, ReplyInv, Present, Resolved, Backed, TypeOK
  <2> QED BY <1>4, <2>1, <2>2, AnswerStep, NoInlineRun DEF EnqueueRaises
<1>7. CASE Refuse(c)
  <2>1. pc' = [pc EXCEPT ![c] = "done"]
        /\ reply' = [reply EXCEPT ![c] = Answer("RESOURCE_EXHAUSTED", NULL)]
    BY <1>7 DEF Refuse
  <2>2. CallInv(c)' /\ ReplyInv(c)'
    BY <1>0, <1>7, <2>1 DEF Refuse, CallInv, ReplyInv, Answer, TypeOK
  <2> QED BY <1>7, <2>1, <2>2, AnswerStep, NoInlineRun DEF Refuse
<1>5. CASE InlineEnds(c)
  <2>0. pc[c] = "run" /\ run[c][0].pc \notin Live
    BY <1>5 DEF InlineEnds, Ended, Live
  <2>1. CASE run[c][0].pc = "ok"
    <3>1. pc' = [pc EXCEPT ![c] = "reread"] /\ reply' = [reply EXCEPT ![c] = reply[c]]
      BY <1>0, <1>5, <2>1 DEF InlineEnds, TypeOK
    <3>2. Present(c) /\ Resolved(c) /\ rpc[c] = "Process"
      BY <1>0, <2>0, <2>1 DEF CallInv, RunInv
    <3>3. CallInv(c)' /\ ReplyInv(c)'
      BY <1>0, <1>5, <2>0, <3>1, <3>2 DEF InlineEnds, CallInv, ReplyInv, Present, Resolved, Backed, TypeOK
    <3> QED BY <1>5, <2>0, <3>1, <3>3, AnswerStep DEF InlineEnds
  <2>2. CASE run[c][0].pc = "cancelled"
    <3>1. pc' = [pc EXCEPT ![c] = "cancelled"] /\ reply' = [reply EXCEPT ![c] = reply[c]]
      BY <1>0, <1>5, <2>2 DEF InlineEnds, TypeOK
    <3>2. CallInv(c)' /\ ReplyInv(c)'
      BY <1>0, <1>5, <2>0, <3>1 DEF InlineEnds, CallInv, ReplyInv, Present, Resolved, Backed, TypeOK
    <3> QED BY <1>5, <2>0, <2>2, <3>1, <3>2, AnswerStep DEF InlineEnds
  <2>3. CASE run[c][0].pc = "raised"
    <3>1. pc' = [pc EXCEPT ![c] = "done"] /\ reply' = [reply EXCEPT ![c] = Answer("INTERNAL", NULL)]
      BY <1>0, <1>5, <2>3 DEF InlineEnds, TypeOK
    <3>2. CallInv(c)' /\ ReplyInv(c)'
      BY <1>0, <1>5, <3>1 DEF InlineEnds, CallInv, ReplyInv, Answer, TypeOK
    <3> QED BY <1>5, <2>0, <3>1, <3>2, AnswerStep DEF InlineEnds
  <2> QED BY <1>5, <2>1, <2>2, <2>3 DEF InlineEnds, Ended
<1>6. CASE Reread(c)
  <2>1. Present(c) /\ Resolved(c) /\ rpc[c] = "Process"
    BY <1>0, <1>6 DEF Reread, CallInv
  <2>2. pc' = [pc EXCEPT ![c] = "done"] /\ reply' = [reply EXCEPT ![c] = ResponseFor(c)]
    BY <1>6, <2>1 DEF Reread
  <2>3. CallInv(c)'
    BY <1>0, <1>6, <2>2 DEF Reread, CallInv, TypeOK
  <2>4. /\ ResponseFor(c).code = "OK"
        /\ ResponseFor(c).status \in Terminal
        /\ (ResponseFor(c).status = "failed") <=> (ResponseFor(c).error # "none")
        /\ (ResponseFor(c).status = "failed") <=> (ResponseFor(c).result = "none")
    BY <1>0, <2>1 DEF ResponseFor, RowInv, Resolved, Terminal, Result, Error
  <2>5. ReplyInv(c)'
    BY <1>0, <1>6, <2>1, <2>2, <2>4 DEF Reread, ReplyInv, Present, TypeOK
  <2> QED BY <1>6, <2>2, <2>3, <2>5, AnswerStep, NoInlineRun DEF Reread
<1> QED BY <1>1, <1>2, <1>3, <1>4, <1>5, <1>6, <1>7

LEMMA ReceiveKeeps ==
  ASSUME IInv, NEW c \in DocId, NEW m \in Method, NEW k \in Key, NEW q \in Request, Receive(c, m, k, q)
  PROVE  DocInv(c)'
<1> USE DEF storeVars, jobVars, Present, Resolved
<1>0. DocInv(c) /\ TypeOK /\ Untouched(c) /\ reply[c] = NoReply /\ pc[c] = "idle"
  BY DEF IInv, DocInv, CallInv, Receive
<1>1. Untouched(c)' /\ Events(c)' = {} /\ run' = run /\ job' = job
  BY <1>0, EventsKept DEF Receive, Untouched
<1>2. rpc'[c] \in Method
  BY <1>0 DEF Receive, TypeOK
<1>3. \/ pc'[c] = "insert" /\ reply'[c] = NoReply /\ key'[c] \in Key
      \/ pc'[c] = "done" /\ reply'[c].document_id = NULL /\ reply'[c].code # "OK"
  BY <1>0 DEF Receive, TypeOK, Goto, Done, Answer
<1>4. CallInv(c)'
  BY <1>1, <1>2, <1>3 DEF CallInv
<1>5. RowInv(c)' /\ JobInv(c)' /\ RunInv(c)'
  BY <1>1, <1>3 DEF RowInv, JobInv, RunInv, Untouched, Live
<1>6. ReplyInv(c)'
  BY <1>3, NullAssumption DEF ReplyInv, NoReply, Answer
<1>7. EventInv(c)' /\ SoloInv(c)'
  BY <1>1, <1>3, MaxTriesAssumption DEF EventInv, SoloInv, Untouched, Terminal, Live, Attempt
<1> QED BY <1>4, <1>5, <1>6, <1>7 DEF DocInv

LEMMA InsertKeeps ==
  ASSUME IInv, NEW c \in DocId, Insert(c)
  PROVE  DocInv(c)'
<1> USE DEF jobVars
<1>0. /\ DocInv(c) /\ TypeOK /\ Untouched(c) /\ reply[c] = NoReply /\ pc[c] = "insert"
      /\ rpc[c] \in Method /\ key[c] \in Key /\ 0 \in Attempt
  BY MaxTriesAssumption DEF IInv, DocInv, CallInv, Insert, Attempt
<1>1. Events(c)' = {} /\ job'[c] = "none" /\ reply'[c] = NoReply /\ rpc'[c] = rpc[c] /\ key'[c] = key[c]
  BY <1>0, EventsKept DEF Insert, Untouched, submit_document
<1>2. Present(c)' /\ ~Resolved(c)' /\ docs'[c].key = key[c] /\ docs'[c].status = "queued"
  BY <1>0 DEF Insert, submit_document, TypeOK, StoreTypeOK, Present, Resolved, Terminal
<1>3. CASE rpc[c] = "Submit"
  <2>1. pc'[c] = "enqueue" /\ run' = run
    BY <1>0, <1>3 DEF Insert, Goto, TypeOK
  <2>2. CallInv(c)'
    BY <1>0, <1>1, <1>2, <1>3, <2>1 DEF CallInv
  <2>3. RowInv(c)' /\ JobInv(c)' /\ RunInv(c)'
    BY <1>0, <1>1, <1>2, <2>1 DEF RowInv, JobInv, RunInv, Untouched, Live
  <2>4. ReplyInv(c)'
    BY <1>1, NullAssumption DEF ReplyInv, NoReply, Answer
  <2>5. EventInv(c)'
    BY <1>1, <1>2 DEF EventInv
  <2>6. SoloInv(c)'
    BY <1>0, <1>1, <2>1 DEF SoloInv, Untouched, Live
  <2> QED BY <2>2, <2>3, <2>4, <2>5, <2>6 DEF DocInv
<1>4. CASE rpc[c] = "Process"
  <2>1. pc'[c] = "run" /\ OnlyRun(c, 0, RunAt("load"))
    BY <1>0, <1>4, RunMoves DEF Insert, Goto, TypeOK, RunPC
  <2>2. run'[c][0].pc = "load" /\ \A n \in Attempt : n # 0 => run'[c][n].pc = "idle"
    BY <1>0, <2>1 DEF OnlyRun, RunAt, Untouched
  <2>3. CallInv(c)'
    BY <1>0, <1>1, <1>2, <1>4, <2>1 DEF CallInv
  <2>4. RowInv(c)' /\ JobInv(c)'
    BY <1>0, <1>1, <1>2, <2>1 DEF RowInv, JobInv
  <2>5. RunInv(c)'
    BY <1>0, <1>1, <1>4, <2>1, <2>2 DEF RunInv, Live
  <2>6. ReplyInv(c)'
    BY <1>1, NullAssumption DEF ReplyInv, NoReply, Answer
  <2>7. EventInv(c)' /\ SoloInv(c)'
    BY <1>0, <1>1, <1>2, <2>1, <2>2 DEF EventInv, SoloInv, Live
  <2> QED BY <2>3, <2>4, <2>5, <2>6, <2>7 DEF DocInv
<1> QED BY <1>0, <1>3, <1>4 DEF Method

LEMMA EnqueueKeeps ==
  ASSUME IInv, NEW c \in DocId, EnqueueAccepted(c)
  PROVE  DocInv(c)'
<1> USE DEF storeVars, Present, Resolved
<1>0. DocInv(c) /\ TypeOK /\ pc[c] = "enqueue" /\ rpc[c] = "Submit" /\ reply[c] = NoReply
  BY DEF IInv, DocInv, CallInv, EnqueueAccepted
<1>1. /\ pc'[c] = "enqueued" /\ job'[c] = "queued" /\ docs' = docs /\ run' = run
      /\ Events(c)' = Events(c) /\ outbox' = outbox
  BY <1>0, EventsKept DEF EnqueueAccepted, Goto, TypeOK
<1>2. CallInv(c)' /\ RowInv(c)' /\ JobInv(c)'
  BY <1>0, <1>1 DEF EnqueueAccepted, DocInv, CallInv, RowInv, JobInv, Backed
<1>3. RunInv(c)'
  BY <1>0, <1>1 DEF EnqueueAccepted, DocInv, RunInv
<1>4. ReplyInv(c)'
  BY <1>0, NullAssumption DEF EnqueueAccepted, ReplyInv, NoReply, Answer
<1>5. EventInv(c)' /\ SoloInv(c)'
  BY <1>0, <1>1 DEF EnqueueAccepted, DocInv, EventInv, SoloInv, Latest
<1> QED BY <1>2, <1>3, <1>4, <1>5 DEF DocInv

LEMMA RollbackKeeps ==
  ASSUME IInv, NEW c \in DocId, Rollback(c)
  PROVE  DocInv(c)'
<1> USE DEF storeVars, jobVars, Goto
<1>0. DocInv(c) /\ TypeOK /\ pc[c] = "rollback" /\ rpc[c] = "Submit" /\ reply[c] = NoReply
  BY DEF IInv, DocInv, CallInv, Rollback
<1>1. /\ pc'[c] = "deleted" /\ UNCHANGED <<rpc, key, reply, job, run, disturbed>>
      /\ Events(c)' = Events(c) /\ outbox' = outbox
  BY <1>0, EventsKept DEF Rollback, TypeOK, delete_document
<1>2. docs'[c] = docs[c] \/ (~Present(c)' /\ ~Resolved(c)')
  BY <1>0 DEF Rollback, TypeOK, StoreTypeOK, delete_document, NoRow, Present, Resolved, Terminal
<1>3. CallInv(c)' /\ RowInv(c)'
  BY <1>0, <1>1, <1>2 DEF DocInv, CallInv, RowInv, Present
<1>4. RunInv(c)'
  BY <1>0, <1>1, <1>2 DEF DocInv, RunInv, Present, Resolved
<1>5. JobInv(c)' /\ ReplyInv(c)'
  BY <1>0, <1>1, <1>2, NullAssumption DEF DocInv, JobInv, ReplyInv, Present, Resolved, NoReply, Answer
<1>6. EventInv(c)'
  BY <1>0, <1>1, <1>2 DEF DocInv, EventInv, Latest, Present, Resolved
<1>7. SoloInv(c)'
  BY <1>0, <1>1 DEF DocInv, SoloInv
<1> QED BY <1>3, <1>4, <1>5, <1>6, <1>7 DEF DocInv

\* The outcome just committed is the latest event, and says what the row says.
LEMMA CommittedEvent ==
  ASSUME IInv, NEW d \in DocId, NEW k \in Key, NEW status \in Terminal,
         NEW result \in Result \cup {"null"}, NEW error \in Error \cup {"null"},
         status = "failed" => result = "null" /\ error \in Error,
         status # "failed" => result \in Result /\ error = "null",
         k = key[d], key'[d] = key[d],
         finish_document(d, status, result, error, build_envelope(d, k, status, result, error))
  PROVE  /\ docs'[d] = IF Present(d)
                       THEN [key |-> docs[d].key, status |-> status,
                             result |-> result, error |-> error]
                       ELSE docs[d]
         /\ Events(d) = {} => \A i, j \in Events(d)' : i = j
         /\ EventInv(d)'
<1> DEFINE p == build_envelope(d, k, status, result, error)
           new == Len(outbox) + 1
<1>0. StoreTypeOK /\ EventInv(d) /\ RowInv(d)
  BY DEF IInv, TypeOK, DocInv
<1>1. p \in Payload /\ p.document_id = d /\ p.idempotency_key = key[d]
  BY EnvelopeType DEF build_envelope, Terminal
<1>2. /\ p.data  = IF status = "failed" THEN "omitted" ELSE result
      /\ p.error = IF status = "failed" THEN error ELSE "omitted"
      /\ (p.data = "omitted") # (p.error = "omitted")
  BY DEF build_envelope, Terminal, Result, Error
<1> HIDE DEF p
<1>3. finish_document(d, status, result, error, p)
  BY DEF p
<1>4. /\ docs'[d] = IF Present(d)
                    THEN [key |-> docs[d].key, status |-> status,
                          result |-> result, error |-> error]
                    ELSE docs[d]
      /\ Events(d)' = Events(d) \cup {new}
      /\ outbox'[new] = p
      /\ new \in Nat
      /\ \A i \in Events(d) : i \in Nat /\ i < new /\ outbox'[i] = outbox[i]
  BY <1>0, <1>1, <1>3, Commit
<1> HIDE DEF new
<1>5. new \in Events(d)' /\ \A j \in Events(d)' : j <= new
  BY <1>4
<1>6. CASE Present(d)
  <2>1. docs'[d].key = key[d] /\ docs'[d].status = status /\ docs'[d].result = result
        /\ docs'[d].error = error /\ status # "absent"
    BY <1>0, <1>4, <1>6 DEF RowInv, Terminal
  <2>2. Present(d)' /\ Resolved(d)'
    BY <2>1 DEF Present, Resolved
  <2>3. Reports(outbox'[new], docs'[d])
    BY <1>1, <1>2, <1>4, <2>1 DEF Reports
  <2> QED BY <1>0, <1>1, <1>2, <1>4, <1>5, <2>2, <2>3 DEF EventInv, Latest
<1>7. CASE ~Present(d)
  <2>1. ~Present(d)' /\ ~Resolved(d)'
    BY <1>4, <1>7 DEF Present, Resolved, Terminal
  <2> QED BY <1>0, <1>1, <1>2, <1>4, <2>1 DEF EventInv
<1> QED BY <1>4, <1>6, <1>7

LEMMA MarkCancelledKeeps ==
  ASSUME IInv, NEW c \in DocId, MarkCancelled(c)
  PROVE  DocInv(c)'
<1> USE DEF storeVars, jobVars, Done, Goto
<1>0. /\ DocInv(c) /\ TypeOK /\ pc[c] = "cancelled" /\ rpc[c] = "Process" /\ Present(c)
      /\ docs[c].key = key[c] /\ key[c] \in Key /\ run[c][0].pc \notin Live
  BY NoInlineRun DEF IInv, DocInv, CallInv, RowInv, MarkCancelled
<1>1. /\ pc'[c] = "done" /\ reply'[c].code # "OK" /\ reply'[c].document_id = NULL
      /\ UNCHANGED <<rpc, key, job, run, disturbed>>
  BY <1>0 DEF MarkCancelled, TypeOK, Answer
<1>2. CASE UNCHANGED storeVars
  <2>1. docs' = docs /\ Events(c)' = Events(c) /\ outbox' = outbox
    BY <1>2, EventsKept
  <2>2. CallInv(c)' /\ RowInv(c)' /\ JobInv(c)' /\ ReplyInv(c)'
    BY <1>0, <1>1, <2>1, NullAssumption DEF DocInv, CallInv, RowInv, JobInv, ReplyInv, Present, Resolved
  <2>3. RunInv(c)'
    BY <1>0, <1>1, <2>1 DEF DocInv, RunInv, Present, Resolved
  <2>4. EventInv(c)' /\ SoloInv(c)'
    BY <1>0, <1>1, <2>1 DEF DocInv, EventInv, SoloInv, Latest, Present, Resolved
  <2> QED BY <2>2, <2>3, <2>4 DEF DocInv
<1>3. CASE finish_document(c, "failed", "null", "cancelled",
             build_envelope(c, docs[c].key, "failed", "null", "cancelled"))
  <2>1. /\ docs'[c] = [key |-> key[c], status |-> "failed", result |-> "null", error |-> "cancelled"]
        /\ Events(c) = {} => \A i, j \in Events(c)' : i = j
        /\ EventInv(c)'
    <3>1. "failed" \in Terminal /\ "cancelled" \in Error
      BY DEF Terminal, Error
    <3>2. finish_document(c, "failed", "null", "cancelled",
            build_envelope(c, key[c], "failed", "null", "cancelled"))
      BY <1>0, <1>3
    <3>3. key'[c] = key[c]
      BY <1>1
    <3> QED BY <1>0, <3>1, <3>2, <3>3, CommittedEvent
  <2>2. Present(c)' /\ Resolved(c)'
    BY <2>1 DEF Present, Resolved, Terminal
  <2>3. CallInv(c)' /\ RowInv(c)' /\ JobInv(c)' /\ ReplyInv(c)'
    BY <1>0, <1>1, <2>1, <2>2, NullAssumption DEF DocInv, CallInv, RowInv, JobInv, ReplyInv, Error
  <2>4. RunInv(c)'
    BY <1>0, <1>1, <2>2 DEF DocInv, RunInv
  <2>5. SoloInv(c)'
    <3>1. \A n \in Attempt : run[c][n].pc \notin Live
      BY <1>0 DEF DocInv, RunInv, Live
    <3> QED BY <1>0, <1>1, <2>1, <3>1 DEF DocInv, SoloInv, Live
  <2> QED BY <2>1, <2>3, <2>4, <2>5 DEF DocInv
<1> QED BY <1>2, <1>3 DEF MarkCancelled

LEMMA AbandonKeeps ==
  ASSUME IInv, NEW c \in DocId, Abandon(c)
  PROVE  DocInv(c)'
<1> USE DEF storeVars, jobVars, Goto
<1>0. DocInv(c) /\ TypeOK /\ 0 \in Attempt /\ reply[c] = NoReply
  BY MaxTriesAssumption DEF IInv, DocInv, CallInv, Abandon, Attempt
<1>1. /\ pc'[c] = "gone" \/ (pc'[c] = "cut" /\ pc[c] = "deleted")
      /\ UNCHANGED <<docs, rpc, key, reply, job, disturbed>>
      /\ Events(c)' = Events(c) /\ outbox' = outbox
  BY <1>0, EventsKept DEF Abandon, TypeOK
<1>2. /\ \A n \in Attempt : run'[c][n] = run[c][n] \/ (n = 0 /\ pc[c] = "run" /\ run'[c][n].pc = "dead")
      /\ run'[c][0].pc \notin Live
  <2>1. CASE pc[c] = "run"
    <3>1. OnlyRun(c, 0, RunAt("dead"))
      BY <1>0, <2>1, RunMoves DEF Abandon, TypeOK, RunPC
    <3> QED BY <2>1, <3>1 DEF OnlyRun, RunAt, Live
  <2>2. CASE pc[c] # "run"
    BY <2>2, NoInlineRun DEF Abandon
  <2> QED BY <2>1, <2>2
<1>3. CallInv(c)' /\ RowInv(c)' /\ JobInv(c)'
  BY <1>0, <1>1 DEF DocInv, CallInv, RowInv, JobInv, Present, Resolved
<1>4. RunInv(c)'
  BY <1>0, <1>1, <1>2 DEF DocInv, CallInv, RunInv, Present, Resolved, Live
<1>5. ReplyInv(c)'
  BY <1>0, <1>1, NullAssumption DEF ReplyInv, NoReply, Answer
<1>6. EventInv(c)'
  BY <1>0, <1>1 DEF DocInv, EventInv, Latest, Present, Resolved
<1>7. SoloInv(c)'
  BY <1>0, <1>1, <1>2 DEF DocInv, SoloInv, Live
<1> QED BY <1>3, <1>4, <1>5, <1>6, <1>7 DEF DocInv

LEMMA CallKeeps ==
  ASSUME IInv, NEW c \in DocId, Call(c)
  PROVE  DocInv(c)'
BY ReceiveKeeps, InsertKeeps, HandlerAnswers, EnqueueKeeps, RollbackKeeps,
   MarkCancelledKeeps, AbandonKeeps DEF Call

-----------------------------------------------------------------------------
(* A step of a run preserves what is known of its document *)

\* A step that moves a run and writes nothing to the tables.
LEMMA MoveStep ==
  ASSUME IInv, NEW d \in DocId, NEW n \in Attempt, NEW r, OnlyRun(d, n, r),
         UNCHANGED <<storeVars, callVars, jobVars>>,
         run[d][n].pc # "idle",
         r.pc \in Live => run[d][n].pc \in Live,
         r.pc # "load",
         r.pc \in Live => r.key = key[d] /\ key[d] \in Key,
         r.pc \in {"finish", "finished"} => r.out \in Result,
         r.pc \in {"fail", "failed"} => r.out \in {"document", "internal"},
         r.pc \in {"finished", "failed", "ok"} => Resolved(d) \/ ~Present(d),
         ~disturbed'[d] => ~disturbed[d],
         ~disturbed'[d] /\ r.pc \in {"mark", "work", "finish", "fail"} => Events(d) = {},
         ~disturbed'[d] /\ n = 0 /\ r.pc = "cancelled" => Events(d) = {}
  PROVE  DocInv(d)'
<1> USE DEF storeVars, callVars, jobVars
<1>0. DocInv(d) /\ 0 \in Attempt
  BY MaxTriesAssumption DEF IInv, Attempt
<1>1. Events(d)' = Events(d) /\ outbox' = outbox
  BY EventsKept
<1>2. run'[d][n] = r /\ \A m \in Attempt : m # n => run'[d][m] = run[d][m]
  BY DEF OnlyRun
<1>3. CallInv(d)'
  BY <1>0, <1>1, <1>2 DEF DocInv, CallInv, Untouched, Present, Resolved
<1>4. RowInv(d)' /\ JobInv(d)' /\ ReplyInv(d)'
  BY <1>0 DEF DocInv, RowInv, JobInv, ReplyInv, Backed, Present, Resolved
<1>5. RunInv(d)'
  BY <1>0, <1>2 DEF DocInv, RunInv, Present, Resolved, Live
<1>6. EventInv(d)'
  BY <1>0, <1>1 DEF DocInv, EventInv, Latest, Present, Resolved
<1>7. SoloInv(d)'
  BY <1>0, <1>1, <1>2 DEF DocInv, SoloInv
<1> QED BY <1>3, <1>4, <1>5, <1>6, <1>7 DEF DocInv

\* A run that has committed an outcome.
LEMMA CommitStep ==
  ASSUME IInv, NEW d \in DocId, NEW n \in Attempt, NEW r, OnlyRun(d, n, r),
         UNCHANGED <<callVars, jobVars, disturbed>>,
         run[d][n].pc \in {"finish", "fail"},
         r.key = run[d][n].key, r.out = run[d][n].out,
         r.pc = IF run[d][n].pc = "finish" THEN "finished" ELSE "failed",
         NEW status \in Terminal, NEW result, NEW error,
         status # "failed" => result \in Result,
         status = "failed" => error \in Error,
         docs'[d] = IF Present(d)
                    THEN [key |-> docs[d].key, status |-> status,
                          result |-> result, error |-> error]
                    ELSE docs[d],
         Events(d) = {} => \A i, j \in Events(d)' : i = j,
         EventInv(d)'
  PROVE  DocInv(d)'
<1> USE DEF callVars, jobVars
<1>0. DocInv(d) /\ 0 \in Attempt
  BY MaxTriesAssumption DEF IInv, Attempt
<1>1. Present(d)' <=> Present(d)
  BY DEF Present, Terminal
<1>2. Present(d) => Resolved(d)'
  BY DEF Present, Resolved
<1>3. Resolved(d) => Present(d)
  BY DEF Present, Resolved, Terminal
<1>4. run'[d][n] = r /\ \A m \in Attempt : m # n => run'[d][m] = run[d][m]
  BY DEF OnlyRun
<1>5. CallInv(d)'
  BY <1>0, <1>1, <1>2, <1>3 DEF DocInv, CallInv, Untouched
<1>6. RowInv(d)'
  <2>1. CASE Present(d)
    <3>1. /\ docs'[d].key = docs[d].key /\ docs'[d].status = status
          /\ docs'[d].result = result /\ docs'[d].error = error
      BY <2>1
    <3> QED BY <1>0, <1>1, <2>1, <3>1 DEF DocInv, RowInv
  <2>2. CASE ~Present(d)
    BY <1>1, <2>2 DEF RowInv
  <2> QED BY <2>1, <2>2
<1>7. JobInv(d)' /\ ReplyInv(d)'
  BY <1>0, <1>1, <1>2, <1>3 DEF DocInv, JobInv, ReplyInv, Backed
<1>8. RunInv(d)'
  BY <1>0, <1>1, <1>2, <1>3, <1>4 DEF DocInv, RunInv, Live
<1>9. SoloInv(d)'
  <2> SUFFICES ASSUME ~disturbed[d]
               PROVE  SoloInv(d)'
    BY DEF SoloInv
  <2>1. Events(d) = {} /\ \A m \in Attempt : run[d][m].pc \in Live => m = n
    BY <1>0 DEF DocInv, SoloInv, Live
  <2>2. r.pc \in {"finished", "failed"}
    OBVIOUS
  <2>3. \A m \in Attempt : run'[d][m].pc \in Live => m = n
    BY <1>4, <2>1
  <2>4. pc[d] # "cancelled" /\ ~(pc[d] = "run" /\ run'[d][0].pc = "cancelled")
    BY <1>0, <1>4, <2>2 DEF DocInv, CallInv, RunInv, Live
  <2>5. run'[d][0].pc # "load"
    BY <1>0, <1>4, <2>2, <2>3 DEF Live
  <2> QED BY <1>4, <2>1, <2>2, <2>3, <2>4, <2>5 DEF SoloInv, Live
<1> QED BY <1>5, <1>6, <1>7, <1>8, <1>9 DEF DocInv

LEMMA RunKeeps ==
  ASSUME IInv, NEW d \in DocId, NEW n \in Attempt, RunStep(d, n)
  PROVE  DocInv(d)'
<1> USE DEF storeVars, callVars, jobVars
<1>0. /\ DocInv(d) /\ RowInv(d) /\ RunInv(d) /\ EventInv(d) /\ SoloInv(d) /\ TypeOK
      /\ run \in [DocId -> [Attempt -> Run]] /\ docs[d] \in Row \cup {NoRow} /\ 0 \in Attempt
  BY MaxTriesAssumption DEF IInv, DocInv, TypeOK, StoreTypeOK, Attempt
<1>1. CASE Load(d, n)
  <2>1. CASE docs[d].status \in Processable
    <3>1. docs[d].key = key[d] /\ key[d] \in Key /\ Present(d) /\ ~Resolved(d)
      BY <1>0, <2>1 DEF RowInv, Present, Resolved, Processable, Terminal
    <3>2. OnlyRun(d, n, [pc |-> "mark", key |-> key[d], out |-> "none"])
      BY <1>0, <1>1, <2>1, <3>1, RunMoves DEF Load, RunPC
    <3> QED BY <1>0, <1>1, <3>1, <3>2, MoveStep DEF Load, EventInv, Live
  <2>2. CASE docs[d].status \notin Processable
    <3>1. Resolved(d) \/ ~Present(d)
      BY <1>0, <2>2 DEF Resolved, Present, Row, NoRow
    <3>2. OnlyRun(d, n, RunAt("ok"))
      BY <1>0, <1>1, <2>2, RunMoves DEF Load, RunPC
    <3>3. RunAt("ok").pc = "ok"
      BY DEF RunAt
    <3> QED BY <1>0, <1>1, <3>1, <3>2, <3>3, MoveStep DEF Load, Live
  <2> QED BY <2>1, <2>2
<1>3. CASE Work(d, n)
  <2>0. run[d][n].pc = "work" /\ run[d][n].key = key[d] /\ key[d] \in Key
        /\ (~disturbed[d] => Events(d) = {})
    BY <1>0, <1>3 DEF Work, RunInv, SoloInv, Live
  <2>1. ASSUME NEW o \in Result, Decide(d, n, "finish", o)
        PROVE  DocInv(d)'
    <3>1. OnlyRun(d, n, [pc |-> "finish", key |-> key[d], out |-> o])
      BY <1>0, <2>0, <2>1, RunMoves DEF RunPC, Outcome
    <3> QED BY <1>3, <2>0, <3>1, MoveStep DEF Work, Live
  <2>2. ASSUME NEW o \in {"document", "internal"}, Decide(d, n, "fail", o)
        PROVE  DocInv(d)'
    <3>1. OnlyRun(d, n, [pc |-> "fail", key |-> key[d], out |-> o])
      BY <1>0, <2>0, <2>2, RunMoves DEF RunPC, Outcome
    <3> QED BY <1>3, <2>0, <3>1, MoveStep DEF Work, Live
  <2>3. ASSUME Reset(d, n, "raised")
        PROVE  DocInv(d)'
    <3>1. OnlyRun(d, n, RunAt("raised")) /\ RunAt("raised").pc = "raised"
      BY <1>0, <2>3, RunMoves DEF RunPC, RunAt
    <3> QED BY <1>3, <2>0, <3>1, MoveStep DEF Work, Live
  <2> QED BY <1>3, <2>1, <2>2, <2>3 DEF Work
<1>6. CASE Return(d, n)
  <2>1. PICK l \in {"raised", "ok"} : Reset(d, n, l)
    BY <1>6 DEF Return
  <2>2. OnlyRun(d, n, RunAt(l)) /\ RunAt(l).pc = l
    BY <1>0, <2>1, RunMoves DEF RunPC, RunAt
  <2>3. Resolved(d) \/ ~Present(d)
    BY <1>0, <1>6 DEF Return, RunInv
  <2> QED BY <1>6, <2>2, <2>3, MoveStep DEF Return, Live
<1>7. CASE Raise(d, n)
  <2>0. disturbed'[d] = (disturbed[d] \/ run[d][n].pc = "finished")
    BY <1>0, <1>7 DEF Raise, TypeOK
  <2>1. CASE run[d][n].pc \in {"finish", "finished"}
    <3>1. run[d][n].key = key[d] /\ key[d] \in Key
      BY <1>0, <2>1 DEF RunInv, Live
    <3>2. OnlyRun(d, n, [pc |-> "fail", key |-> key[d], out |-> "internal"])
      BY <1>0, <1>7, <2>1, <3>1, RunMoves DEF Raise, RunPC, Outcome
    <3>3. ~disturbed'[d] => ~disturbed[d] /\ Events(d) = {}
      BY <1>0, <2>0, <2>1 DEF SoloInv
    <3> QED BY <1>7, <2>1, <3>1, <3>2, <3>3, MoveStep DEF Raise, Live
  <2>2. CASE run[d][n].pc \in {"load", "mark", "fail", "failed"}
    <3>1. OnlyRun(d, n, RunAt("raised")) /\ RunAt("raised").pc = "raised"
      BY <1>0, <1>7, <2>2, RunMoves DEF Raise, RunPC, RunAt
    <3> QED BY <1>7, <2>0, <2>2, <3>1, MoveStep DEF Raise, Live
  <2> QED BY <1>7, <2>1, <2>2 DEF Raise
<1>8. CASE Cancel(d, n)
  <2>1. disturbed'[d] = (disturbed[d] \/ (n = 0 /\ run[d][n].pc \in {"finished", "failed"}))
    BY <1>0, <1>8 DEF Cancel, TypeOK
  <2>2. OnlyRun(d, n, RunAt("cancelled")) /\ RunAt("cancelled").pc = "cancelled"
    BY <1>0, <1>8, RunMoves DEF Cancel, RunPC, RunAt
  <2>3. ~disturbed'[d] /\ n = 0 => Events(d) = {}
    BY <1>0, <1>8, <2>1 DEF Cancel, SoloInv, Live
  <2> QED BY <1>8, <2>1, <2>2, <2>3, MoveStep DEF Cancel, Live
<1>9. CASE Crash(d, n)
  <2>1. OnlyRun(d, n, RunAt("dead")) /\ RunAt("dead").pc = "dead"
    BY <1>0, <1>9, RunMoves DEF Crash, RunPC, RunAt
  <2> QED BY <1>9, <2>1, MoveStep DEF Crash, Live, Ended
<1>2. CASE Mark(d, n)
  <2>1. OnlyRun(d, n, [pc |-> "work", key |-> run[d][n].key, out |-> run[d][n].out])
    BY <1>0, <1>2, RunMoves DEF Mark, RunPC
  <2>2. run'[d][n].pc = "work" /\ run'[d][n].key = run[d][n].key
        /\ \A m \in Attempt : m # n => run'[d][m] = run[d][m]
    BY <2>1 DEF OnlyRun
  <2>3. Events(d)' = Events(d) /\ outbox' = outbox
    BY <1>2, EventsKept DEF Mark, mark_processing
  <2>4. \/ docs'[d] = docs[d]
        \/ /\ docs[d].status = "queued" /\ docs'[d].status = "processing"
           /\ docs'[d].key = docs[d].key
    BY <1>0, <1>2 DEF Mark, mark_processing, TypeOK, StoreTypeOK, Row, NoRow
  <2>5. (Present(d)' <=> Present(d)) /\ (Resolved(d)' <=> Resolved(d))
    BY <2>4 DEF Present, Resolved, Terminal
  <2>6. CallInv(d)'
    BY <1>0, <1>2, <2>2, <2>3, <2>5 DEF Mark, DocInv, CallInv, Untouched
  <2>7. RowInv(d)'
    BY <1>0, <1>2, <2>4, <2>5 DEF Mark, RowInv
  <2>8. JobInv(d)' /\ ReplyInv(d)'
    BY <1>0, <1>2, <2>5 DEF Mark, DocInv, JobInv, ReplyInv, Backed
  <2>9. RunInv(d)'
    BY <1>0, <1>2, <2>2, <2>5 DEF Mark, RunInv, Live
  <2>10. EventInv(d)'
    <3>1. Resolved(d) => docs'[d] = docs[d]
      BY <2>4 DEF Resolved, Terminal
    <3> QED BY <1>0, <1>2, <2>3, <2>5, <3>1 DEF Mark, EventInv, Latest
  <2>11. SoloInv(d)'
    BY <1>0, <1>2, <2>2, <2>3 DEF Mark, SoloInv, Live
  <2> QED BY <2>6, <2>7, <2>8, <2>9, <2>10, <2>11 DEF DocInv
<1>4. CASE Finish(d, n)
  <2> DEFINE o == run[d][n].out
  <2>1. OnlyRun(d, n, [pc |-> "finished", key |-> run[d][n].key, out |-> o])
    BY <1>0, <1>4, RunMoves DEF Finish, RunPC
  <2>2. run[d][n].pc = "finish" /\ run[d][n].key = key[d] /\ key[d] \in Key /\ o \in Result
    BY <1>0, <1>4 DEF Finish, RunInv, Live
  <2>3. StatusOf(o) \in Terminal /\ StatusOf(o) # "failed"
    BY DEF StatusOf, Terminal
  <2>4. finish_document(d, StatusOf(o), o, "null", build_envelope(d, key[d], StatusOf(o), o, "null"))
    BY <1>4, <2>2 DEF Finish
  <2>5. key'[d] = key[d]
    BY <1>4 DEF Finish
  <2> HIDE DEF o
  <2>6. /\ docs'[d] = IF Present(d)
                      THEN [key |-> docs[d].key, status |-> StatusOf(o), result |-> o, error |-> "null"]
                      ELSE docs[d]
        /\ Events(d) = {} => \A i, j \in Events(d)' : i = j
        /\ EventInv(d)'
    BY <2>2, <2>3, <2>4, <2>5, CommittedEvent
  <2>7. UNCHANGED <<callVars, jobVars, disturbed>>
    BY <1>4 DEF Finish
  <2>8. o = run[d][n].out
    BY DEF o
  <2> QED BY <2>1, <2>2, <2>3, <2>6, <2>7, <2>8, CommitStep
<1>5. CASE Fail(d, n)
  <2> DEFINE o == run[d][n].out
  <2>1. OnlyRun(d, n, [pc |-> "failed", key |-> run[d][n].key, out |-> o])
    BY <1>0, <1>5, RunMoves DEF Fail, RunPC
  <2>2. run[d][n].pc = "fail" /\ run[d][n].key = key[d] /\ key[d] \in Key /\ o \in Error
    BY <1>0, <1>5 DEF Fail, RunInv, Live, Error
  <2>3. "failed" \in Terminal
    BY DEF Terminal
  <2>4. finish_document(d, "failed", "null", o, build_envelope(d, key[d], "failed", "null", o))
    BY <1>5, <2>2 DEF Fail
  <2>5. key'[d] = key[d]
    BY <1>5 DEF Fail
  <2> HIDE DEF o
  <2>6. /\ docs'[d] = IF Present(d)
                      THEN [key |-> docs[d].key, status |-> "failed", result |-> "null", error |-> o]
                      ELSE docs[d]
        /\ Events(d) = {} => \A i, j \in Events(d)' : i = j
        /\ EventInv(d)'
    BY <2>2, <2>3, <2>4, <2>5, CommittedEvent
  <2>7. UNCHANGED <<callVars, jobVars, disturbed>>
    BY <1>5 DEF Fail
  <2>8. o = run[d][n].out
    BY DEF o
  <2> QED BY <2>1, <2>2, <2>3, <2>6, <2>7, <2>8, CommitStep
<1> QED
  BY <1>1, <1>2, <1>3, <1>4, <1>5, <1>6, <1>7, <1>8, <1>9 DEF RunStep, Progress

-----------------------------------------------------------------------------
(* A step of SAQ preserves what is known of its document *)

LEMMA SaqKeeps ==
  ASSUME IInv, NEW d \in DocId, Saq(d)
  PROVE  DocInv(d)'
<1> USE DEF storeVars, callVars
<1>0. /\ DocInv(d) /\ CallInv(d) /\ RunInv(d) /\ JobInv(d) /\ ReplyInv(d) /\ SoloInv(d) /\ TypeOK
      /\ run \in [DocId -> [Attempt -> Run]] /\ 0 \in Attempt
  BY MaxTriesAssumption DEF IInv, DocInv, TypeOK, Attempt
<1>1. CASE Dequeue(d)
  <2>0. job[d] = "queued" /\ rpc[d] = "Submit" /\ tries[d] + 1 \in Attempt /\ tries[d] + 1 # 0
    BY <1>0, <1>1, MaxTriesAssumption DEF Dequeue, JobInv, TypeOK, Attempt
  <2>1. PICK n \in Attempt : n # 0 /\ OnlyRun(d, n, RunAt("load"))
    BY <1>0, <1>1, <2>0, RunMoves DEF Dequeue, RunPC
  <2>2. run'[d][n].pc = "load" /\ \A m \in Attempt : m # n => run'[d][m] = run[d][m]
    BY <2>1 DEF OnlyRun, RunAt
  <2>3. Events(d)' = Events(d) /\ outbox' = outbox /\ docs' = docs /\ job'[d] = "active"
    BY <1>0, <1>1, EventsKept DEF Dequeue, TypeOK
  <2>4. CallInv(d)'
    BY <1>0, <1>1, <2>0, <2>3 DEF Dequeue, CallInv, Untouched, Present, Resolved
  <2>5. RowInv(d)' /\ JobInv(d)' /\ ReplyInv(d)'
    BY <1>0, <1>1, <2>0, <2>3 DEF Dequeue, DocInv, RowInv, JobInv, ReplyInv, Backed, Present, Resolved
  <2>6. RunInv(d)'
    BY <1>0, <1>1, <2>0, <2>1, <2>2, <2>3 DEF Dequeue, RunInv, Present, Resolved, Live
  <2>7. EventInv(d)'
    BY <1>0, <1>1, <2>3 DEF Dequeue, DocInv, EventInv, Latest, Present, Resolved
  <2>8. SoloInv(d)'
    <3>1. ~disturbed'[d] => ~disturbed[d] /\ \A m \in Attempt : run[d][m].pc \notin Live
      BY <1>0, <1>1 DEF Dequeue, TypeOK
    <3> QED BY <1>0, <1>1, <2>0, <2>1, <2>2, <2>3, <3>1 DEF Dequeue, CallInv, SoloInv, Live
  <2> QED BY <2>4, <2>5, <2>6, <2>7, <2>8 DEF DocInv
<1>2. CASE Sweep(d)
  <2>1. /\ Events(d)' = Events(d) /\ outbox' = outbox /\ docs' = docs /\ run' = run
        /\ job[d] = "active" /\ job'[d] \in {"queued", "exhausted"}
    BY <1>0, <1>2, EventsKept DEF Sweep, Requeue, TypeOK
  <2>2. CallInv(d)' /\ RowInv(d)'
    BY <1>0, <1>2, <2>1 DEF Sweep, DocInv, CallInv, RowInv, Untouched, Present, Resolved
  <2>3. JobInv(d)' /\ ReplyInv(d)'
    BY <1>0, <1>2, <2>1 DEF Sweep, JobInv, ReplyInv, Backed, Present, Resolved
  <2>4. RunInv(d)'
    BY <1>0, <1>2, <2>1 DEF Sweep, RunInv, Present, Resolved
  <2>5. EventInv(d)' /\ SoloInv(d)'
    BY <1>0, <1>2, <2>1 DEF Sweep, DocInv, EventInv, SoloInv, Latest, Present, Resolved
  <2> QED BY <2>2, <2>3, <2>4, <2>5 DEF DocInv
<1>3. ASSUME NEW n \in Attempt, Ack(d, n)
      PROVE  DocInv(d)'
  <2>1. n # 0 /\ run[d][n].pc \in Ended /\ rpc[d] = "Submit"
    BY <1>0, <1>3 DEF Ack, RunInv, Ended
  <2>2. OnlyRun(d, n, RunAt("acked"))
    BY <1>0, <1>3, RunMoves DEF Ack, RunPC
  <2>3. run'[d][n].pc = "acked" /\ \A m \in Attempt : m # n => run'[d][m] = run[d][m]
    BY <2>2 DEF OnlyRun, RunAt
  <2>4. /\ Events(d)' = Events(d) /\ outbox' = outbox /\ docs' = docs
        /\ \/ job'[d] \in {"queued", "exhausted"}
           \/ job'[d] = "done" /\ (Resolved(d) \/ ~Present(d))
    BY <1>0, <1>3, EventsKept DEF Ack, Requeue, TypeOK, RunInv
  <2>5. CallInv(d)' /\ RowInv(d)'
    BY <1>0, <1>3, <2>1, <2>3, <2>4 DEF Ack, Ended, DocInv, CallInv, RowInv, Untouched, Present, Resolved
  <2>6. JobInv(d)' /\ ReplyInv(d)'
    BY <1>0, <1>3, <2>1, <2>4 DEF Ack, JobInv, CallInv, ReplyInv, Backed, Present, Resolved
  <2>7. RunInv(d)'
    BY <1>0, <1>3, <2>1, <2>3, <2>4 DEF Ack, RunInv, Present, Resolved, Live
  <2>8. EventInv(d)'
    BY <1>0, <1>3, <2>4 DEF Ack, DocInv, EventInv, Latest, Present, Resolved
  <2>9. SoloInv(d)'
    BY <1>0, <1>3, <2>1, <2>3, <2>4 DEF Ack, SoloInv, Live
  <2> QED BY <2>5, <2>6, <2>7, <2>8, <2>9 DEF DocInv
<1> QED BY <1>1, <1>2, <1>3 DEF Saq

-----------------------------------------------------------------------------
(* The invariant *)

\* Only an INSERT that passed the unique index gives a key a row.
LEMMA KeysStayUnique ==
  ASSUME IInv, Next
  PROVE  KeysAreUnique'
<1> SUFFICES ASSUME NEW a \in DocId, NEW b \in DocId, Present(a)', Present(b)',
                    docs'[a].key = docs'[b].key, a # b
             PROVE  FALSE
  BY DEF KeysAreUnique
<1> DEFINE Old(e) == Present(e) /\ docs[e].key = docs'[e].key
<1>0. KeysAreUnique /\ StoreTypeOK
  BY DEF IInv, TypeOK
<1>1. \A e \in DocId : Present(e)' =>
        \/ Old(e)
        \/ pc[e] = "insert" /\ Insert(e)
  <2> SUFFICES ASSUME NEW e \in DocId, Present(e)'
               PROVE  Old(e) \/ Insert(e)
    BY DEF Insert
  <2>1. PICK d \in DocId : Call(d) \/ Saq(d) \/ \E n \in Attempt : RunStep(d, n)
    BY DEF Next
  <2>2. CASE d # e
    <3>1. Same(e)
      BY <2>1, <2>2, CallOthers, SaqOthers, RunOthers
    <3> QED BY <3>1 DEF Same, Present
  <2>3. CASE d = e
    <3>1. CASE docs' = docs
      BY <3>1 DEF Present
    <3>2. ASSUME NEW status, NEW result, NEW error, NEW p,
                 finish_document(e, status, result, error, p)
          PROVE  Old(e)
      BY <1>0, <3>2 DEF finish_document, StoreTypeOK, Present
    <3>3. CASE mark_processing(e)
      BY <1>0, <3>3 DEF mark_processing, StoreTypeOK, Present, Row, NoRow
    <3>4. CASE delete_document(e)
      BY <1>0, <3>4 DEF delete_document, StoreTypeOK, Present, NoRow
    <3>5. CASE Call(e)
      BY <3>1, <3>2, <3>4, <3>5 DEF Call, Receive, InsertConflict, Lookup, EnqueueAccepted, SubmitOK,
         EnqueueRaises, Rollback, Refuse, InlineEnds, Reread, MarkCancelled, Abandon, storeVars
    <3>6. CASE Saq(e)
      BY <3>1, <3>6 DEF Saq, Dequeue, Sweep, Ack, storeVars
    <3>7. ASSUME NEW n \in Attempt, RunStep(e, n)
          PROVE  Old(e) \/ Insert(e)
      <4>1. CASE Finish(e, n) \/ Fail(e, n)
        BY <3>2, <4>1 DEF Finish, Fail
      <4>2. CASE Mark(e, n)
        BY <3>3, <4>2 DEF Mark
      <4>3. CASE Load(e, n) \/ Work(e, n) \/ Return(e, n) \/ Raise(e, n) \/ Cancel(e, n) \/ Crash(e, n)
        BY <3>1, <4>3 DEF Load, Work, Return, Raise, Cancel, Crash, storeVars
      <4> QED BY <3>7, <4>1, <4>2, <4>3 DEF RunStep, Progress
    <3> QED BY <2>1, <2>3, <3>5, <3>6, <3>7
  <2> QED BY <2>2, <2>3
<1>2. \A e \in DocId : Insert(e) => docs'[e].key = key[e] /\ ~KeyTaken(key[e])
                                    /\ \A f \in DocId : f # e => docs'[f] = docs[f]
  BY <1>0 DEF Insert, submit_document, StoreTypeOK
<1>3. CASE Old(a) /\ Old(b)
  BY <1>0, <1>3 DEF KeysAreUnique
<1>4. CASE Insert(a)
  BY <1>2, <1>4 DEF KeyTaken, Present
<1>5. CASE Insert(b)
  BY <1>2, <1>5 DEF KeyTaken, Present
<1> QED BY <1>1, <1>3, <1>4, <1>5

\* IInv is inductive: every step of a document keeps it, and leaves the others
\* alone.
LEMMA Inductive ==
  IInv /\ [Next]_vars => IInv'
<1> SUFFICES ASSUME IInv, [Next]_vars
             PROVE  IInv'
  OBVIOUS
<1>1. CASE Next
  <2>1. PICK d \in DocId : Call(d) \/ Saq(d) \/ \E n \in Attempt : RunStep(d, n)
    BY <1>1 DEF Next
  <2>2. TypeOK'
    BY <2>1, CallType, SaqType, RunType
  <2>3. DocInv(d)'
    BY <2>1, CallKeeps, SaqKeeps, RunKeeps
  <2>4. ASSUME NEW e \in DocId, e # d
        PROVE  DocInv(e)'
    <3>1. Same(e)
      BY <2>1, <2>4, CallOthers, SaqOthers, RunOthers
    <3>2. DocInv(e)
      BY DEF IInv
    <3> QED BY <3>1, <3>2, Frame
  <2>5. KeysAreUnique'
    BY <1>1, KeysStayUnique
  <2> QED BY <2>2, <2>3, <2>4, <2>5 DEF IInv
<1>2. CASE UNCHANGED vars
  <2>1. TypeOK' /\ KeysAreUnique'
    BY <1>2 DEF vars, storeVars, callVars, jobVars, IInv, TypeOK, StoreTypeOK, KeysAreUnique, Present
  <2>2. ASSUME NEW e \in DocId
        PROVE  DocInv(e)'
    <3>1. Same(e)
      BY <1>2, EventsKept DEF vars, storeVars, callVars, jobVars, Same
    <3>2. DocInv(e)
      BY DEF IInv
    <3> QED BY <3>1, <3>2, Frame
  <2> QED BY <2>1, <2>2 DEF IInv
<1> QED BY <1>1, <1>2

\* It holds before the first call, when nothing is stored or queued.
LEMMA Initially ==
  Init => IInv
<1> SUFFICES ASSUME Init
             PROVE  IInv
  OBVIOUS
<1> USE DEF Init, StoreInit
<1>1. StoreTypeOK
  BY DEF StoreTypeOK
<1>2. NoReply \in Reply
  BY DEF NoReply, Answer, Reply
<1>3. run \in [DocId -> [Attempt -> Run]]
  BY DEF NoRun, RunAt, Run, RunPC
<1>4. TypeOK
  <2>1. 0 \in Attempt
    BY MaxTriesAssumption DEF Attempt
  <2>2. pc \in [DocId -> CallPC] /\ rpc \in [DocId -> Method \cup {"none"}]
    BY DEF CallPC
  <2>3. key \in [DocId -> Key \cup {NULL}] /\ reply \in [DocId -> Reply]
    BY <1>2
  <2>4. /\ job \in [DocId -> {"none", "queued", "active", "done", "exhausted"}]
        /\ tries \in [DocId -> Attempt]
    BY <2>1
  <2>5. disturbed \in [DocId -> BOOLEAN]
    OBVIOUS
  <2> QED BY <1>1, <1>3, <2>2, <2>3, <2>4, <2>5 DEF TypeOK
<1>5. ASSUME NEW d \in DocId
      PROVE  DocInv(d)
  <2>1. ~Present(d) /\ ~Resolved(d) /\ Events(d) = {} /\ job[d] = "none" /\ 0 \in Attempt
    BY MaxTriesAssumption DEF Present, Resolved, NoRow, Terminal, Events, Attempt
  <2>2. \A n \in Attempt : run[d][n].pc = "idle"
    BY DEF NoRun, RunAt
  <2>3. CallInv(d) /\ RowInv(d) /\ JobInv(d)
    BY <2>1, <2>2 DEF CallInv, RowInv, JobInv, Untouched
  <2>4. RunInv(d)
    BY <2>2 DEF RunInv, Live
  <2>5. ReplyInv(d)
    BY NullAssumption DEF ReplyInv, NoReply, Answer
  <2>6. EventInv(d) /\ SoloInv(d)
    BY <2>1, <2>2 DEF EventInv, SoloInv, Live
  <2> QED BY <2>3, <2>4, <2>5, <2>6 DEF DocInv
<1>6. KeysAreUnique
  BY DEF KeysAreUnique, Present, NoRow
<1> QED BY <1>4, <1>5, <1>6 DEF IInv

\* What a step may do to a row that has an outcome: leave it, replace the
\* outcome, or delete the row; never put it back to be processed.
LEMMA ResolvedStays ==
  ASSUME IInv, Next, NEW e \in DocId, Resolved(e)
  PROVE  docs'[e].status \notin Processable
<1> DEFINE Stays == docs'[e].status \notin Processable
<1>0. StoreTypeOK /\ DocInv(e) /\ docs[e].status \notin Processable
  BY DEF IInv, TypeOK, Resolved, Terminal, Processable
<1>1. PICK d \in DocId : Call(d) \/ Saq(d) \/ \E n \in Attempt : RunStep(d, n)
  BY DEF Next
<1>2. CASE d # e
  <2>1. Same(e)
    BY <1>1, <1>2, CallOthers, SaqOthers, RunOthers DEF IInv
  <2> QED BY <1>0, <2>1 DEF Same
<1>3. CASE d = e
  <2>1. CASE docs' = docs
    BY <1>0, <2>1
  <2>2. ASSUME NEW status \in Terminal, NEW result, NEW error, NEW p,
               finish_document(e, status, result, error, p)
        PROVE  Stays
    BY <1>0, <2>2 DEF finish_document, StoreTypeOK, Terminal, Processable
  <2>3. CASE mark_processing(e)
    BY <1>0, <2>3 DEF mark_processing, Processable
  <2>4. CASE delete_document(e)
    BY <1>0, <2>4 DEF delete_document, StoreTypeOK, NoRow, Processable
  <2>5. CASE Call(e)
    <3>1. CASE Insert(e)
      BY <1>0, <3>1 DEF Insert, DocInv, CallInv, Untouched, Present, Resolved, Terminal
    <3>2. CASE MarkCancelled(e)
      BY <2>1, <2>2, <3>2 DEF MarkCancelled, storeVars, Terminal
    <3>3. CASE Rollback(e)
      BY <2>1, <2>4, <3>3 DEF Rollback, storeVars
    <3> QED BY <2>1, <2>5, <3>1, <3>2, <3>3 DEF Call, Receive, InsertConflict, Lookup,
              EnqueueAccepted, SubmitOK, EnqueueRaises, Refuse, InlineEnds, Reread, Abandon, storeVars
  <2>6. CASE Saq(e)
    BY <2>1, <2>6 DEF Saq, Dequeue, Sweep, Ack, storeVars
  <2>7. ASSUME NEW n \in Attempt, RunStep(e, n)
        PROVE  Stays
    <3>1. CASE Finish(e, n)
      BY <2>2, <3>1 DEF Finish, StatusOf, Terminal
    <3>2. CASE Fail(e, n)
      BY <2>2, <3>2 DEF Fail, Terminal
    <3>3. CASE Mark(e, n)
      BY <2>3, <3>3 DEF Mark
    <3>4. CASE Load(e, n) \/ Work(e, n) \/ Return(e, n) \/ Raise(e, n) \/ Cancel(e, n) \/ Crash(e, n)
      BY <2>1, <3>4 DEF Load, Work, Return, Raise, Cancel, Crash, storeVars
    <3> QED BY <2>7, <3>1, <3>2, <3>3, <3>4 DEF RunStep, Progress
  <2> QED BY <1>1, <1>3, <2>5, <2>6, <2>7
<1> QED BY <1>2, <1>3

-----------------------------------------------------------------------------
(* The theorems *)

\* The inductive invariant holds in every behaviour of handlers, runs and
\* queue.
THEOREM Invariance == Spec => []IInv
  BY Initially, Inductive, PTL DEF Spec

\* Every column, local variable and reply keeps its type.
THEOREM TypeCorrect == Spec => []TypeOK
<1>1. IInv => TypeOK
  BY DEF IInv
<1> QED BY <1>1, Invariance, PTL

\* finish_document commits the outcome with its event: a terminal row and its
\* latest event agree, and a row without an outcome has no event.
THEOREM OutcomeAndEvent == Spec => []OutcomeMatchesEvent
<1>1. IInv => OutcomeMatchesEvent
  BY DEF IInv, DocInv, EventInv, OutcomeMatchesEvent
<1> QED BY <1>1, Invariance, PTL

\* build_envelope, as process_document, _fail and _mark_cancelled call it,
\* yields exactly one of data and error, under the key the caller submitted.
THEOREM WellFormedEvents == Spec => []EventsAreWellFormed
<1>1. IInv => EventsAreWellFormed
  <2> SUFFICES ASSUME IInv, NEW i \in DOMAIN outbox
               PROVE  /\ (outbox[i].data = "omitted") # (outbox[i].error = "omitted")
                      /\ outbox[i].idempotency_key = key[outbox[i].document_id]
    BY DEF EventsAreWellFormed
  <2>0. outbox \in Seq(Payload)
    BY DEF IInv, TypeOK, StoreTypeOK
  <2>1. outbox[i].document_id \in DocId
    <3>1. outbox[i] \in Payload
      BY <2>0
    <3> QED BY <3>1 DEF Payload
  <2>2. EventInv(outbox[i].document_id) /\ i \in Events(outbox[i].document_id)
    BY <2>1 DEF IInv, DocInv, Events
  <2> QED BY <2>2 DEF EventInv
<1> QED BY <1>1, Invariance, PTL

\* The early returns of process_document keep a document to one event, unless
\* SAQ overlapped two attempts or a commit took effect unseen.
THEOREM SingleEvent == Spec => []OneEventUnlessDisturbed
<1>1. IInv => OneEventUnlessDisturbed
  BY DEF IInv, DocInv, SoloInv, OneEventUnlessDisturbed
<1> QED BY <1>1, Invariance, PTL

\* A job SAQ calls done, and a synchronous call answered for its own document,
\* have left an outcome in the row.
THEOREM SuccessIsResolved == Spec => []SuccessMeansResolved
<1>1. IInv => SuccessMeansResolved
  BY DEF IInv, DocInv, JobInv, ReplyInv, SuccessMeansResolved
<1> QED BY <1>1, Invariance, PTL

\* A document SubmitDocument acknowledged is never dropped: its row stays, and
\* until it has an outcome SAQ holds its job or has used up the tries.
THEOREM AcceptedStaysBacked == Spec => []AcceptedIsBacked
<1>1. IInv => AcceptedIsBacked
  <2> SUFFICES ASSUME IInv, NEW c \in DocId, rpc[c] = "Submit", reply[c].code = "OK"
               PROVE  Present(c) /\ (Resolved(c) \/ job[c] \in {"queued", "active", "exhausted"})
    BY DEF AcceptedIsBacked
  <2>1. ReplyInv(c)
    BY DEF IInv, DocInv
  <2> QED BY <2>1 DEF ReplyInv, Backed
<1> QED BY <1>1, Invariance, PTL

\* The unique index and the rollback together give a key one accepted document
\* whatever the interleaving of the calls that carry it.
THEOREM OneDocumentPerKey == Spec => []OneAcceptedPerKey
<1>1. IInv => OneAcceptedPerKey
  <2> SUFFICES ASSUME IInv, NEW c \in DocId, NEW e \in DocId,
                      reply[c].code = "OK", reply[c].document_id = c,
                      reply[e].code = "OK", reply[e].document_id = e,
                      key[c] = key[e]
               PROVE  c = e
    BY DEF OneAcceptedPerKey
  <2>1. Present(c) /\ Present(e)
    BY DEF IInv, DocInv, ReplyInv
  <2>2. docs[c].key = key[c] /\ docs[e].key = key[e]
    BY <2>1 DEF IInv, DocInv, RowInv
  <2> QED BY <2>1, <2>2 DEF IInv, KeysAreUnique
<1> QED BY <1>1, Invariance, PTL

\* mark_processing is guarded by the status, finish_document writes terminal
\* ones only: no late or repeated run reopens a document.
THEOREM OutcomeIsFinal == Spec => TerminalIsFinal
<1> DEFINE Final == \A d \in DocId : Resolved(d) => docs'[d].status \notin Processable
<1>1. IInv /\ [Next]_vars => [Final]_vars
  BY ResolvedStays
<1>2. Spec => [][Final]_vars
  BY <1>1, Invariance, PTL DEF Spec
<1> QED BY <1>2 DEF TerminalIsFinal

=============================================================================
