------------------------- MODULE DocumentLifecycle -------------------------
(***************************************************************************)
(* The life of a document, from the RPC that inserts its row to the        *)
(* transaction that commits its outcome and its event.  Three kinds of     *)
(* actors share the two tables of DocumentStore:                           *)
(*                                                                         *)
(*  - handlers of SubmitDocument and ProcessDocument (api/servicer.py),    *)
(*    one per call; a call is named by the document id it draws;           *)
(*  - runs of process_document (pipeline/pipeline.py): run 0 of a document *)
(*    is the one ProcessDocument awaits in the request, runs 1..MaxTries   *)
(*    are the attempts of the SAQ job that SubmitDocument enqueues;        *)
(*  - the SAQ queue, external: it hands a job out, retries an attempt that *)
(*    raised, and hands out again a job it believes stuck, which may still *)
(*    be running.                                                          *)
(*                                                                         *)
(* Every await of the code is a point where others run, and where the      *)
(* process may die, the task be cancelled, or a reply be lost after the    *)
(* request took effect.                                                    *)
(***************************************************************************)
EXTENDS DocumentStore

CONSTANTS
  MaxTries,      \* attempts SAQ grants a job
  CountsFields   \* whether process_document survives its loop over result.fields

(***************************************************************************)
(* That loop (pipeline.py:106) reads field.name of what is a dict, which   *)
(* raises on every result: CountsFields is FALSE in the code as it stands, *)
(* and no result is ever committed.  TRUE is the code with that line       *)
(* repaired; its behaviours include those of FALSE, so that what is shown  *)
(* under TRUE holds of both.                                               *)
(***************************************************************************)
ASSUME MaxTriesAssumption == MaxTries \in Nat \ {0}
ASSUME CountsFieldsAssumption == CountsFields \in BOOLEAN
ASSUME NullAssumption == NULL \notin Key /\ NULL \notin DocId

VARIABLES
  pc,        \* where the handler of call c stands
  rpc,       \* the method call c invoked
  key,       \* the idempotency key of its request
  reply,     \* what it answered
  job,       \* SAQ's view of the job of document d
  tries,     \* attempts of that job handed out so far
  run,       \* the runs of process_document
  disturbed  \* history: an attempt of d was handed out while another was
             \* live, or the commit of d took effect unseen by its caller

callVars == <<pc, rpc, key, reply>>
jobVars  == <<job, tries>>
vars     == <<storeVars, callVars, jobVars, run, disturbed>>

Method  == {"Submit", "Process"}
Attempt == 0 .. MaxTries

\* A handler that ends without an answer is gone, or cut if it ends past its
\* DELETE.
CallPC == {"idle", "insert", "lookup", "enqueue", "enqueued", "rollback",
           "deleted", "run", "reread", "cancelled", "done", "gone", "cut"}
RunPC  == {"idle", "load", "mark", "work", "finish", "finished", "fail",
           "failed", "ok", "raised", "cancelled", "dead", "acked"}
Live   == {"load", "mark", "work", "finish", "finished", "fail", "failed"}
Ended  == {"ok", "raised", "cancelled"}

Outcome  == Result \cup {"document", "internal"}
Run      == [pc: RunPC, key: Key \cup {NULL}, out: Outcome \cup {"none"}]
RunAt(l) == [pc |-> l, key |-> NULL, out |-> "none"]   \* nothing loaded
NoRun    == RunAt("idle")

\* VANISHED is the INTERNAL of a row that should be there and is not.
Code  == {"OK", "INVALID_ARGUMENT", "FAILED_PRECONDITION", "ALREADY_EXISTS",
          "RESOURCE_EXHAUSTED", "INTERNAL", "VANISHED", "CANCELLED"}
Reply == [code: Code \cup {"none"}, document_id: DocId \cup {NULL},
          status: Processable \cup Terminal \cup {"none"},
          result: Result \cup {"none"}, error: Error \cup {"none"}]

Answer(code, id) == [code |-> code, document_id |-> id, status |-> "none",
                     result |-> "none", error |-> "none"]
NoReply == Answer("none", NULL)

Init ==
  /\ StoreInit
  /\ pc        = [c \in DocId |-> "idle"]
  /\ rpc       = [c \in DocId |-> "none"]
  /\ key       = [c \in DocId |-> NULL]
  /\ reply     = [c \in DocId |-> NoReply]
  /\ job       = [d \in DocId |-> "none"]
  /\ tries     = [d \in DocId |-> 0]
  /\ run       = [d \in DocId |-> [n \in Attempt |-> NoRun]]
  /\ disturbed = [d \in DocId |-> FALSE]

\* How a run moves: on, with the row it has loaded, with an outcome to commit,
\* or to its start or an end, where its locals are void.
RunGoto(d, n, l)   == run' = [run EXCEPT ![d][n].pc = l]
Hold(d, n, l, k)   == run' = [run EXCEPT ![d][n] = [pc |-> l, key |-> k, out |-> "none"]]
Decide(d, n, l, o) == run' = [run EXCEPT ![d][n] = [pc |-> l, key |-> @.key, out |-> o]]
Reset(d, n, l)     == run' = [run EXCEPT ![d][n] = RunAt(l)]

-----------------------------------------------------------------------------
(* api/servicer.py: the two handlers that write *)

Goto(c, l)    == pc' = [pc EXCEPT ![c] = l]
Done(c, r)    == Goto(c, "done") /\ reply' = [reply EXCEPT ![c] = r]

\* _validate_submit, and the size cap of the synchronous method: what a
\* request is answered before anything is written.
Admission(m, request) ==
  CASE request = "invalid"                 -> "INVALID_ARGUMENT"
    [] request = "large" /\ m = "Process"  -> "FAILED_PRECONDITION"
    [] OTHER                               -> "OK"

\* _response_for: the body GetDocument and ProcessDocument answer.
ResponseFor(d) ==
  [code        |-> "OK",
   document_id |-> d,
   status      |-> docs[d].status,
   result      |-> IF docs[d].status \in {"completed", "needs_review"}
                      /\ docs[d].result # "null"
                   THEN docs[d].result ELSE "none",
   error       |-> IF docs[d].status = "failed"
                   THEN IF docs[d].error = "null" THEN "internal" ELSE docs[d].error
                   ELSE "none"]

Receive(c, m, k, request) ==
  /\ pc[c] = "idle"
  /\ rpc' = [rpc EXCEPT ![c] = m]
  /\ IF Admission(m, request) = "OK"
     THEN /\ Goto(c, "insert")
          /\ key' = [key EXCEPT ![c] = k]
          /\ UNCHANGED reply
     ELSE /\ Done(c, Answer(Admission(m, request), NULL))
          /\ UNCHANGED key
  /\ UNCHANGED <<storeVars, jobVars, run, disturbed>>

\* The INSERT passed: SubmitDocument goes on to enqueue the job,
\* ProcessDocument awaits process_document in the request.
Insert(c) ==
  /\ pc[c] = "insert"
  /\ submit_document(c, key[c])
  /\ IF rpc[c] = "Submit"
     THEN Goto(c, "enqueue") /\ UNCHANGED run
     ELSE Goto(c, "run") /\ Reset(c, 0, "load")
  /\ UNCHANGED <<rpc, key, reply, jobVars, disturbed>>

\* UniqueViolationError.
InsertConflict(c) ==
  /\ pc[c] = "insert"
  /\ KeyTaken(key[c])
  /\ Goto(c, "lookup")
  /\ UNCHANGED <<storeVars, rpc, key, reply, jobVars, run, disturbed>>

\* get_idempotent_document, a statement of its own: the row the INSERT ran
\* into may have been rolled back in between.
Lookup(c) ==
  /\ pc[c] = "lookup"
  /\ \/ \E d \in DocId :
          /\ Present(d) /\ docs[d].key = key[c]
          /\ Done(c, IF rpc[c] = "Submit" THEN Answer("ALREADY_EXISTS", d)
                                          ELSE ResponseFor(d))
     \/ /\ ~KeyTaken(key[c])
        /\ Done(c, IF rpc[c] = "Submit" THEN Answer("ALREADY_EXISTS", NULL)
                                        ELSE Answer("VANISHED", NULL))
  /\ UNCHANGED <<storeVars, rpc, key, jobVars, run, disturbed>>

\* Mutant of EnqueueAccepted: the job never reaches Redis.
EnqueueForgotten(c) ==
  /\ pc[c] = "enqueue"
  /\ Goto(c, "enqueued")
  /\ UNCHANGED <<storeVars, rpc, key, reply, jobVars, run, disturbed>>

\* queue.enqueue reached Redis; the handler still awaits the answer.
EnqueueAccepted(c) ==
  /\ pc[c] = "enqueue"
  /\ Goto(c, "enqueued")
  /\ job' = [job EXCEPT ![c] = "queued"]
  /\ UNCHANGED <<storeVars, rpc, key, reply, tries, run, disturbed>>

SubmitOK(c) ==
  /\ pc[c] = "enqueued"
  /\ Done(c, [Answer("OK", c) EXCEPT !.status = "queued"])
  /\ UNCHANGED <<storeVars, rpc, key, jobVars, run, disturbed>>

\* queue.enqueue raised: refused, or accepted with the answer lost.
EnqueueRaises(c) ==
  /\ pc[c] \in {"enqueue", "enqueued"}
  /\ Goto(c, "rollback")
  /\ UNCHANGED <<storeVars, rpc, key, reply, jobVars, run, disturbed>>

\* _rollback: the DELETE, or its failure, logged and swallowed.  Its reply and
\* the abort are still to come.
Rollback(c) ==
  /\ pc[c] = "rollback"
  /\ delete_document(c) \/ UNCHANGED storeVars
  /\ Goto(c, "deleted")
  /\ UNCHANGED <<rpc, key, reply, jobVars, run, disturbed>>

\* The abort that answers RESOURCE_EXHAUSTED.
Refuse(c) ==
  /\ pc[c] = "deleted"
  /\ Done(c, Answer("RESOURCE_EXHAUSTED", NULL))
  /\ UNCHANGED <<storeVars, rpc, key, jobVars, run, disturbed>>

\* process_document, awaited by ProcessDocument, returned or raised.
InlineEnds(c) ==
  /\ pc[c] = "run"
  /\ run[c][0].pc \in Ended
  /\ CASE run[c][0].pc = "ok"        -> Goto(c, "reread") /\ UNCHANGED reply
       [] run[c][0].pc = "cancelled" -> Goto(c, "cancelled") /\ UNCHANGED reply
       [] run[c][0].pc = "raised"    -> Done(c, Answer("INTERNAL", NULL))
  /\ UNCHANGED <<storeVars, rpc, key, jobVars, run, disturbed>>

\* The get_document after processing, and the answer.
Reread(c) ==
  /\ pc[c] = "reread"
  /\ Done(c, IF Present(c) THEN ResponseFor(c) ELSE Answer("VANISHED", NULL))
  /\ UNCHANGED <<storeVars, rpc, key, jobVars, run, disturbed>>

\* Mutant of MarkCancelled: the row is failed without an event.
MarkCancelledSilently(c) ==
  /\ pc[c] = "cancelled"
  /\ docs' = IF Present(c) THEN [docs EXCEPT ![c].status = "failed",
                                            ![c].result = "null", ![c].error = "cancelled"]
                           ELSE docs
  /\ Done(c, Answer("CANCELLED", NULL))
  /\ UNCHANGED <<outbox, rpc, key, jobVars, run, disturbed>>

\* _mark_cancelled: read the row and finish it as failed, whatever its
\* status; an exception is logged and swallowed.  (Nothing but the handler
\* itself writes the row of a ProcessDocument call once its run has ended,
\* so the read and the write are one step; and the caller has given up, so
\* that a handler killed between the commit and the re-raise differs only in
\* an answer nobody reads.)
MarkCancelled(c) ==
  /\ pc[c] = "cancelled"
  /\ \/ /\ Present(c)
        /\ finish_document(c, "failed", "null", "cancelled",
             build_envelope(c, docs[c].key, "failed", "null", "cancelled"))
     \/ UNCHANGED storeVars
  /\ Done(c, Answer("CANCELLED", NULL))
  /\ UNCHANGED <<rpc, key, jobVars, run, disturbed>>

\* The handler ends at an await without an answer: a cancelled call, an
\* exception nobody catches, the api process killed.  While its run is
\* awaited only the last is left, and it takes the run with it.
Abandon(c) ==
  /\ pc[c] \in {"insert", "lookup", "enqueue", "enqueued", "rollback",
                "deleted", "run", "reread", "cancelled"}
  /\ Goto(c, IF pc[c] = "deleted" THEN "cut" ELSE "gone")
  /\ IF pc[c] = "run" THEN Reset(c, 0, "dead") ELSE UNCHANGED run
  /\ UNCHANGED <<storeVars, rpc, key, reply, jobVars, disturbed>>

-----------------------------------------------------------------------------
(* pipeline/pipeline.py: process_document *)

\* Mutants of Load: no return on a row that is gone; no return on a row with an
\* outcome; a return on a row another attempt has marked.
LoadOf(d, n, statuses) ==
  /\ run[d][n].pc = "load"
  /\ IF docs[d].status \in statuses THEN Hold(d, n, "mark", docs[d].key) ELSE Reset(d, n, "ok")
  /\ UNCHANGED <<storeVars, callVars, jobVars, disturbed>>
LoadMissing(d, n)        == LoadOf(d, n, Processable \cup {"absent"})
LoadResolved(d, n)       == LoadOf(d, n, Processable \cup Terminal)
LoadSkipsProcessing(d, n) == LoadOf(d, n, {"queued"})

\* get_document and the two early returns.
Load(d, n) ==
  /\ run[d][n].pc = "load"
  /\ IF docs[d].status \in Processable
     THEN Hold(d, n, "mark", docs[d].key)
     ELSE Reset(d, n, "ok")
  /\ UNCHANGED <<storeVars, callVars, jobVars, disturbed>>

Mark(d, n) ==
  /\ run[d][n].pc = "mark"
  /\ mark_processing(d)
  /\ RunGoto(d, n, "work")
  /\ UNCHANGED <<callVars, jobVars, disturbed>>

\* Mutant of Work: a transient error is swallowed.
WorkSwallows(d, n) ==
  /\ run[d][n].pc = "work"
  /\ \/ \E r \in Result : Decide(d, n, "finish", r)
     \/ Reset(d, n, "ok")
  /\ UNCHANGED <<storeVars, callVars, jobVars, disturbed>>

\* Download, inspect, OCR, extract, build_result and the loop over its fields:
\* a result to commit, an error to commit, or a transient provider error,
\* which commits nothing.
Work(d, n) ==
  /\ run[d][n].pc = "work"
  /\ \/ \E r \in Result :
          CountsFields /\ Decide(d, n, "finish", r)
     \/ \E e \in {"document", "internal"} :
          Decide(d, n, "fail", e)
     \/ Reset(d, n, "raised")
  /\ UNCHANGED <<storeVars, callVars, jobVars, disturbed>>

StatusOf(result) == IF result = "clean" THEN "completed" ELSE "needs_review"

\* finish_document with the result; its reply is still to come.
Finish(d, n) ==
  LET r == run[d][n]
  IN  /\ r.pc = "finish"
      /\ finish_document(d, StatusOf(r.out), r.out, "null",
           build_envelope(d, r.key, StatusOf(r.out), r.out, "null"))
      /\ RunGoto(d, n, "finished")
      /\ UNCHANGED <<callVars, jobVars, disturbed>>

\* _fail: finish_document with the error.
Fail(d, n) ==
  LET r == run[d][n]
  IN  /\ r.pc = "fail"
      /\ finish_document(d, "failed", "null", r.out,
           build_envelope(d, r.key, "failed", "null", r.out))
      /\ RunGoto(d, n, "failed")
      /\ UNCHANGED <<callVars, jobVars, disturbed>>

\* The reply of the commit arrived.  Only the catch-all handler re-raises.
Return(d, n) ==
  /\ run[d][n].pc \in {"finished", "failed"}
  /\ Reset(d, n, IF run[d][n].out = "internal" THEN "raised" ELSE "ok")
  /\ UNCHANGED <<storeVars, callVars, jobVars, disturbed>>

\* Mutant of Raise: a commit that raised is taken for a fault of the document.
RaiseAsDocument(d, n) ==
  /\ \/ run[d][n].pc \in {"finish", "finished"} /\ Decide(d, n, "fail", "document")
     \/ run[d][n].pc \in {"load", "mark", "fail", "failed"} /\ Reset(d, n, "raised")
  /\ disturbed' = [disturbed EXCEPT ![d] = @ \/ run[d][n].pc = "finished"]
  /\ UNCHANGED <<storeVars, callVars, jobVars>>

\* A store call raised, before or after taking effect.  In the try body the
\* catch-all handler turns it into an INTERNAL failure; outside of it, and
\* inside _fail, it leaves process_document.
Raise(d, n) ==
  /\ \/ /\ run[d][n].pc \in {"finish", "finished"}
        /\ Decide(d, n, "fail", "internal")
     \/ /\ run[d][n].pc \in {"load", "mark", "fail", "failed"}
        /\ Reset(d, n, "raised")
  /\ disturbed' = [disturbed EXCEPT ![d] = @ \/ run[d][n].pc = "finished"]
  /\ UNCHANGED <<storeVars, callVars, jobVars>>

\* CancelledError at an await: the caller of ProcessDocument gave up, or
\* SAQ's job_timeout fired.  No except clause of process_document takes it.
Cancel(d, n) ==
  /\ run[d][n].pc \in Live
  /\ Reset(d, n, "cancelled")
  /\ disturbed' = [disturbed EXCEPT ![d] =
                     @ \/ (n = 0 /\ run[d][n].pc \in {"finished", "failed"})]
  /\ UNCHANGED <<storeVars, callVars, jobVars>>

\* The worker process dies (the api process: Abandon).
Crash(d, n) ==
  /\ n # 0
  /\ run[d][n].pc \in Live \cup Ended
  /\ Reset(d, n, "dead")
  /\ UNCHANGED <<storeVars, callVars, jobVars, disturbed>>

-----------------------------------------------------------------------------
(* SAQ, as process_document_job and saq_settings use it *)

Requeue(d) ==
  job' = [job EXCEPT ![d] = IF tries[d] < MaxTries THEN "queued" ELSE "exhausted"]

Dequeue(d) ==
  /\ job[d] = "queued"
  /\ tries[d] < MaxTries
  /\ job'   = [job EXCEPT ![d] = "active"]
  /\ tries' = [tries EXCEPT ![d] = @ + 1]
  /\ Reset(d, tries[d] + 1, "load")
  /\ disturbed' = [disturbed EXCEPT ![d] = @ \/ \E n \in Attempt : run[d][n].pc \in Live]
  /\ UNCHANGED <<storeVars, callVars>>

\* The worker reports how an attempt ended, possibly a superseded one.
Ack(d, n) ==
  /\ n # 0
  /\ run[d][n].pc \in Ended
  /\ IF run[d][n].pc = "ok" THEN job' = [job EXCEPT ![d] = "done"] ELSE Requeue(d)
  /\ Reset(d, n, "acked")
  /\ UNCHANGED <<storeVars, callVars, tries, disturbed>>

\* No heartbeat for long enough: the job is handed out again.  The attempt
\* may be dead, or just slow (process_document never touches its job).
Sweep(d) ==
  /\ job[d] = "active"
  /\ Requeue(d)
  /\ UNCHANGED <<storeVars, callVars, tries, run, disturbed>>

-----------------------------------------------------------------------------

Request == {"invalid", "small", "large"}

Call(c) ==
  \/ \E m \in Method, k \in Key, r \in Request : Receive(c, m, k, r)
  \/ Insert(c) \/ InsertConflict(c) \/ Lookup(c)
  \/ EnqueueAccepted(c) \/ SubmitOK(c) \/ EnqueueRaises(c) \/ Rollback(c) \/ Refuse(c)
  \/ InlineEnds(c) \/ Reread(c) \/ MarkCancelled(c)
  \/ Abandon(c)

Progress(d, n) ==
  Load(d, n) \/ Mark(d, n) \/ Work(d, n) \/ Finish(d, n) \/ Fail(d, n) \/ Return(d, n)

RunStep(d, n) == Progress(d, n) \/ Raise(d, n) \/ Cancel(d, n) \/ Crash(d, n)

Saq(d) == Dequeue(d) \/ Sweep(d) \/ \E n \in Attempt : Ack(d, n)

Next == \E d \in DocId : Call(d) \/ Saq(d) \/ \E n \in Attempt : RunStep(d, n)

Spec == Init /\ [][Next]_vars

\* A run that is neither cancelled nor killed goes on, and the queue serves
\* its jobs: asyncio and a running SAQ worker.  Nothing is assumed of the
\* callers, and nothing makes a store call succeed.
Fairness ==
  \A d \in DocId :
    /\ WF_vars(Dequeue(d)) /\ WF_vars(Sweep(d))
    /\ \A n \in Attempt : WF_vars(Progress(d, n)) /\ WF_vars(Ack(d, n))

FairSpec == Spec /\ Fairness

-----------------------------------------------------------------------------
(* Properties *)

\* The type invariant.
TypeOK ==
  /\ StoreTypeOK
  /\ pc    \in [DocId -> CallPC]
  /\ rpc   \in [DocId -> Method \cup {"none"}]
  /\ key   \in [DocId -> Key \cup {NULL}]
  /\ reply \in [DocId -> Reply]
  /\ job   \in [DocId -> {"none", "queued", "active", "done", "exhausted"}]
  /\ tries \in [DocId -> Attempt]
  /\ run   \in [DocId -> [Attempt -> Run]]
  /\ disturbed \in [DocId -> BOOLEAN]

Events(d)    == {i \in DOMAIN outbox : outbox[i].document_id = d}
Latest(d, i) == i \in Events(d) /\ \A j \in Events(d) : j <= i

\* What the event e says is what the row says.
Reports(e, row) ==
  /\ e.idempotency_key = row.key
  /\ e.data  = IF row.status = "failed" THEN "omitted" ELSE row.result
  /\ e.error = IF row.status = "failed" THEN row.error ELSE "omitted"

\* README, "Result+event atomicity": a stored outcome and its event never
\* part.  The latest event of a terminal document says what its row says,
\* whoever committed last, and a document that is still queued or processing
\* has no event.
OutcomeMatchesEvent ==
  \A d \in DocId : Present(d) =>
    IF Resolved(d) THEN \E i \in Events(d) : Latest(d, i) /\ Reports(outbox[i], docs[d])
                   ELSE Events(d) = {}

\* envelope.py: data and error "are omitted, never null", and consumers
\* dead-letter an event with neither, or both; and every event carries the key
\* its caller submitted, also when the row was rolled back under the run.
\* (tests/unit/test_envelope.py asserts that the other one is omitted;
\* tests/integration/test_submit_flow.py reads it and expects a null.)
EventsAreWellFormed ==
  \A i \in DOMAIN outbox :
    /\ (outbox[i].data = "omitted") # (outbox[i].error = "omitted")
    /\ outbox[i].idempotency_key = key[outbox[i].document_id]

\* A document has one event, however its runs crash, time out, raise or are
\* retried, as long as no two of its attempts overlapped and no commit took
\* effect behind the back of the run that issued it.
OneEventUnlessDisturbed ==
  \A d \in DocId : ~disturbed[d] =>
    \A i, j \in Events(d) : i = j

\* What reports success has left an outcome: an attempt SAQ will not repeat,
\* and a ProcessDocument answered OK for its own document, with a result or
\* an error and never both.
SuccessMeansResolved ==
  \A d \in DocId :
    /\ job[d] = "done" => Resolved(d) \/ ~Present(d)
    /\ rpc[d] = "Process" /\ reply[d].document_id = d =>
         /\ reply[d].status \in Terminal
         /\ (reply[d].status = "failed") <=> (reply[d].error # "none")
         /\ (reply[d].status = "failed") <=> (reply[d].result = "none")

\* A document SubmitDocument answered OK for is there, and is either resolved
\* or still in SAQ's hands, until SAQ has used up its tries.
AcceptedIsBacked ==
  \A c \in DocId : rpc[c] = "Submit" /\ reply[c].code = "OK" =>
    /\ Present(c)
    /\ Resolved(c) \/ job[c] \in {"queued", "active", "exhausted"}

\* README, "Idempotency at submit": of all calls with one key, at most one
\* has a document of its own accepted, in whatever order calls with that key
\* are inserted, rolled back and retried.
OneAcceptedPerKey ==
  \A c, e \in DocId :
    /\ reply[c].code = "OK" /\ reply[c].document_id = c
    /\ reply[e].code = "OK" /\ reply[e].document_id = e
    /\ key[c] = key[e]
    => c = e

\* A terminal document is never queued or processing again: a late or
\* repeated run can replace its outcome but not undo it.
TerminalIsFinal ==
  [][\A d \in DocId : Resolved(d) => docs'[d].status \notin Processable]_vars

\* Every document SubmitDocument answered OK for is resolved in the end,
\* unless SAQ exhausts its tries.
AcceptedIsResolved ==
  \A c \in DocId :
    (rpc[c] = "Submit" /\ reply[c].code = "OK") ~> (Resolved(c) \/ job[c] = "exhausted")

-----------------------------------------------------------------------------
(***************************************************************************)
(* The inductive invariant behind the safety properties.  All but the last *)
(* part speaks of one document at a time.                                  *)
(***************************************************************************)

\* Nothing exists of the document of a call that has not inserted its row.
Untouched(d) ==
  /\ ~Present(d)
  /\ job[d] = "none"
  /\ Events(d) = {}
  /\ \A n \in Attempt : run[d][n].pc = "idle"

CallInv(d) ==
  /\ pc[d] \notin {"idle", "done", "gone"} => rpc[d] \in Method /\ key[d] \in Key
  /\ pc[d] \in {"idle", "insert", "lookup"} => Untouched(d)
  /\ pc[d] \in {"enqueue", "enqueued", "rollback", "deleted", "cut"} => rpc[d] = "Submit"
  /\ pc[d] \in {"enqueue", "enqueued"} => Present(d)
  /\ pc[d] \in {"run", "reread", "cancelled"} => rpc[d] = "Process" /\ Present(d)
  /\ pc[d] = "reread" => Resolved(d)
  /\ pc[d] # "done" => reply[d] = NoReply

RowInv(d) ==
  Present(d) =>
    /\ docs[d].key = key[d]
    /\ key[d] \in Key
    /\ docs[d].status \in {"completed", "needs_review"} => docs[d].result \in Result
    /\ docs[d].status = "failed" => docs[d].error \in Error

\* Runs belong to one method, hold what they loaded and what they are about to
\* commit, and once they have committed the document is resolved.
RunInv(d) ==
  \A n \in Attempt :
    /\ run[d][n].pc # "idle" => rpc[d] = IF n = 0 THEN "Process" ELSE "Submit"
    /\ n = 0 /\ run[d][n].pc \in Live => pc[d] = "run"
    /\ run[d][n].pc \in Live \ {"load"} => run[d][n].key = key[d] /\ key[d] \in Key
    /\ run[d][n].pc \in {"finish", "finished"} => run[d][n].out \in Result
    /\ run[d][n].pc \in {"fail", "failed"} => run[d][n].out \in {"document", "internal"}
    /\ run[d][n].pc \in {"finished", "failed", "ok"} => Resolved(d) \/ ~Present(d)

Backed(d) == Resolved(d) \/ job[d] \in {"queued", "active", "exhausted"}

JobInv(d) ==
  /\ job[d] # "none" => rpc[d] = "Submit"
  /\ job[d] = "done" => Resolved(d) \/ ~Present(d)
  /\ pc[d] = "enqueued" => Backed(d)

ReplyInv(d) ==
  /\ reply[d].code = "OK" /\ reply[d].document_id = d => Present(d)
  /\ rpc[d] = "Submit" /\ reply[d].code = "OK" => reply[d].document_id = d /\ Backed(d)
  /\ rpc[d] = "Process" /\ reply[d].document_id = d =>
       /\ reply[d].code = "OK"
       /\ reply[d].status \in Terminal
       /\ (reply[d].status = "failed") <=> (reply[d].error # "none")
       /\ (reply[d].status = "failed") <=> (reply[d].result = "none")

EventInv(d) ==
  /\ Present(d) /\ ~Resolved(d) => Events(d) = {}
  /\ Resolved(d) => \E i \in Events(d) : Latest(d, i) /\ Reports(outbox[i], docs[d])
  /\ \A i \in Events(d) :
       /\ (outbox[i].data = "omitted") # (outbox[i].error = "omitted")
       /\ outbox[i].idempotency_key = key[d]

\* Whoever is still to commit an outcome is alone, and comes first.
SoloInv(d) ==
  ~disturbed[d] =>
    /\ \A i, j \in Events(d) : i = j
    /\ \A m, n \in Attempt : run[d][m].pc \in Live /\ run[d][n].pc \in Live => m = n
    /\ \A n \in Attempt : run[d][n].pc \in {"mark", "work", "finish", "fail"} => Events(d) = {}
    /\ run[d][0].pc = "load" => Events(d) = {}
    /\ pc[d] = "cancelled" \/ (pc[d] = "run" /\ run[d][0].pc = "cancelled") => Events(d) = {}

DocInv(d) ==
  CallInv(d) /\ RowInv(d) /\ RunInv(d) /\ JobInv(d) /\ ReplyInv(d) /\ EventInv(d) /\ SoloInv(d)

\* ux_documents_idempotency_key.
KeysAreUnique ==
  \A d, e \in DocId : Present(d) /\ Present(e) /\ docs[d].key = docs[e].key => d = e

IInv == TypeOK /\ (\A d \in DocId : DocInv(d)) /\ KeysAreUnique

=============================================================================
