--------------------------- MODULE DocumentStore ---------------------------
(***************************************************************************)
(* The two Postgres tables of the engine, documents and outbox_events, and *)
(* the methods of repo/store.py that change them.  Every method is a       *)
(* single SQL statement or a single transaction, so every operator below   *)
(* is one atomic update; what happens between two of them is left to the   *)
(* modules that call them.                                                 *)
(*                                                                         *)
(* Columns kept: the ones that some code reads back to decide something.   *)
(* external_ref, caller_id, source_*, trace_id and created_at are written  *)
(* once by submit_document and only echoed; avg_confidence follows result; *)
(* processed_at is set by finish_document only (see ResultRetention for    *)
(* the sweep that reads it); error_code and error_message are one value.   *)
(***************************************************************************)
EXTENDS Naturals, Sequences

CONSTANTS
  DocId,    \* document ids (the uuid4 values the api process draws)
  Key,      \* idempotency keys
  NULL      \* "no value" where a key or a document id is expected

VARIABLES
  docs,     \* table documents, a function from DocId to rows
  outbox    \* table outbox_events: payloads in the order they were committed

storeVars == <<docs, outbox>>

(***************************************************************************)
(* A result is told apart only by whether build_result found an issue; an  *)
(* error only by what raised it: the document itself (a DocumentFailed     *)
(* code, a permanent provider error), anything unexpected, or a cancelled  *)
(* synchronous call.                                                       *)
(***************************************************************************)
Result == {"clean", "flagged"}
Error  == {"document", "internal", "cancelled"}

Terminal    == {"completed", "needs_review", "failed"}
Processable == {"queued", "processing"}

NoRow == [key |-> NULL, status |-> "absent", result |-> "null", error |-> "null"]

Row == [key: Key, status: Processable \cup Terminal,
        result: Result \cup {"null"}, error: Error \cup {"null"}]

Payload == [document_id: DocId, idempotency_key: Key,
            data: Result \cup {"omitted"}, error: Error \cup {"omitted"}]

StoreTypeOK ==
  /\ docs \in [DocId -> Row \cup {NoRow}]
  /\ outbox \in Seq(Payload)

Present(d)  == docs[d].status # "absent"
Resolved(d) == docs[d].status \in Terminal

\* ux_documents_idempotency_key: the unique index an INSERT may run into.
KeyTaken(k) == \E d \in DocId : Present(d) /\ docs[d].key = k

StoreInit ==
  /\ docs = [d \in DocId |-> NoRow]
  /\ outbox = << >>

-----------------------------------------------------------------------------
(* events/envelope.py *)

\* Mutant of build_envelope: data is always there, null or not.
EnvelopeWithNullData(d, k, status, result, error) ==
  [document_id     |-> d,
   idempotency_key |-> k,
   data  |-> result,
   error |-> IF status = "failed" /\ error # "null" THEN error ELSE "omitted"]

\* data and error are omitted from the envelope, never null.
build_envelope(d, k, status, result, error) ==
  [document_id     |-> d,
   idempotency_key |-> k,
   data  |-> IF status \in {"completed", "needs_review"} THEN result ELSE "omitted",
   error |-> IF status = "failed" /\ error # "null" THEN error ELSE "omitted"]

-----------------------------------------------------------------------------
(* repo/store.py *)

\* Mutant of submit_document: no unique index.
SubmitWithoutIndex(d, k) ==
  /\ docs' = [docs EXCEPT ![d] = [key |-> k, status |-> "queued",
                                  result |-> "null", error |-> "null"]]
  /\ UNCHANGED outbox

\* The INSERT of a queued row; enabled when the unique index lets it pass.
submit_document(d, k) ==
  /\ ~KeyTaken(k)
  /\ docs' = [docs EXCEPT ![d] = [key |-> k, status |-> "queued",
                                  result |-> "null", error |-> "null"]]
  /\ UNCHANGED outbox

\* Mutant of mark_processing: no AND status = 'queued'.
MarkUnguarded(d) ==
  /\ docs' = IF Present(d) THEN [docs EXCEPT ![d].status = "processing"] ELSE docs
  /\ UNCHANGED outbox

mark_processing(d) ==
  /\ docs' = IF docs[d].status = "queued"
             THEN [docs EXCEPT ![d].status = "processing"]
             ELSE docs
  /\ UNCHANGED outbox

\* Mutant of finish_document: an UPDATE that spares an outcome, with the INSERT
\* of the event left as it is.
FinishFirstOnly(d, status, result, error, payload) ==
  /\ docs' = IF docs[d].status \in Processable
             THEN [docs EXCEPT ![d] = [key |-> docs[d].key, status |-> status,
                                       result |-> result, error |-> error]]
             ELSE docs
  /\ outbox' = Append(outbox, payload)

\* One transaction: the UPDATE touches no row when the document is gone, and
\* has no guard on the status; the INSERT of the event happens regardless.
finish_document(d, status, result, error, payload) ==
  /\ docs' = IF Present(d)
             THEN [docs EXCEPT ![d] = [key |-> docs[d].key, status |-> status,
                                       result |-> result, error |-> error]]
             ELSE docs
  /\ outbox' = Append(outbox, payload)

\* The DELETE the api issues when an enqueue failed.
delete_document(d) ==
  /\ docs' = [docs EXCEPT ![d] = NoRow]
  /\ UNCHANGED outbox

=============================================================================
