------------------------ MODULE MCDocumentLifecycle ------------------------
(***************************************************************************)
(* DocumentLifecycle on a few calls, and what the repository says of it    *)
(* that its code does not do.                                              *)
(***************************************************************************)
EXTENDS LifecycleRefinement, TLC

\* Calls are interchangeable: sound for the invariants and for the contract,
\* which do not tell them apart either, not for liveness.
Symmetry == Permutations(DocId)

-----------------------------------------------------------------------------
(* Claims of the repository that the runs refute *)

\* pipeline.py:153 says of a transient error "Re-raised so SAQ retries the
\* whole job; the document stays processing": a document left processing by a
\* call that was answered has a job to retry it.
TransientIsRetried ==
  \A c \in DocId : pc[c] = "done" /\ docs[c].status = "processing" => job[c] # "none"

\* servicer.py:174 says of a cancelled ProcessDocument "Nothing will ever
\* finish this document", and its event says "cancelled before completion": no
\* such event follows another one of the document.
CancelledBeforeCompletion ==
  \A d \in DocId : \A i, j \in Events(d) : outbox[j].error = "cancelled" => j <= i

\* README.md:104 says of an enqueue that failed "submit rolls the row back; the
\* caller retries safely": one key never has events of two documents.
RetryIsSafe ==
  \A i, j \in DOMAIN outbox :
    outbox[i].idempotency_key = outbox[j].idempotency_key
      => outbox[i].document_id = outbox[j].document_id

=============================================================================
