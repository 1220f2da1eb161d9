-------------------------- MODULE ResultRetention --------------------------
(***************************************************************************)
(* The retention sweep: cleanup_expired_results (worker/settings.py), a    *)
(* SAQ cron job, over list_expired_documents and purge_document_results    *)
(* (repo/store.py).  Time is kept as what the two statements see of it:    *)
(* the order of the documents by processed_at, and how many of them are    *)
(* past the retention window.                                              *)
(***************************************************************************)
EXTENDS Naturals, Sequences, FiniteSets, SequencesExt

CONSTANTS
  Doc,      \* documents
  Batch     \* the LIMIT of list_expired_documents

ASSUME BatchAssumption == Batch \in Nat \ {0}

VARIABLES
  history,   \* documents with a processed_at, oldest first
  expired,   \* how many of them have processed_at < now - RESULT_RETENTION
  stored,    \* documents whose result or error_message is not NULL
  listed,    \* the ids a running sweep read and has not purged yet
  overtaken  \* history: documents completed again between the two statements
             \* of a sweep, and not since

vars == <<history, expired, stored, listed, overtaken>>

Init ==
  /\ history = << >>
  /\ expired = 0
  /\ stored = {}
  /\ listed = {}
  /\ overtaken = {}

Expired == {history[i] : i \in 1 .. expired}

\* Mutant of Finish: a second run adds a row instead of updating it.
FinishInserts(d) ==
  /\ history' = Append(history, d)
  /\ stored' = stored \cup {d}
  /\ UNCHANGED <<expired, listed, overtaken>>

\* finish_document sets processed_at = now() and the result or the error,
\* whatever the row holds: a second run may finish a document again, also one
\* that has left the window and is about to be purged.
Finish(d) ==
  /\ history' = Append(RemoveFirst(history, d), d)
  /\ expired' = IF d \in Expired THEN expired - 1 ELSE expired
  /\ stored' = stored \cup {d}
  /\ overtaken' = IF d \in listed THEN overtaken \cup {d} ELSE overtaken \ {d}
  /\ UNCHANGED listed

\* The oldest document still inside the window leaves it.
Age ==
  /\ expired < Len(history)
  /\ expired' = expired + 1
  /\ UNCHANGED <<history, stored, listed, overtaken>>

\* Mutants of list_expired_documents: no cutoff; newest first.
ListAny    == {history[i] : i \in {j \in DOMAIN history : j <= Batch}}
ListNewest == {history[i] : i \in {j \in 1 .. expired : j + Batch > expired}}

\* WHERE processed_at < cutoff ORDER BY processed_at LIMIT Batch: a document
\* that was purged before qualifies again.
list_expired_documents ==
  {history[i] : i \in {j \in 1 .. expired : j <= Batch}}

List ==
  /\ listed = {}
  /\ list_expired_documents # {}
  /\ listed' = list_expired_documents
  /\ overtaken' = overtaken \ listed'
  /\ UNCHANGED <<history, expired, stored>>

\* purge_document_results: by id, without a look at processed_at.  The row
\* itself stays.
Purge ==
  /\ listed # {}
  /\ stored' = stored \ listed
  /\ listed' = {}
  /\ UNCHANGED <<history, expired, overtaken>>

\* The worker dies, or the statement fails, between the two.
SweepFails ==
  /\ listed # {}
  /\ listed' = {}
  /\ overtaken' = overtaken \ listed
  /\ UNCHANGED <<history, expired, stored>>

Next == (\E d \in Doc : Finish(d)) \/ Age \/ List \/ Purge \/ SweepFails

Spec == Init /\ [][Next]_vars

\* Time passes, the cron job runs every half hour, and of infinitely many
\* sweeps some are not cut short.
Fairness == WF_vars(Age) /\ WF_vars(List) /\ SF_vars(Purge)

FairSpec == Spec /\ Fairness

-----------------------------------------------------------------------------
(* Properties *)

\* The type invariant; a document has one row.
TypeOK ==
  /\ history \in Seq(Doc)
  /\ IsInjective(history)
  /\ expired \in 0 .. Len(history)
  /\ stored \subseteq ToSet(history)
  /\ listed \subseteq ToSet(history)
  /\ overtaken \subseteq ToSet(history)

\* A result inside the retention window is readable, with one way out: the ids
\* to purge are read in one statement and purged in another, which does not
\* look at processed_at again, so the result of a document that completes
\* again between the two is lost.
WindowIsKept ==
  ToSet(history) \ Expired \subseteq stored \cup overtaken

\* What the sweep reaches it purges: the Batch oldest documents lose their
\* results once they leave the window, unless they complete again.
OldestArePurged ==
  \A d \in Doc :
    (\E i \in 1 .. expired : i <= Batch /\ history[i] = d) ~> (d \notin stored \/ d \notin Expired)

-----------------------------------------------------------------------------

\* The inductive invariant: what a sweep has listed is expired or overtaken,
\* and what overtook a sweep that is still to purge is stored.
IInv ==
  /\ TypeOK
  /\ WindowIsKept
  /\ listed \subseteq Expired \cup overtaken
  /\ listed \cap overtaken \subseteq stored

=============================================================================
