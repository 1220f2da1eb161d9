------------------------ MODULE LifecycleRefinement ------------------------
(***************************************************************************)
(* DocumentLifecycle implements DocumentContract and, run by run,          *)
(* RunContract.                                                            *)
(***************************************************************************)
EXTENDS DocumentLifecycle

\* A row that is gone was deleted by its call, which has been refused since, is
\* still to be refused, or ended before it was.
TookBack(d)  == pc[d] \in {"deleted", "cut"} \/ reply[d].code = "RESOURCE_EXHAUSTED"
Withdrawn(d) == ~Present(d) /\ TookBack(d)

StateOf(d) ==
  CASE Resolved(d)                -> "resolved"
    [] Present(d) /\ ~Resolved(d) -> "open"
    [] Withdrawn(d)               -> "withdrawn"
    [] ~Present(d) /\ ~Withdrawn(d) -> "none"

OutcomeOf(d) ==
  IF ~Resolved(d) THEN "none"
  ELSE IF docs[d].status = "failed" THEN docs[d].error ELSE docs[d].result

\* An event carries data or an error.
EventOf(e) == [document_id |-> e.document_id, idempotency_key |-> e.idempotency_key,
               outcome |-> IF e.data = "omitted" THEN e.error ELSE e.data]

KeyOf(d)    == IF StateOf(d) = "none" THEN NULL ELSE key[d]
Promised(d) == reply[d].code = "OK" /\ reply[d].document_id = d

stateBar    == [d \in DocId |-> StateOf(d)]
keyBar      == [d \in DocId |-> KeyOf(d)]
outcomeBar  == [d \in DocId |-> OutcomeOf(d)]
logBar      == [i \in DOMAIN outbox |-> EventOf(outbox[i])]
promisedBar == {d \in DocId : Promised(d)}

Contract == INSTANCE DocumentContract WITH
  Outcome <- Result \cup Error, state <- stateBar, key <- keyBar,
  outcome <- outcomeBar, log <- logBar, promised <- promisedBar

AsksOf(r) ==
  CASE r.pc \in {"idle", "load", "mark", "work"} -> "nothing"
    [] r.pc \in {"finish", "finished"}           -> "result"
    [] r.pc \in {"fail", "failed"}               -> r.out
    [] OTHER                                     -> "over"

asksBar == [r \in DocId \X Attempt |-> AsksOf(run[r[1]][r[2]])]

RunsContract == INSTANCE RunContract WITH Runs <- DocId \X Attempt, asks <- asksBar

\* README, "Guarantees": whatever calls, runs and the queue do, callers and
\* consumers see documents that are opened once per key, resolved together
\* with their events, and withdrawn only if nobody was told of them.
ImplementsContract == Contract!Spec

\* A run asks for one outcome, and takes only a result back, however its store
\* calls raise and wherever it is cancelled or killed.
RunsKeepContract == RunsContract!Spec

-----------------------------------------------------------------------------
(***************************************************************************)
(* What the two refinements need beside the invariant of the lifecycle: an *)
(* attempt that was not handed out has not run, and if a document has a    *)
(* job or a run but no row, its caller took the row back.                  *)
(***************************************************************************)
RefinementInv(d) ==
  /\ \A n \in Attempt : n > tries[d] /\ n # 0 => run[d][n].pc = "idle"
  /\ pc[d] = "rollback" => Present(d)
  /\ job[d] # "none" \/ (\E n \in Attempt : run[d][n].pc # "idle") => Present(d) \/ Withdrawn(d)

RInv == IInv /\ \A d \in DocId : RefinementInv(d)

=============================================================================
