--------------------- MODULE LifecycleRefinementProofs ---------------------
(***************************************************************************)
(* DocumentLifecycle implements DocumentContract and RunContract, for any  *)
(* number of calls, keys and tries.                                        *)
(***************************************************************************)
EXTENDS LifecycleRefinement, DocumentLifecycleProofs

-----------------------------------------------------------------------------
(* The invariant of the refinements *)

\* A step that leaves a document alone.
LEMMA RefinementFrame ==
  ASSUME NEW e \in DocId, RefinementInv(e), Same(e)
  PROVE  RefinementInv(e)'
BY DEF RefinementInv, Same, Present, Withdrawn, TookBack

\* A step of a document whose row stays or was not there, whose call goes on,
\* and that hands out no attempt and no job.
LEMMA RefinementQuiet ==
  ASSUME NEW d \in DocId, RefinementInv(d), Present(d)' <=> Present(d),
         tries'[d] = tries[d], TookBack(d)' <=> TookBack(d),
         pc'[d] = "rollback" => Present(d),
         job'[d] # "none" => job[d] # "none" \/ Present(d),
         \A n \in Attempt : run'[d][n].pc # "idle" =>
            run[d][n].pc # "idle" \/ (Present(d) /\ n = 0)
  PROVE  RefinementInv(d)'
BY DEF RefinementInv, Withdrawn

\* Steps of a handler.
LEMMA RefinementCall ==
  ASSUME RInv, NEW c \in DocId, Call(c)
  PROVE  RefinementInv(c)'
<1> USE DEF Goto, Done, storeVars, jobVars
<1>0. /\ RefinementInv(c) /\ CallInv(c) /\ 0 \in Attempt /\ IInv
      /\ docs \in [DocId -> Row \cup {NoRow}] /\ run \in [DocId -> [Attempt -> Run]]
      /\ pc \in [DocId -> CallPC] /\ job \in [DocId -> {"none", "queued", "active", "done", "exhausted"}]
      /\ reply \in [DocId -> Reply] /\ tries \in [DocId -> Attempt]
  BY MaxTriesAssumption DEF RInv, IInv, DocInv, TypeOK, StoreTypeOK, Attempt
<1>1. ASSUME pc[c] \in {"idle", "insert", "lookup"},
             UNCHANGED <<docs, job, tries, run>>, pc'[c] # "rollback"
      PROVE  RefinementInv(c)'
  BY <1>0, <1>1 DEF RefinementInv, CallInv, Untouched, Present
<1>2. ASSUME UNCHANGED <<docs, job, tries, run>>, pc'[c] = "rollback" => Present(c), Present(c)
      PROVE  RefinementInv(c)'
  BY <1>0, <1>2 DEF RefinementInv, Present
<1>3. ASSUME NEW m \in Method, NEW k \in Key, NEW r \in Request, Receive(c, m, k, r)
      PROVE  RefinementInv(c)'
  BY <1>0, <1>1, <1>3 DEF Receive
<1>4. CASE Insert(c)
  <2>1. Present(c)'
    BY <1>0, <1>4 DEF Insert, submit_document, Present
  <2>2. \A n \in Attempt : n # 0 => run'[c][n] = run[c][n]
    <3>1. UNCHANGED run \/ Reset(c, 0, "load")
      BY <1>4 DEF Insert
    <3>2. CASE Reset(c, 0, "load")
      <4>1. OnlyRun(c, 0, RunAt("load"))
        BY <1>0, <3>2, RunMoves DEF RunPC
      <4> QED BY <4>1 DEF OnlyRun
    <3> QED BY <3>1, <3>2
  <2> QED BY <1>0, <1>4, <2>1, <2>2 DEF Insert, RefinementInv
<1>5. CASE InsertConflict(c) \/ Lookup(c)
  BY <1>0, <1>1, <1>5 DEF InsertConflict, Lookup
<1>6. CASE EnqueueAccepted(c)
  BY <1>0, <1>6 DEF EnqueueAccepted, CallInv, RefinementInv, Present
<1>7. CASE SubmitOK(c) \/ EnqueueRaises(c)
  BY <1>0, <1>2, <1>7 DEF SubmitOK, EnqueueRaises, CallInv
<1>8. CASE Rollback(c)
  <2>1. pc'[c] = "deleted" /\ TookBack(c)'
    BY <1>0, <1>8 DEF Rollback, TookBack
  <2> QED BY <1>0, <1>8, <2>1 DEF Rollback, RefinementInv, Withdrawn, Present
<1>13. CASE Refuse(c)
  <2>1. reply'[c].code = "RESOURCE_EXHAUSTED" /\ pc'[c] = "done"
    BY <1>0, <1>13 DEF Refuse, Answer
  <2> QED BY <1>0, <1>13, <2>1 DEF Refuse, RefinementInv, Withdrawn, TookBack, Present
<1>9. CASE InlineEnds(c)
  <2>1. pc'[c] # "rollback"
    BY <1>0, <1>9 DEF InlineEnds, Ended
  <2> QED BY <1>0, <1>2, <1>9, <2>1 DEF InlineEnds, CallInv
<1>10. CASE Reread(c)
  BY <1>0, <1>2, <1>10 DEF Reread, CallInv
<1>11. CASE MarkCancelled(c)
  <2>1. Present(c)'
    BY <1>0, <1>11 DEF MarkCancelled, finish_document, CallInv, Present
  <2>2. pc'[c] # "rollback"
    BY <1>0, <1>11 DEF MarkCancelled
  <2> QED BY <1>0, <1>11, <2>1, <2>2 DEF MarkCancelled, RefinementInv
<1>12. CASE Abandon(c)
  <2>1. /\ pc'[c] = (IF pc[c] = "deleted" THEN "cut" ELSE "gone") /\ reply' = reply
        /\ docs' = docs /\ tries' = tries /\ job' = job
    BY <1>0, <1>12 DEF Abandon
  <2>2. CASE pc[c] = "run"
    <3>1. \A n \in Attempt : n # 0 => run'[c][n] = run[c][n]
      <4>1. Reset(c, 0, "dead")
        BY <1>12, <2>2 DEF Abandon
      <4>2. OnlyRun(c, 0, RunAt("dead"))
        BY <1>0, <4>1, RunMoves DEF RunPC
      <4> QED BY <4>2 DEF OnlyRun
    <3> QED BY <1>0, <2>1, <2>2, <3>1 DEF RefinementInv, CallInv, Present
  <2>3. CASE pc[c] # "run"
    <3>1. run' = run
      BY <1>12, <2>3 DEF Abandon
    <3>2. TookBack(c) => TookBack(c)'
      BY <1>12, <2>1 DEF TookBack, Abandon
    <3>3. pc'[c] # "rollback"
      BY <2>1
    <3> QED BY <1>0, <2>1, <3>1, <3>2, <3>3 DEF RefinementInv, Withdrawn, Present
  <2> QED BY <2>2, <2>3
<1> QED
  BY <1>3, <1>4, <1>5, <1>6, <1>7, <1>8, <1>9, <1>10, <1>11, <1>12, <1>13 DEF Call

\* What a run asks for may change from a to b.
May(a, b) ==
  \/ b = a
  \/ a = "nothing" /\ b \in {"result", "document", "internal"}
  \/ a = "result" /\ b = "internal"
  \/ b = "over"

\* A run moves as RunContract allows, on its own, and only if it was started.
LEMMA RunMove ==
  ASSUME IInv, NEW d \in DocId, NEW n \in Attempt, RunStep(d, n)
  PROVE  /\ run[d][n].pc # "idle"
         /\ \E r \in Run : OnlyRun(d, n, r) /\ May(AsksOf(run[d][n]), AsksOf(r))
<1> USE DEF May, AsksOf
<1>0. /\ run \in [DocId -> [Attempt -> Run]] /\ run[d][n] \in Run /\ RunInv(d)
      /\ docs[d].key \in Key \cup {NULL}
  BY DEF IInv, DocInv, TypeOK, StoreTypeOK, Row, NoRow
<1>1. ASSUME NEW l \in {"ok", "raised", "cancelled", "dead"}, Reset(d, n, l)
      PROVE  \E r \in Run : OnlyRun(d, n, r) /\ May(AsksOf(run[d][n]), AsksOf(r))
  <2>1. OnlyRun(d, n, RunAt(l))
    BY <1>0, <1>1, RunMoves DEF RunPC
  <2>2. AsksOf(RunAt(l)) = "over"
    BY DEF RunAt
  <2>3. RunAt(l) \in Run
    BY <2>1 DEF OnlyRun
  <2> QED BY <2>1, <2>2, <2>3
<1>2. CASE Load(d, n)
  <2>1. CASE docs[d].status \in Processable
    <3> DEFINE r == [pc |-> "mark", key |-> docs[d].key, out |-> "none"]
    <3>1. Hold(d, n, "mark", docs[d].key) /\ run[d][n].pc = "load"
      BY <1>2, <2>1 DEF Load
    <3>2. OnlyRun(d, n, r)
      BY <1>0, <3>1, RunMoves DEF RunPC
    <3>3. r \in Run
      BY <3>2 DEF OnlyRun
    <3> QED BY <3>1, <3>2, <3>3
  <2>2. CASE docs[d].status \notin Processable
    BY <1>1, <1>2, <2>2 DEF Load
  <2> QED BY <2>1, <2>2
<1>3. CASE Mark(d, n)
  <2> DEFINE r == [pc |-> "work", key |-> run[d][n].key, out |-> run[d][n].out]
  <2>1. RunGoto(d, n, "work") /\ run[d][n].pc = "mark"
    BY <1>3 DEF Mark
  <2>2. OnlyRun(d, n, r)
    BY <1>0, <2>1, RunMoves DEF RunPC
  <2>3. r \in Run
    BY <2>2 DEF OnlyRun
  <2> QED BY <2>1, <2>2, <2>3
<1>4. CASE Work(d, n)
  <2>0. run[d][n].pc = "work"
    BY <1>4 DEF Work
  <2>1. ASSUME NEW o \in Result, Decide(d, n, "finish", o)
        PROVE  \E r \in Run : OnlyRun(d, n, r) /\ May(AsksOf(run[d][n]), AsksOf(r))
    <3> DEFINE r == [pc |-> "finish", key |-> run[d][n].key, out |-> o]
    <3>1. OnlyRun(d, n, r)
      BY <1>0, <2>1, RunMoves DEF RunPC, Outcome
    <3>2. r \in Run
      BY <3>1 DEF OnlyRun
    <3> QED BY <2>0, <3>1, <3>2
  <2>2. ASSUME NEW o \in {"document", "internal"}, Decide(d, n, "fail", o)
        PROVE  \E r \in Run : OnlyRun(d, n, r) /\ May(AsksOf(run[d][n]), AsksOf(r))
    <3> DEFINE r == [pc |-> "fail", key |-> run[d][n].key, out |-> o]
    <3>1. OnlyRun(d, n, r)
      BY <1>0, <2>2, RunMoves DEF RunPC, Outcome
    <3>2. r \in Run
      BY <3>1 DEF OnlyRun
    <3> QED BY <2>0, <3>1, <3>2
  <2> QED BY <1>1, <1>4, <2>0, <2>1, <2>2 DEF Work
<1>5. CASE Finish(d, n) \/ Fail(d, n)
  <2> DEFINE l == IF run[d][n].pc = "finish" THEN "finished" ELSE "failed"
             r == [pc |-> l, key |-> run[d][n].key, out |-> run[d][n].out]
  <2>1. RunGoto(d, n, l) /\ run[d][n].pc \in {"finish", "fail"}
    BY <1>5 DEF Finish, Fail
  <2>2. OnlyRun(d, n, r)
    BY <1>0, <2>1, RunMoves DEF RunPC
  <2>3. r \in Run
    BY <2>2 DEF OnlyRun
  <2>4. AsksOf(r) = AsksOf(run[d][n])
    BY <2>1
  <2> QED BY <2>1, <2>2, <2>3, <2>4
<1>6. CASE Return(d, n)
  BY <1>1, <1>6 DEF Return
<1>7. CASE Raise(d, n)
  <2>1. ASSUME run[d][n].pc \in {"finish", "finished"}, Decide(d, n, "fail", "internal")
        PROVE  \E r \in Run : OnlyRun(d, n, r) /\ May(AsksOf(run[d][n]), AsksOf(r))
    <3> DEFINE r == [pc |-> "fail", key |-> run[d][n].key, out |-> "internal"]
    <3>1. OnlyRun(d, n, r)
      BY <1>0, <2>1, RunMoves DEF RunPC, Outcome
    <3>2. r \in Run
      BY <3>1 DEF OnlyRun
    <3> QED BY <2>1, <3>1, <3>2
  <2>2. run[d][n].pc # "idle"
    BY <1>7 DEF Raise
  <2> QED BY <1>1, <1>7, <2>1, <2>2 DEF Raise
<1>8. CASE Cancel(d, n) \/ Crash(d, n)
  <2>1. run[d][n].pc # "idle"
    BY <1>8 DEF Cancel, Crash, Live, Ended
  <2> QED BY <1>1, <1>8, <2>1 DEF Cancel, Crash
<1> QED
  BY <1>2, <1>3, <1>4, <1>5, <1>6, <1>7, <1>8 DEF RunStep, Progress

\* A run neither inserts nor deletes its row.
LEMMA RunKeepsRow ==
  ASSUME IInv, NEW d \in DocId, NEW n \in Attempt, RunStep(d, n)
  PROVE  (Present(d)' <=> Present(d)) /\ UNCHANGED <<callVars, jobVars>>
<1> USE DEF storeVars, Present
<1>0. docs \in [DocId -> Row \cup {NoRow}]
  BY DEF IInv, TypeOK, StoreTypeOK
<1>1. CASE Mark(d, n)
  BY <1>0, <1>1 DEF Mark, mark_processing
<1>2. CASE Finish(d, n)
  BY <1>0, <1>2 DEF Finish, finish_document, StatusOf
<1>3. CASE Fail(d, n)
  BY <1>0, <1>3 DEF Fail, finish_document
<1>4. CASE Load(d, n) \/ Work(d, n) \/ Return(d, n) \/ Raise(d, n) \/ Cancel(d, n) \/ Crash(d, n)
  BY <1>4 DEF Load, Work, Return, Raise, Cancel, Crash
<1> QED BY <1>1, <1>2, <1>3, <1>4 DEF RunStep, Progress

\* Steps of a run.
LEMMA RefinementRun ==
  ASSUME RInv, NEW d \in DocId, NEW n \in Attempt, RunStep(d, n)
  PROVE  RefinementInv(d)'
<1>1. RefinementInv(d) /\ IInv
  BY DEF RInv
<1>2. (Present(d)' <=> Present(d)) /\ UNCHANGED <<pc, reply, job, tries>>
  BY <1>1, RunKeepsRow DEF callVars, jobVars
<1>3. \A m \in Attempt : run'[d][m].pc # "idle" => run[d][m].pc # "idle"
  BY <1>1, RunMove DEF OnlyRun
<1>4. pc'[d] = "rollback" => Present(d)
  BY <1>1, <1>2 DEF RefinementInv
<1>5. TookBack(d)' <=> TookBack(d)
  BY <1>2 DEF TookBack
<1> QED BY <1>1, <1>2, <1>3, <1>4, <1>5, RefinementQuiet

\* Steps of SAQ, which hands out the attempts one after the other.
LEMMA RefinementSaq ==
  ASSUME RInv, NEW d \in DocId, Saq(d)
  PROVE  RefinementInv(d)'
<1> USE DEF storeVars, callVars
<1>0. /\ RefinementInv(d) /\ IInv /\ run \in [DocId -> [Attempt -> Run]]
      /\ job \in [DocId -> {"none", "queued", "active", "done", "exhausted"}]
      /\ tries \in [DocId -> Attempt] /\ Attempt \subseteq Nat
  BY MaxTriesAssumption DEF RInv, IInv, TypeOK, Attempt
<1>1. /\ UNCHANGED <<pc, reply>>
      /\ (Present(d)' <=> Present(d))
      /\ (job[d] # "none" \/ \E n \in Attempt : run[d][n].pc # "idle")
  BY DEF Saq, Dequeue, Sweep, Ack, Present, Ended
<1>2. pc'[d] = "rollback" => Present(d)'
  BY <1>0, <1>1 DEF RefinementInv
<1>3. Present(d)' \/ Withdrawn(d)'
  BY <1>0, <1>1 DEF RefinementInv, Withdrawn, TookBack
<1>4. ASSUME NEW m \in Attempt, m > tries'[d], m # 0
      PROVE  run'[d][m].pc = "idle"
  <2>1. CASE Dequeue(d)
    <3>1. tries[d] + 1 \in Attempt /\ tries'[d] = tries[d] + 1
      BY <1>0, <2>1, MaxTriesAssumption DEF Dequeue, Attempt
    <3>2. OnlyRun(d, tries[d] + 1, RunAt("load"))
      BY <1>0, <2>1, <3>1, RunMoves DEF Dequeue, RunPC
    <3>3. m # tries[d] + 1 /\ m > tries[d]
      <4>1. m \in Nat /\ tries[d] \in Nat
        BY <1>0
      <4> QED BY <1>4, <3>1, <4>1
    <3> QED BY <1>0, <1>4, <3>2, <3>3 DEF OnlyRun, RefinementInv
  <2>2. CASE Sweep(d)
    BY <1>0, <1>4, <2>2 DEF Sweep, RefinementInv
  <2>3. ASSUME NEW n \in Attempt, Ack(d, n)
        PROVE  run'[d][m].pc = "idle"
    <3>1. OnlyRun(d, n, RunAt("acked"))
      BY <1>0, <2>3, RunMoves DEF Ack, RunPC
    <3>2. run[d][m].pc = "idle" /\ run[d][n].pc # "idle"
      BY <1>0, <1>4, <2>3 DEF Ack, RefinementInv, Ended
    <3> QED BY <3>1, <3>2 DEF OnlyRun
  <2> QED BY <2>1, <2>2, <2>3 DEF Saq
<1> QED BY <1>2, <1>3, <1>4 DEF RefinementInv

\* The invariant of the refinements is inductive.
LEMMA RefinementInductive ==
  Spec => []RInv
<1>1. Init => RInv
  <2> SUFFICES ASSUME Init, NEW d \in DocId
               PROVE  RefinementInv(d)
    BY Initially DEF RInv
  <2> QED BY DEF Init, RefinementInv, NoRun, RunAt
<1>2. RInv /\ [Next]_vars => RInv'
  <2> SUFFICES ASSUME RInv, [Next]_vars, NEW e \in DocId
               PROVE  RefinementInv(e)'
    BY Inductive DEF RInv
  <2>0. IInv /\ RefinementInv(e)
    BY DEF RInv
  <2>1. CASE Next
    <3>1. PICK d \in DocId : Call(d) \/ Saq(d) \/ \E n \in Attempt : RunStep(d, n)
      BY <2>1 DEF Next
    <3>2. CASE d = e
      BY <3>1, <3>2, RefinementCall, RefinementSaq, RefinementRun
    <3>3. CASE d # e
      BY <2>0, <3>1, <3>3, CallOthers, SaqOthers, RunOthers, RefinementFrame
    <3> QED BY <3>2, <3>3
  <2>2. CASE UNCHANGED vars
    <3>1. Same(e)
      BY <2>2, EventsKept DEF vars, storeVars, callVars, jobVars, Same
    <3> QED BY <2>0, <3>1, RefinementFrame
  <2> QED BY <2>1, <2>2
<1> QED BY <1>1, <1>2, PTL DEF Spec

-----------------------------------------------------------------------------
(* Runs implement RunContract *)

\* A step moves at most one run: a handler starts or takes down run 0 of its
\* call, SAQ starts an attempt that has not run and ends what is over.
LEMMA StepMoves ==
  ASSUME RInv, NEW d \in DocId, Call(d) \/ Saq(d) \/ \E n \in Attempt : RunStep(d, n)
  PROVE  \/ run' = run
         \/ \E n \in Attempt : \E r \in Run :
              OnlyRun(d, n, r) /\ May(AsksOf(run[d][n]), AsksOf(r))
<1>0. /\ RefinementInv(d) /\ CallInv(d) /\ IInv /\ run \in [DocId -> [Attempt -> Run]]
      /\ tries \in [DocId -> Attempt] /\ 0 \in Attempt /\ Attempt \subseteq Nat
  BY MaxTriesAssumption DEF RInv, IInv, DocInv, TypeOK, Attempt
<1>1. ASSUME NEW n \in Attempt, NEW l \in RunPC, Reset(d, n, l),
             May(AsksOf(run[d][n]), AsksOf(RunAt(l)))
      PROVE  \E r \in Run : OnlyRun(d, n, r) /\ May(AsksOf(run[d][n]), AsksOf(r))
  <2>1. OnlyRun(d, n, RunAt(l))
    BY <1>0, <1>1, RunMoves
  <2>2. RunAt(l) \in Run
    BY <2>1 DEF OnlyRun
  <2> QED BY <1>1, <2>1, <2>2
<1>2. CASE Call(d)
  <2>1. CASE Insert(d)
    <3>1. run[d][0].pc = "idle"
      BY <1>0, <2>1 DEF Insert, CallInv, Untouched
    <3>2. May(AsksOf(run[d][0]), AsksOf(RunAt("load")))
      BY <3>1 DEF May, AsksOf, RunAt
    <3>3. run' = run \/ Reset(d, 0, "load")
      BY <2>1 DEF Insert
    <3> QED BY <1>0, <1>1, <3>2, <3>3 DEF RunPC
  <2>2. CASE Abandon(d)
    <3>1. May(AsksOf(run[d][0]), AsksOf(RunAt("dead")))
      BY DEF May, AsksOf, RunAt
    <3>2. run' = run \/ Reset(d, 0, "dead")
      BY <2>2 DEF Abandon
    <3> QED BY <1>0, <1>1, <3>1, <3>2 DEF RunPC
  <2> QED BY <1>2, <2>1, <2>2 DEF Call, Receive, InsertConflict, Lookup, EnqueueAccepted,
            SubmitOK, EnqueueRaises, Rollback, Refuse, InlineEnds, Reread, MarkCancelled
<1>3. CASE Saq(d)
  <2>1. CASE Dequeue(d)
    <3>1. tries[d] + 1 \in Attempt
      BY <1>0, <2>1, MaxTriesAssumption DEF Dequeue, Attempt
    <3>2. run[d][tries[d] + 1].pc = "idle"
      <4>1. tries[d] \in Nat
        BY <1>0
      <4>2. tries[d] + 1 > tries[d] /\ tries[d] + 1 # 0
        BY <4>1
      <4> QED BY <1>0, <3>1, <4>2 DEF RefinementInv
    <3>3. May(AsksOf(run[d][tries[d] + 1]), AsksOf(RunAt("load")))
      BY <3>2 DEF May, AsksOf, RunAt
    <3> QED BY <1>1, <2>1, <3>1, <3>3 DEF Dequeue, RunPC
  <2>2. CASE Sweep(d)
    BY <2>2 DEF Sweep
  <2>3. ASSUME NEW n \in Attempt, Ack(d, n)
        PROVE  \E r \in Run : OnlyRun(d, n, r) /\ May(AsksOf(run[d][n]), AsksOf(r))
    <3>1. May(AsksOf(run[d][n]), AsksOf(RunAt("acked")))
      BY DEF May, AsksOf, RunAt
    <3> QED BY <1>1, <2>3, <3>1 DEF Ack, RunPC
  <2> QED BY <1>3, <2>1, <2>2, <2>3 DEF Saq
<1>4. ASSUME NEW n \in Attempt, RunStep(d, n)
      PROVE  \E r \in Run : OnlyRun(d, n, r) /\ May(AsksOf(run[d][n]), AsksOf(r))
  BY <1>0, <1>4, RunMove
<1> QED BY <1>2, <1>3, <1>4

\* The runs of the lifecycle ask for what process_document may ask for: of
\* every attempt of every document, one outcome, or a result taken back for an
\* internal failure, wherever it is cancelled, killed or repeated.
THEOREM RunsImplementContract ==
  Spec => RunsKeepContract
<1>1. Init => RunsContract!Init
  <2> SUFFICES ASSUME Init
               PROVE  asksBar = [r \in DocId \X Attempt |-> "nothing"]
    BY DEF RunsContract!Init
  <2>1. ASSUME NEW r \in DocId \X Attempt
        PROVE  AsksOf(run[r[1]][r[2]]) = "nothing"
    BY <2>1 DEF Init, AsksOf, NoRun, RunAt
  <2> QED BY <2>1 DEF asksBar
<1>2. RInv /\ [Next]_vars => [RunsContract!Next]_asksBar
  <2> SUFFICES ASSUME RInv, [Next]_vars
               PROVE  RunsContract!Next \/ asksBar' = asksBar
    OBVIOUS
  <2>1. CASE run' = run
    BY <2>1 DEF asksBar
  <2>2. CASE run' # run
    <3>1. PICK d \in DocId : Call(d) \/ Saq(d) \/ \E n \in Attempt : RunStep(d, n)
      BY <2>2 DEF Next, vars
    <3>2. PICK n \in Attempt : \E r \in Run : OnlyRun(d, n, r) /\ May(AsksOf(run[d][n]), AsksOf(r))
      BY <2>2, <3>1, StepMoves
    <3>3. PICK r \in Run : OnlyRun(d, n, r) /\ May(AsksOf(run[d][n]), AsksOf(r))
      BY <3>2
    <3>4. <<d, n>> \in DocId \X Attempt /\ asksBar[<<d, n>>] = AsksOf(run[d][n])
      BY DEF asksBar
    <3>5. asksBar' = [asksBar EXCEPT ![<<d, n>>] = AsksOf(r)]
      <4>1. ASSUME NEW q \in DocId \X Attempt
            PROVE  AsksOf(run'[q[1]][q[2]]) =
                     IF q = <<d, n>> THEN AsksOf(r) ELSE AsksOf(run[q[1]][q[2]])
        BY <3>3 DEF OnlyRun
      <4> QED BY <4>1 DEF asksBar
    <3>6. May(asksBar[<<d, n>>], AsksOf(r))
      BY <3>3, <3>4
    <3>7. CASE AsksOf(r) = asksBar[<<d, n>>]
      BY <3>4, <3>5, <3>7 DEF asksBar
    <3>8. CASE AsksOf(r) # asksBar[<<d, n>>]
      BY <3>4, <3>5, <3>6, <3>8 DEF May, RunsContract!Next, RunsContract!Decide,
                RunsContract!TakeBack, RunsContract!End
    <3> QED BY <3>7, <3>8
  <2> QED BY <2>1, <2>2
<1> QED BY RefinementInductive, <1>1, <1>2, PTL DEF Spec, RunsKeepContract, RunsContract!Spec

-----------------------------------------------------------------------------
(* The lifecycle implements DocumentContract *)

Outcomes == Result \cup Error

\* A step of one document, as DocumentContract sees it.
OneDocument(d) == \A e \in DocId : e # d => Same(e)

\* The state of the contract differs from before at that document alone.
LEMMA Bars ==
  ASSUME NEW d \in DocId, OneDocument(d)
  PROVE  /\ stateBar'   = [stateBar EXCEPT ![d] = StateOf(d)']
         /\ keyBar'     = [keyBar EXCEPT ![d] = KeyOf(d)']
         /\ outcomeBar' = [outcomeBar EXCEPT ![d] = OutcomeOf(d)']
         /\ promisedBar' = IF Promised(d)' THEN promisedBar \cup {d} ELSE promisedBar \ {d}
<1>1. ASSUME NEW e \in DocId, e # d
      PROVE  /\ StateOf(e)' = StateOf(e) /\ KeyOf(e)' = KeyOf(e)
             /\ OutcomeOf(e)' = OutcomeOf(e) /\ Promised(e)' = Promised(e)
  <2>1. Same(e)
    BY <1>1 DEF OneDocument
  <2>2. StateOf(e)' = StateOf(e)
    BY <2>1 DEF Same, StateOf, Present, Resolved, Withdrawn, TookBack
  <2>3. KeyOf(e)' = KeyOf(e)
    BY <2>1, <2>2 DEF Same, KeyOf
  <2>4. OutcomeOf(e)' = OutcomeOf(e) /\ Promised(e)' = Promised(e)
    BY <2>1 DEF Same, OutcomeOf, Resolved, Promised
  <2> QED BY <2>2, <2>3, <2>4
<1>2. stateBar' = [stateBar EXCEPT ![d] = StateOf(d)']
  BY <1>1 DEF stateBar
<1>3. keyBar' = [keyBar EXCEPT ![d] = KeyOf(d)']
  BY <1>1 DEF keyBar
<1>4. outcomeBar' = [outcomeBar EXCEPT ![d] = OutcomeOf(d)']
  BY <1>1 DEF outcomeBar
<1>5. promisedBar' = IF Promised(d)' THEN promisedBar \cup {d} ELSE promisedBar \ {d}
  BY <1>1 DEF promisedBar
<1> QED BY <1>2, <1>3, <1>4, <1>5

\* A step that changes none of the three values of d changes none of theirs.
LEMMA BarsKept ==
  ASSUME NEW d \in DocId, OneDocument(d), StateOf(d)' = StateOf(d),
         KeyOf(d)' = KeyOf(d), OutcomeOf(d)' = OutcomeOf(d)
  PROVE  stateBar' = stateBar /\ keyBar' = keyBar /\ outcomeBar' = outcomeBar
BY Bars DEF stateBar, keyBar, outcomeBar

\* A committed payload is an event of the contract.
LEMMA LogGrows ==
  ASSUME StoreTypeOK, NEW p \in Payload, outbox' = Append(outbox, p)
  PROVE  logBar' = Append(logBar, EventOf(p))
<1> DEFINE Logged == [document_id: DocId, idempotency_key: Key, outcome: Outcomes \cup {"omitted"}]
<1>1. ASSUME NEW e \in Payload
      PROVE  EventOf(e) \in Logged
  BY DEF EventOf, Payload, Outcomes
<1>2. logBar \in Seq(Logged) /\ Len(logBar) = Len(outbox)
  <2>1. outbox \in Seq(Payload) /\ DOMAIN outbox = 1 .. Len(outbox) /\ Len(outbox) \in Nat
    BY DEF StoreTypeOK
  <2>2. logBar \in [1 .. Len(outbox) -> Logged]
    BY <1>1, <2>1 DEF logBar
  <2> HIDE DEF Logged
  <2> QED BY <2>1, <2>2
<1>3. DOMAIN outbox' = 1 .. Len(outbox) + 1 /\ Len(outbox) \in Nat /\ DOMAIN outbox = 1 .. Len(outbox)
  BY DEF StoreTypeOK
<1>4. \A i \in 1 .. Len(outbox) + 1 : outbox'[i] = IF i = Len(outbox) + 1 THEN p ELSE outbox[i]
  BY DEF StoreTypeOK
<1>5. logBar' = [i \in 1 .. Len(outbox) + 1 |-> EventOf(outbox'[i])]
  BY <1>3 DEF logBar, EventOf
<1> HIDE DEF Logged
<1>6. Append(logBar, EventOf(p)) =
        [i \in 1 .. Len(outbox) + 1 |-> IF i = Len(outbox) + 1 THEN EventOf(p) ELSE EventOf(outbox[i])]
  BY <1>2, <1>3 DEF logBar
<1> QED BY <1>3, <1>4, <1>5, <1>6

\* A step that keeps all the contract can see of a document.
LEMMA Unseen ==
  ASSUME NEW d \in DocId, OneDocument(d), outbox' = outbox, StateOf(d)' = StateOf(d),
         KeyOf(d)' = KeyOf(d), OutcomeOf(d)' = OutcomeOf(d), Promised(d)' <=> Promised(d)
  PROVE  UNCHANGED Contract!vars
<1>1. stateBar' = stateBar /\ keyBar' = keyBar /\ outcomeBar' = outcomeBar
  BY BarsKept
<1>2. promisedBar' = promisedBar
  BY Bars DEF promisedBar
<1>3. logBar' = logBar
  BY DEF logBar
<1> QED BY <1>1, <1>2, <1>3 DEF Contract!vars

\* What the contract sees of a document that has its row, was withdrawn, or
\* never had one.
SeenOf(d) ==
  /\ Present(d) => StateOf(d) \in {"open", "resolved"} /\ KeyOf(d) = key[d]
  /\ Present(d) /\ ~Resolved(d) => StateOf(d) = "open"
  /\ Resolved(d) => StateOf(d) = "resolved" /\ Present(d)
  /\ Withdrawn(d) => StateOf(d) = "withdrawn" /\ KeyOf(d) = key[d]
  /\ ~Present(d) /\ ~Withdrawn(d) => StateOf(d) = "none" /\ KeyOf(d) = NULL
  /\ ~Resolved(d) => OutcomeOf(d) = "none"

\* It is what the contract sees, before a step and after.
LEMMA Seen ==
  ASSUME NEW d \in DocId
  PROVE  SeenOf(d) /\ SeenOf(d)'
<1>1. SeenOf(d)
  <2>1. (Resolved(d) => Present(d)) /\ (Withdrawn(d) => ~Present(d))
    BY DEF Resolved, Present, Terminal, Withdrawn
  <2>2. ~Resolved(d) => OutcomeOf(d) = "none"
    BY DEF OutcomeOf
  <2> QED BY <2>1, <2>2 DEF SeenOf, StateOf, KeyOf
<1>2. SeenOf(d)'
  <2>1. (Resolved(d)' => Present(d)') /\ (Withdrawn(d)' => ~Present(d)')
    BY DEF Resolved, Present, Terminal, Withdrawn
  <2>2. ~Resolved(d)' => OutcomeOf(d)' = "none"
    BY DEF OutcomeOf
  <2> QED BY <2>1, <2>2 DEF SeenOf, StateOf, KeyOf
<1> QED BY <1>1, <1>2

\* A step the contract does not see: the row keeps its columns, and a document
\* without a row is neither withdrawn now nor was it before.
LEMMA RowUntouched ==
  ASSUME NEW d \in DocId, OneDocument(d), UNCHANGED storeVars, Promised(d)' <=> Promised(d),
         \/ (TookBack(d)' <=> TookBack(d)) /\ key'[d] = key[d]
         \/ Present(d) /\ key'[d] = key[d]
         \/ ~Present(d) /\ ~TookBack(d) /\ ~TookBack(d)'
  PROVE  UNCHANGED Contract!vars
<1>1. /\ docs' = docs /\ outbox' = outbox /\ (Present(d)' <=> Present(d))
      /\ (Resolved(d)' <=> Resolved(d)) /\ OutcomeOf(d)' = OutcomeOf(d)
  BY DEF storeVars, Present, Resolved, OutcomeOf
<1>2. Withdrawn(d)' <=> Withdrawn(d)
  BY <1>1 DEF Withdrawn
<1>3. StateOf(d)' = StateOf(d)
  BY <1>1, <1>2 DEF StateOf
<1>4. KeyOf(d)' = KeyOf(d)
  <2>1. CASE key'[d] = key[d]
    BY <1>3, <2>1 DEF KeyOf
  <2>2. CASE ~Present(d) /\ ~Withdrawn(d)
    BY <1>1, <1>2, <2>2, Seen DEF SeenOf
  <2> QED BY <2>1, <2>2 DEF Withdrawn
<1> QED BY <1>1, <1>3, <1>4, Unseen

\* finish_document resolves a document whose row is there, and leaves the echo
\* of one that was withdrawn.
LEMMA CommitSeen ==
  ASSUME StoreTypeOK, NEW d \in DocId, OneDocument(d), NEW status \in Terminal, NEW result, NEW error,
         NEW p \in Payload, finish_document(d, status, result, error, p),
         p.document_id = d, p.idempotency_key = key[d], EventOf(p).outcome \in Outcomes,
         EventOf(p).outcome = IF status = "failed" THEN error ELSE result,
         key'[d] = key[d], Promised(d)' <=> Promised(d),
         Present(d) \/ (Withdrawn(d) /\ TookBack(d)')
  PROVE  Contract!Next
<1> DEFINE o == EventOf(p).outcome
<1>0. SeenOf(d) /\ SeenOf(d)'
  BY Seen
<1>1. logBar' = Append(logBar, EventOf(p))
  BY LogGrows DEF finish_document
<1>2. KeyOf(d) = key[d] /\ keyBar[d] = key[d]
  BY <1>0 DEF SeenOf, keyBar
<1>3. EventOf(p) = Contract!Event(d, o)
  BY <1>2 DEF EventOf, Contract!Event
<1>4. promisedBar' = promisedBar
  BY Bars DEF promisedBar
<1>5. CASE Present(d)
  <2>1. docs'[d] = [key |-> docs[d].key, status |-> status, result |-> result, error |-> error]
    BY <1>5 DEF finish_document, StoreTypeOK
  <2>2. Resolved(d)' /\ OutcomeOf(d)' = o
    BY <2>1 DEF Resolved, OutcomeOf
  <2>3. StateOf(d)' = "resolved" /\ KeyOf(d)' = key[d]
    BY <1>0, <2>2 DEF SeenOf
  <2>4. stateBar' = [stateBar EXCEPT ![d] = "resolved"] /\ outcomeBar' = [outcomeBar EXCEPT ![d] = o]
    BY <2>2, <2>3, Bars
  <2>5. keyBar' = keyBar
    <3>1. KeyOf(d)' = keyBar[d]
      BY <1>2, <2>3
    <3>2. keyBar' = [keyBar EXCEPT ![d] = KeyOf(d)']
      BY Bars, Zenon
    <3>3. keyBar = [e \in DocId |-> keyBar[e]]
      BY DEF keyBar
    <3> HIDE DEF keyBar
    <3> QED BY ONLY <3>1, <3>2, <3>3
  <2>6. Contract!Standing(d)
    BY <1>0, <1>5 DEF Contract!Standing, stateBar, SeenOf
  <2>7. Contract!Resolve(d, o)
    BY <1>1, <1>3, <1>4, <2>4, <2>5, <2>6 DEF Contract!Resolve
  <2> QED BY <2>7 DEF Contract!Next, Outcomes
<1>6. CASE ~Present(d)
  <2>1. docs' = docs /\ Withdrawn(d) /\ Withdrawn(d)' /\ ~Resolved(d) /\ ~Resolved(d)'
    BY <1>0, <1>6 DEF finish_document, Withdrawn, Present, Resolved, SeenOf
  <2>2. /\ StateOf(d) = "withdrawn" /\ StateOf(d)' = "withdrawn" /\ KeyOf(d)' = key[d]
        /\ OutcomeOf(d) = "none" /\ OutcomeOf(d)' = "none"
    BY <1>0, <2>1 DEF SeenOf
  <2>3. stateBar' = stateBar /\ keyBar' = keyBar /\ outcomeBar' = outcomeBar
    <3>1. StateOf(d)' = StateOf(d) /\ KeyOf(d)' = KeyOf(d) /\ OutcomeOf(d)' = OutcomeOf(d)
      BY <1>2, <2>2
    <3> QED BY <3>1, BarsKept
  <2>4. Contract!Echo(d, o)
    BY <1>1, <1>3, <1>4, <2>2, <2>3 DEF Contract!Echo, stateBar
  <2> QED BY <2>4 DEF Contract!Next, Outcomes
<1> QED BY <1>5, <1>6

\* A handler answers for its own document.
LEMMA PromiseSeen ==
  ASSUME NEW c \in DocId, OneDocument(c), UNCHANGED <<storeVars, key>>, Present(c), Promised(c)'
  PROVE  Contract!Next
<1>1. docs' = docs /\ outbox' = outbox /\ Present(c)' /\ (Resolved(c)' <=> Resolved(c)) /\ key' = key
  BY DEF storeVars, Present, Resolved
<1>2. StateOf(c)' = StateOf(c) /\ KeyOf(c)' = KeyOf(c) /\ OutcomeOf(c)' = OutcomeOf(c)
  <2>1. StateOf(c)' = StateOf(c)
    BY <1>1, Seen DEF SeenOf
  <2>2. KeyOf(c)' = KeyOf(c)
    BY <1>1, Seen DEF SeenOf
  <2> QED BY <1>1, <2>1, <2>2 DEF OutcomeOf
<1>3. stateBar' = stateBar /\ keyBar' = keyBar /\ outcomeBar' = outcomeBar
  BY <1>2, BarsKept
<1>4. promisedBar' = promisedBar \cup {c} /\ logBar' = logBar
  BY <1>1, Bars DEF logBar
<1>5. Contract!Standing(c)
  BY Seen DEF Contract!Standing, stateBar, SeenOf
<1> QED BY <1>3, <1>4, <1>5 DEF Contract!Promise, Contract!Next

\* The steps of a handler: Insert opens its document, the DELETE of Rollback
\* withdraws it, SubmitOK and Reread promise it, MarkCancelled resolves it.
LEMMA CallSeen ==
  ASSUME RInv, NEW c \in DocId, Call(c)
  PROVE  Contract!Next \/ UNCHANGED Contract!vars
<1> USE DEF Goto, Done
<1>0. /\ RefinementInv(c) /\ CallInv(c) /\ RowInv(c) /\ RunInv(c) /\ IInv /\ c # NULL
      /\ StoreTypeOK /\ docs \in [DocId -> Row \cup {NoRow}]
      /\ pc \in [DocId -> CallPC] /\ key \in [DocId -> Key \cup {NULL}] /\ reply \in [DocId -> Reply]
  BY NullAssumption DEF RInv, IInv, DocInv, TypeOK, StoreTypeOK
<1>a. OneDocument(c)
  BY <1>0, CallOthers DEF OneDocument
<1>b. pc[c] # "done" => /\ ~Promised(c) /\ reply[c].code # "RESOURCE_EXHAUSTED"
                        /\ TookBack(c) <=> pc[c] \in {"deleted", "cut"}
  BY <1>0 DEF CallInv, NoReply, Answer, Promised, TookBack
<1>1. ASSUME NEW m \in Method, NEW k \in Key, NEW r \in Request, Receive(c, m, k, r)
      PROVE  UNCHANGED Contract!vars
  <2>1. ~Present(c) /\ pc[c] = "idle" /\ UNCHANGED storeVars
    BY <1>0, <1>1 DEF Receive, CallInv, Untouched
  <2>2. reply'[c] = reply[c] \/ reply'[c] = Answer(Admission(m, r), NULL)
    BY <1>0, <1>1 DEF Receive
  <2>3. ~Promised(c)' /\ reply'[c].code # "RESOURCE_EXHAUSTED"
    BY <1>0, <1>b, <2>1, <2>2 DEF Promised, Answer, Admission
  <2>4. ~TookBack(c) /\ ~TookBack(c)'
    BY <1>0, <1>1, <1>b, <2>1, <2>3 DEF Receive, TookBack
  <2> QED BY <1>a, <1>b, <2>1, <2>3, <2>4, RowUntouched
<1>2. CASE Insert(c)
  <2>1. ~Present(c) /\ ~Withdrawn(c) /\ ~Promised(c) /\ key[c] \in Key /\ ~KeyTaken(key[c])
    BY <1>0, <1>b, <1>2 DEF Insert, CallInv, Untouched, Withdrawn, submit_document
  <2>2. Present(c)' /\ ~Resolved(c)' /\ key' = key /\ ~Promised(c)' /\ outbox' = outbox
    <3>1. docs'[c].status = "queued" /\ key' = key /\ reply' = reply /\ outbox' = outbox
      BY <1>0, <1>2 DEF Insert, submit_document
    <3> QED BY <2>1, <3>1 DEF Present, Resolved, Terminal, Promised
  <2>3. StateOf(c) = "none" /\ OutcomeOf(c) = "none"
    BY <2>1, Seen DEF SeenOf, Resolved, Present, Terminal
  <2>4. StateOf(c)' = "open" /\ KeyOf(c)' = key[c] /\ OutcomeOf(c)' = "none"
    BY <2>2, Seen DEF SeenOf
  <2>5. /\ stateBar' = [stateBar EXCEPT ![c] = "open"] /\ keyBar' = [keyBar EXCEPT ![c] = key[c]]
        /\ logBar' = logBar
    BY <1>a, <2>2, <2>4, Bars DEF logBar
  <2>6. outcomeBar' = outcomeBar
    <3>1. OutcomeOf(c)' = OutcomeOf(c)
      BY <2>3, <2>4
    <3> QED BY <1>a, <3>1, Bars DEF outcomeBar
  <2>7. promisedBar' = promisedBar
    BY <1>a, <2>1, <2>2, Bars DEF promisedBar
  <2>8. ASSUME NEW e \in DocId, Contract!Standing(e)
        PROVE  keyBar[e] # key[c]
    <3>1. Present(e)
      BY <2>8, Seen DEF Contract!Standing, stateBar, SeenOf
    <3>2. docs[e].key = key[e] /\ docs[e].key # key[c]
      BY <1>0, <2>1, <3>1 DEF KeyTaken, IInv, DocInv, RowInv
    <3>3. keyBar[e] = key[e]
      BY <3>1, Seen DEF SeenOf, keyBar
    <3> QED BY <3>2, <3>3
  <2>9. Contract!Open(c, key[c])
    BY <2>3, <2>5, <2>6, <2>7, <2>8 DEF Contract!Open, stateBar
  <2> QED BY <2>1, <2>9 DEF Contract!Next
<1>3. CASE Lookup(c)
  <2>1. ~Present(c) /\ pc[c] = "lookup" /\ UNCHANGED storeVars
    BY <1>0, <1>3 DEF Lookup, CallInv, Untouched
  <2>2. \/ \E d \in DocId : Present(d) /\ reply'[c] = Answer("ALREADY_EXISTS", d)
        \/ \E d \in DocId : Present(d) /\ reply'[c] = ResponseFor(d)
        \/ \E code \in {"ALREADY_EXISTS", "VANISHED"} : reply'[c] = Answer(code, NULL)
    BY <1>0, <1>3 DEF Lookup
  <2>3. ~Promised(c)' /\ reply'[c].code # "RESOURCE_EXHAUSTED"
    <3>1. ASSUME NEW d \in DocId, Present(d), reply'[c] = ResponseFor(d)
          PROVE  reply'[c].document_id # c /\ reply'[c].code = "OK"
      BY <2>1, <3>1 DEF ResponseFor
    <3>2. ASSUME NEW d \in DocId \cup {NULL}, NEW code \in {"ALREADY_EXISTS", "VANISHED"},
                 reply'[c] = Answer(code, d)
          PROVE  reply'[c].code \in {"ALREADY_EXISTS", "VANISHED"}
      BY <3>2 DEF Answer
    <3> QED BY <2>2, <3>1, <3>2 DEF Promised
  <2>4. ~TookBack(c) /\ ~TookBack(c)'
    BY <1>0, <1>3, <1>b, <2>1, <2>3 DEF Lookup, TookBack
  <2> QED BY <1>a, <1>b, <2>1, <2>3, <2>4, RowUntouched
<1>4. CASE InsertConflict(c) \/ EnqueueAccepted(c) \/ EnqueueRaises(c) \/ Abandon(c)
  <2>1. UNCHANGED <<storeVars, key, reply>>
    BY <1>4 DEF InsertConflict, EnqueueAccepted, EnqueueRaises, Abandon
  <2>2. Promised(c)' <=> Promised(c)
    BY <2>1 DEF Promised
  <2>3. TookBack(c)' <=> TookBack(c)
    BY <1>0, <1>4, <2>1 DEF InsertConflict, EnqueueAccepted, EnqueueRaises, Abandon, TookBack
  <2> QED BY <1>a, <2>1, <2>2, <2>3, RowUntouched
<1>5. CASE SubmitOK(c)
  <2>1. Present(c) /\ UNCHANGED <<storeVars, key>>
    BY <1>0, <1>5 DEF SubmitOK, CallInv
  <2>2. Promised(c)'
    BY <1>0, <1>5 DEF SubmitOK, Promised, Answer
  <2> QED BY <1>a, <2>1, <2>2, PromiseSeen
<1>6. CASE Reread(c)
  <2>1. Present(c) /\ UNCHANGED <<storeVars, key>>
    BY <1>0, <1>6 DEF Reread, CallInv
  <2>2. Promised(c)'
    BY <1>0, <1>6, <2>1 DEF Reread, Promised, ResponseFor
  <2> QED BY <1>a, <2>1, <2>2, PromiseSeen
<1>7. CASE Rollback(c)
  <2>1. Present(c) /\ ~Promised(c) /\ key' = key
    BY <1>0, <1>b, <1>7 DEF Rollback, RefinementInv
  <2>3. ~Promised(c)' /\ TookBack(c)'
    BY <1>0, <1>7, <2>1 DEF Rollback, Promised, TookBack
  <2>4. CASE UNCHANGED storeVars
    BY <1>a, <2>1, <2>3, <2>4, RowUntouched
  <2>5. CASE delete_document(c)
    <3>1. ~Present(c)' /\ outbox' = outbox
      BY <1>0, <2>5 DEF delete_document, Present, NoRow
    <3>2. Withdrawn(c)' /\ ~Resolved(c)'
      BY <2>3, <3>1 DEF Withdrawn, Resolved, Present, Terminal
    <3>3. StateOf(c)' = "withdrawn" /\ KeyOf(c)' = KeyOf(c) /\ OutcomeOf(c)' = "none"
      BY <2>1, <3>2, Seen DEF SeenOf
    <3>4. /\ stateBar' = [stateBar EXCEPT ![c] = "withdrawn"]
          /\ outcomeBar' = [outcomeBar EXCEPT ![c] = "none"] /\ logBar' = logBar
      BY <1>a, <3>1, <3>3, Bars DEF logBar
    <3>5. keyBar' = keyBar
      BY <1>a, <3>3, Bars DEF keyBar
    <3>6. promisedBar' = promisedBar /\ c \notin promisedBar
      BY <1>a, <2>1, <2>3, Bars DEF promisedBar
    <3>7. Contract!Standing(c)
      BY <2>1, Seen DEF Contract!Standing, stateBar, SeenOf
    <3> QED BY <3>4, <3>5, <3>6, <3>7 DEF Contract!Withdraw, Contract!Next
  <2> QED BY <1>7, <2>4, <2>5 DEF Rollback
<1>10. CASE Refuse(c)
  <2>1. ~Promised(c) /\ TookBack(c) /\ UNCHANGED <<storeVars, key>>
    BY <1>b, <1>10 DEF Refuse
  <2>2. reply'[c] = Answer("RESOURCE_EXHAUSTED", NULL)
    BY <1>0, <1>10 DEF Refuse
  <2>3. ~Promised(c)' /\ TookBack(c)'
    BY <2>2 DEF Promised, TookBack, Answer
  <2> QED BY <1>a, <2>1, <2>3, RowUntouched
<1>8. CASE InlineEnds(c)
  <2>1. Present(c) /\ pc[c] = "run" /\ UNCHANGED <<storeVars, key>>
    BY <1>0, <1>8 DEF InlineEnds, CallInv
  <2>2. reply'[c] = reply[c] \/ reply'[c] = Answer("INTERNAL", NULL)
    BY <1>0, <1>8 DEF InlineEnds, Ended
  <2>3. ~Promised(c)'
    BY <1>b, <2>1, <2>2 DEF Promised, Answer
  <2> QED BY <1>a, <1>b, <2>1, <2>3, RowUntouched
<1>9. CASE MarkCancelled(c)
  <2> DEFINE p == build_envelope(c, docs[c].key, "failed", "null", "cancelled")
  <2>1. Present(c) /\ ~Promised(c) /\ key' = key /\ docs[c].key = key[c] /\ key[c] \in Key
    BY <1>0, <1>b, <1>9 DEF MarkCancelled, CallInv, RowInv
  <2>2. ~Promised(c)'
    <3>1. reply'[c] = Answer("CANCELLED", NULL)
      BY <1>0, <1>9 DEF MarkCancelled
    <3> QED BY <3>1 DEF Promised, Answer
  <2>3. CASE UNCHANGED storeVars
    BY <1>a, <2>1, <2>2, <2>3, RowUntouched
  <2>4. CASE finish_document(c, "failed", "null", "cancelled", p)
    <3>1. p \in Payload
      BY <2>1, EnvelopeType DEF Error
    <3>2. p.document_id = c /\ p.idempotency_key = key[c] /\ EventOf(p).outcome = "cancelled"
      BY <2>1 DEF build_envelope, EventOf
    <3> HIDE DEF p
    <3> QED BY <1>0, <1>a, <2>1, <2>2, <2>4, <3>1, <3>2, CommitSeen DEF Terminal, Outcomes, Error
  <2> QED BY <1>9, <2>3, <2>4 DEF MarkCancelled
<1> QED
  BY <1>1, <1>2, <1>3, <1>4, <1>5, <1>6, <1>7, <1>8, <1>9, <1>10 DEF Call

\* The steps of a run: its commit resolves the document, or echoes it if its
\* row is gone.
LEMMA RunSeen ==
  ASSUME RInv, NEW d \in DocId, NEW n \in Attempt, RunStep(d, n)
  PROVE  Contract!Next \/ UNCHANGED Contract!vars
<1>0. /\ RefinementInv(d) /\ RunInv(d) /\ IInv /\ StoreTypeOK
      /\ docs \in [DocId -> Row \cup {NoRow}] /\ run[d][n].pc # "idle"
  BY RunMove DEF RInv, IInv, DocInv, TypeOK, StoreTypeOK
<1>a. OneDocument(d)
  BY <1>0, RunOthers DEF OneDocument
<1>b. /\ UNCHANGED <<key, reply>> /\ (Promised(d)' <=> Promised(d))
      /\ (TookBack(d)' <=> TookBack(d))
  BY <1>0, RunKeepsRow DEF callVars, Promised, TookBack
<1>c. Present(d) \/ (Withdrawn(d) /\ TookBack(d)')
  BY <1>0, <1>b DEF RefinementInv, Withdrawn
<1>1. CASE Load(d, n) \/ Work(d, n) \/ Return(d, n) \/ Raise(d, n) \/ Cancel(d, n) \/ Crash(d, n)
  <2>1. UNCHANGED storeVars
    BY <1>1 DEF Load, Work, Return, Raise, Cancel, Crash
  <2> QED BY <1>a, <1>b, <2>1, RowUntouched
<1>2. CASE Mark(d, n)
  <2>1. outbox' = outbox /\ (Present(d)' <=> Present(d)) /\ (Resolved(d)' <=> Resolved(d))
    BY <1>0, <1>2 DEF Mark, mark_processing, Present, Resolved, Terminal
  <2>2. Withdrawn(d)' <=> Withdrawn(d)
    BY <1>b, <2>1 DEF Withdrawn
  <2>3. StateOf(d)' = StateOf(d)
    BY <2>1, <2>2 DEF StateOf
  <2>4. KeyOf(d)' = KeyOf(d)
    BY <1>b, <2>3 DEF KeyOf
  <2>5. OutcomeOf(d)' = OutcomeOf(d)
    <3>1. CASE Resolved(d)
      <4>1. docs' = docs
        BY <1>2, <3>1 DEF Mark, mark_processing, Resolved, Terminal
      <4> QED BY <4>1 DEF OutcomeOf, Resolved
    <3>2. CASE ~Resolved(d)
      BY <2>1, <3>2 DEF OutcomeOf
    <3> QED BY <3>1, <3>2
  <2> QED BY <1>a, <1>b, <2>1, <2>3, <2>4, <2>5, Unseen
<1>3. CASE Finish(d, n)
  <2> DEFINE o == run[d][n].out
             p == build_envelope(d, run[d][n].key, StatusOf(o), o, "null")
  <2>1. o \in Result /\ run[d][n].key = key[d] /\ key[d] \in Key
    BY <1>0, <1>3 DEF Finish, RunInv, Live
  <2>2. StatusOf(o) \in {"completed", "needs_review"} /\ StatusOf(o) \in Terminal /\ StatusOf(o) # "failed"
    BY DEF StatusOf, Terminal
  <2>3. p \in Payload
    BY <2>1, <2>2, EnvelopeType
  <2>4. p.document_id = d /\ p.idempotency_key = key[d] /\ EventOf(p).outcome = o
    BY <2>1, <2>2 DEF build_envelope, EventOf, Result
  <2>5. finish_document(d, StatusOf(o), o, "null", p)
    BY <1>3 DEF Finish
  <2> HIDE DEF p, o
  <2> QED BY <1>0, <1>a, <1>b, <1>c, <2>1, <2>2, <2>3, <2>4, <2>5, CommitSeen DEF Outcomes
<1>4. CASE Fail(d, n)
  <2> DEFINE o == run[d][n].out
             p == build_envelope(d, run[d][n].key, "failed", "null", o)
  <2>1. o \in Error /\ o # "null" /\ run[d][n].key = key[d] /\ key[d] \in Key
    BY <1>0, <1>4 DEF Fail, RunInv, Live, Error
  <2>2. p \in Payload
    BY <2>1, EnvelopeType
  <2>3. p.document_id = d /\ p.idempotency_key = key[d] /\ EventOf(p).outcome = o
    BY <2>1 DEF build_envelope, EventOf
  <2>4. finish_document(d, "failed", "null", o, p)
    BY <1>4 DEF Fail
  <2> HIDE DEF p, o
  <2> QED BY <1>0, <1>a, <1>b, <1>c, <2>1, <2>2, <2>3, <2>4, CommitSeen DEF Outcomes, Terminal
<1> QED BY <1>1, <1>2, <1>3, <1>4 DEF RunStep, Progress

\* The queue is nothing the contract speaks of.
LEMMA SaqSeen ==
  ASSUME RInv, NEW d \in DocId, Saq(d)
  PROVE  UNCHANGED Contract!vars
<1>1. OneDocument(d)
  BY SaqOthers DEF RInv, OneDocument
<1>2. UNCHANGED <<storeVars, key, reply, pc>>
  BY DEF Saq, Dequeue, Sweep, Ack, callVars
<1>3. (Promised(d)' <=> Promised(d)) /\ (TookBack(d)' <=> TookBack(d))
  BY <1>2 DEF Promised, TookBack
<1> QED BY <1>1, <1>2, <1>3, RowUntouched

\* Handlers, runs and the queue together keep what the README promises: every
\* commit of an outcome is one step with its event, a key is open once at a
\* time, and a document is withdrawn only while nobody was told of it.
THEOREM LifecycleImplementsContract ==
  Spec => ImplementsContract
<1>1. Init => Contract!Init
  <2> SUFFICES ASSUME Init
               PROVE  Contract!Init
    OBVIOUS
  <2>1. ASSUME NEW d \in DocId
        PROVE  /\ StateOf(d) = "none" /\ KeyOf(d) = NULL /\ OutcomeOf(d) = "none"
               /\ ~Promised(d)
    <3>1. ~Present(d) /\ ~Resolved(d) /\ ~Withdrawn(d) /\ ~Promised(d)
      BY DEF Init, StoreInit, NoRow, Present, Resolved, Terminal, Withdrawn, TookBack, Promised, NoReply, Answer
    <3> QED BY <3>1, Seen DEF SeenOf
  <2>2. logBar = << >>
    BY DEF Init, StoreInit, logBar
  <2> QED BY <2>1, <2>2 DEF Contract!Init, stateBar, keyBar, outcomeBar, promisedBar
<1>2. RInv /\ [Next]_vars => [Contract!Next]_Contract!vars
  <2> SUFFICES ASSUME RInv, [Next]_vars
               PROVE  Contract!Next \/ UNCHANGED Contract!vars
    OBVIOUS
  <2>1. CASE Next
    <3>1. PICK d \in DocId : Call(d) \/ Saq(d) \/ \E n \in Attempt : RunStep(d, n)
      BY <2>1 DEF Next
    <3> QED BY <3>1, CallSeen, SaqSeen, RunSeen
  <2>2. CASE UNCHANGED vars
    <3>1. UNCHANGED <<docs, outbox, pc, key, reply>>
      BY <2>2 DEF vars, storeVars, callVars
    <3> QED BY <3>1 DEF Contract!vars, stateBar, keyBar, outcomeBar, logBar, promisedBar,
              StateOf, KeyOf, OutcomeOf, EventOf, Promised, Present, Resolved, Withdrawn, TookBack
  <2> QED BY <2>1, <2>2
<1> QED BY RefinementInductive, <1>1, <1>2, PTL DEF Spec, ImplementsContract, Contract!Spec

=============================================================================
