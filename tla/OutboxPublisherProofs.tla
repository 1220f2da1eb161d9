----------------------- MODULE OutboxPublisherProofs -----------------------
(***************************************************************************)
(* Safety of OutboxPublisher for any number of rows, publishers, failures  *)
(* and any batch size.                                                     *)
(***************************************************************************)
EXTENDS OutboxPublisher, TLAPS

\* A claim takes rows of the table that are neither published nor locked.
LEMMA ClaimedRows ==
  ClaimSet \subseteq (committed \ published) \ locked
BY DEF ClaimSet, Claimable

\* Nothing is stored, locked or produced at the start.
LEMMA Initially ==
  Init => IInv
<1> SUFFICES ASSUME Init
             PROVE  IInv
  OBVIOUS
<1> USE DEF Init
<1>1. TypeOK
  BY OutboxAssumption DEF TypeOK
<1>2. LoopInv
  BY DEF LoopInv
<1>3. TraceInv
  BY NullAssumption DEF TraceInv
<1>4. OnceInv
  BY DEF OnceInv, Once
<1> QED BY <1>1, <1>2, <1>3, <1>4 DEF IInv

\* Every step keeps the types, and what a publisher holds at each point of its
\* loop.
LEMMA TypeStep ==
  ASSUME TypeOK, LoopInv, Next
  PROVE  TypeOK' /\ LoopInv'
<1> USE DEF tableVars, loopVars, histVars
<1>0. \A e \in Event : NULL # e
  BY NullAssumption
<1>f. ASSUME Fault PROVE faults' \in 0 .. MaxFaults
  BY <1>f, OutboxAssumption DEF Fault, TypeOK
<1>1. ASSUME NEW e \in Event, Insert(e)
      PROVE  TypeOK' /\ LoopInv'
  BY <1>1 DEF Insert, TypeOK, LoopInv
<1>2. ASSUME NEW e \in Event, Expire(e)
      PROVE  TypeOK' /\ LoopInv'
  BY <1>2, <1>f DEF Expire, TypeOK, LoopInv
<1>3. ASSUME NEW p \in Publisher, Claim(p)
      PROVE  TypeOK' /\ LoopInv'
  BY <1>3, ClaimedRows DEF Claim, claim_pending_outbox, TypeOK, LoopInv
<1>4. ASSUME NEW p \in Publisher, Mark(p)
      PROVE  TypeOK' /\ LoopInv'
  BY <1>4 DEF Mark, mark_published, TypeOK, LoopInv
<1>5. ASSUME NEW p \in Publisher, Flush(p)
      PROVE  TypeOK' /\ LoopInv'
  BY <1>5 DEF Flush, Idle, TypeOK, LoopInv
<1>6. ASSUME NEW p \in Publisher, TickFails(p)
      PROVE  TypeOK' /\ LoopInv'
  <2>1. faults' \in 0 .. MaxFaults /\ LoopInv'
    BY <1>6, <1>f DEF TickFails, Idle, TypeOK, LoopInv, claim_pending_outbox, mark_published
  <2>2. /\ committed' = committed
        /\ published' \subseteq committed /\ locked' \subseteq committed \ published'
    BY <1>6, ClaimedRows DEF TickFails, TypeOK, LoopInv, claim_pending_outbox, mark_published
  <2> QED BY <1>6, <2>1, <2>2 DEF TickFails, Idle, TypeOK
<1>7. ASSUME NEW p \in Publisher, Restart(p)
      PROVE  TypeOK' /\ LoopInv'
  BY <1>7, <1>f DEF Restart, Idle, TypeOK, LoopInv
<1>8. ASSUME NEW p \in Publisher, NEW e \in Event, Produce(p, e)
      PROVE  TypeOK' /\ LoopInv'
  BY <1>8 DEF Produce, TypeOK, LoopInv
<1>9. ASSUME NEW p \in Publisher, NEW e \in Event, Deliver(p, e)
      PROVE  TypeOK' /\ LoopInv'
  BY <1>9 DEF Deliver, TypeOK, LoopInv
<1>10. ASSUME NEW p \in Publisher, NEW e \in Event, DeliveryFails(p, e)
       PROVE  TypeOK' /\ LoopInv'
  BY <1>10, <1>f DEF DeliveryFails, TypeOK, LoopInv
<1>11. ASSUME NEW p \in Publisher, NEW e \in Event, ProduceRaises(p, e)
       PROVE  TypeOK' /\ LoopInv'
  BY <1>11 DEF ProduceRaises, Idle, TypeOK, LoopInv
<1> QED BY <1>1, <1>2, <1>3, <1>4, <1>5, <1>6, <1>7, <1>8, <1>9, <1>10, <1>11 DEF Next

\* No step loses track of a copy: it moves from a buffer to the topic, or into
\* lost.
LEMMA TracedStays ==
  ASSUME TypeOK, Next, NEW e \in Event, Traced(e)
  PROVE  Traced(e)'
<1> USE DEF Traced, TypeOK
<1>1. ASSUME NEW p \in Publisher, Restart(p)
      PROVE  Traced(e)'
  BY <1>1 DEF Restart
<1>2. ASSUME NEW p \in Publisher, NEW f \in Event, Produce(p, f)
      PROVE  Traced(e)'
  BY <1>2 DEF Produce
<1>3. ASSUME NEW p \in Publisher, NEW f \in Event, Deliver(p, f)
      PROVE  Traced(e)'
  <2>1. CASE e = f
    BY <1>3, <2>1 DEF Deliver
  <2>2. CASE e # f
    <3>1. topic'[e] = topic[e] /\ \A q \in Publisher : buffer'[q][e] = buffer[q][e]
      BY <1>3, <2>2 DEF Deliver
    <3> QED BY <1>3, <3>1 DEF Deliver, histVars
  <2> QED BY <2>1, <2>2
<1>4. ASSUME NEW p \in Publisher, NEW f \in Event, DeliveryFails(p, f)
      PROVE  Traced(e)'
  BY <1>4 DEF DeliveryFails
<1>5. CASE UNCHANGED <<buffer, topic, lost>>
  BY <1>5
<1> QED BY <1>1, <1>2, <1>3, <1>4, <1>5
           DEF Next, Insert, Expire, Claim, Mark, Flush, TickFails, ProduceRaises, histVars

\* Only rows that were produced are marked published.
LEMMA TraceStep ==
  ASSUME TypeOK, LoopInv, TraceInv, Next
  PROVE  TraceInv'
<1> USE DEF tableVars, loopVars, histVars
<1>0. \A e \in Event : NULL # e
  BY NullAssumption
<1>1. CASE \E p \in Publisher, e \in Event : Produce(p, e)
  <2>1. PICK p \in Publisher, e \in Event : Produce(p, e)
    BY <1>1
  <2>2. Traced(e)'
    BY <2>1 DEF Produce, Traced, TypeOK
  <2>3. /\ produced'[e] > 0
        /\ \A f \in Event : f # e => produced'[f] = produced[f]
        /\ \A f \in Event : produced'[f] >= produced[f]
    BY <2>1 DEF Produce, TypeOK
  <2>4. \A f \in Event : produced'[f] > 0 => Traced(f)'
    BY <2>2, <2>3, TracedStays DEF TraceInv
  <2>5. \A q \in Publisher : cur'[q] \in Event => produced'[cur'[q]] > 0
    BY <2>1, <2>3 DEF Produce, TraceInv, TypeOK
  <2>6. \A f \in published' : produced'[f] > 0
    BY <2>1, <2>3 DEF Produce, TraceInv, TypeOK
  <2> QED BY <2>4, <2>5, <2>6 DEF TraceInv
<1>2. CASE produced' = produced
  <2>1. \A f \in Event : produced'[f] > 0 => Traced(f)'
    BY <1>2, TracedStays DEF TraceInv
  <2>2. \A q \in Publisher : cur'[q] = cur[q] \/ cur'[q] = NULL \/ \E e \in Event : Produce(q, e)
    BY DEF Next, Insert, Expire, Claim, Mark, Flush, TickFails, Restart, Produce,
           ProduceRaises, Deliver, DeliveryFails, Idle, TypeOK
  <2>3. \A q \in Publisher, e \in Event : ~Produce(q, e)
    BY <1>2 DEF Produce, TypeOK
  <2>4. \A q \in Publisher : cur'[q] \in Event => produced'[cur'[q]] > 0
    BY <1>0, <1>2, <2>2, <2>3 DEF TraceInv
  <2>5. \A e \in published' : e \in published \/ \E p \in Publisher : pc[p] = "mark" /\ cur[p] = e
    BY DEF Next, Insert, Expire, Claim, Mark, Flush, TickFails, Restart, Produce,
           ProduceRaises, Deliver, DeliveryFails, claim_pending_outbox, mark_published
  <2>6. \A e \in published' : produced'[e] > 0
    BY <1>2, <2>5 DEF TraceInv, LoopInv, TypeOK
  <2> QED BY <2>1, <2>4, <2>6 DEF TraceInv
<1> QED BY <1>1, <1>2 DEF Next, Insert, Expire, Claim, Mark, Flush, TickFails, Restart,
           Produce, ProduceRaises, Deliver, DeliveryFails

\* A row whose lock has not run out keeps to one loop and one copy.
LEMMA OnceStep ==
  ASSUME TypeOK, LoopInv, TraceInv, OnceInv, Next
  PROVE  OnceInv'
<1> USE DEF tableVars, loopVars, histVars
<1> SUFFICES ASSUME NEW x \in Event \ expired'
             PROVE  Once(x)'
  BY DEF OnceInv
<1>0. x \in Event \ expired /\ Once(x)
  BY DEF OnceInv, Next, Insert, Expire, Claim, Mark, Flush, TickFails, Restart, Produce,
         ProduceRaises, Deliver, DeliveryFails
<1>1. ASSUME NEW e \in Event, Insert(e)
      PROVE  Once(x)'
  BY <1>0, <1>1 DEF Insert, Once
<1>2. ASSUME NEW e \in Event, Expire(e)
      PROVE  Once(x)'
  <2>1. x # e
    BY <1>2 DEF Expire
  <2> QED BY <1>0, <1>2, <2>1 DEF Expire, Once
<1>3. ASSUME NEW p \in Publisher, Claim(p)
      PROVE  Once(x)'
  <2>1. x \in ClaimSet => produced[x] = 0 /\ \A q \in Publisher : x \notin todo[q]
    BY <1>0, ClaimedRows DEF Once, TypeOK
  <2> QED BY <1>0, <1>3, <2>1 DEF Claim, claim_pending_outbox, Once, TypeOK
<1>4. ASSUME NEW p \in Publisher, Mark(p)
      PROVE  Once(x)'
  <2>1. cur[p] = x => produced[x] > 0
    BY <1>0 DEF TraceInv
  <2> QED BY <1>0, <1>4, <2>1 DEF Mark, mark_published, Once, TypeOK
<1>5. ASSUME NEW p \in Publisher, Flush(p)
      PROVE  Once(x)'
  BY <1>0, <1>5 DEF Flush, Idle, Once, TypeOK
<1>6. ASSUME NEW p \in Publisher, TickFails(p)
      PROVE  Once(x)'
  <2>1. cur[p] = x => produced[x] > 0
    BY <1>0 DEF TraceInv
  <2>2. CASE UNCHANGED tableVars
    BY <1>0, <1>6, <2>2 DEF TickFails, Idle, Once, TypeOK
  <2>3. CASE claim_pending_outbox
    BY <1>0, <1>6, <2>3 DEF TickFails, claim_pending_outbox, Idle, Once, TypeOK
  <2>4. CASE mark_published(cur[p])
    BY <1>0, <1>6, <2>1, <2>4 DEF TickFails, mark_published, Idle, Once, TypeOK
  <2> QED BY <1>6, <2>2, <2>3, <2>4 DEF TickFails
<1>7. ASSUME NEW p \in Publisher, Restart(p)
      PROVE  Once(x)'
  BY <1>0, <1>7 DEF Restart, Idle, Once, TypeOK
<1>8. ASSUME NEW p \in Publisher, NEW e \in Event, Produce(p, e)
      PROVE  Once(x)'
  <2>1. CASE x = e
    <3>1. produced[x] = 0 /\ produced'[x] = 1 /\ x \in locked /\ locked' = locked
      BY <1>0, <1>8, <2>1 DEF Produce, Once, TypeOK
    <3>2. \A q \in Publisher : x \notin todo'[q]
      BY <1>0, <1>8, <2>1 DEF Produce, Once, TypeOK
    <3> QED BY <3>1, <3>2 DEF Once
  <2>2. CASE x # e
    BY <1>0, <1>8, <2>2 DEF Produce, Once, TypeOK
  <2> QED BY <2>1, <2>2
<1>9. ASSUME NEW p \in Publisher, NEW e \in Event, Deliver(p, e) \/ DeliveryFails(p, e)
      PROVE  Once(x)'
  BY <1>0, <1>9 DEF Deliver, DeliveryFails, Once
<1>10. ASSUME NEW p \in Publisher, NEW e \in Event, ProduceRaises(p, e)
       PROVE  Once(x)'
  BY <1>0, <1>10 DEF ProduceRaises, Idle, Once, TypeOK
<1> QED BY <1>1, <1>2, <1>3, <1>4, <1>5, <1>6, <1>7, <1>8, <1>9, <1>10 DEF Next

\* The invariant is inductive.
LEMMA Inductive ==
  IInv /\ [Next]_vars => IInv'
<1> SUFFICES ASSUME IInv, [Next]_vars
             PROVE  IInv'
  OBVIOUS
<1>1. CASE Next
  BY <1>1, TypeStep, TraceStep, OnceStep DEF IInv
<1>2. CASE UNCHANGED vars
  <2>1. TypeOK' /\ LoopInv'
    BY <1>2 DEF vars, tableVars, loopVars, histVars, IInv, TypeOK, LoopInv
  <2>2. TraceInv' /\ OnceInv'
    BY <1>2 DEF vars, tableVars, loopVars, histVars, IInv, TraceInv, Traced, OnceInv, Once
  <2> QED BY <2>1, <2>2 DEF IInv
<1> QED BY <1>1, <1>2

-----------------------------------------------------------------------------
(* The theorems *)

\* The table, the loops and the producers keep their types.
THEOREM TypeCorrect == Spec => []TypeOK
<1>1. IInv => TypeOK
  BY DEF IInv
<1> QED BY <1>1, Initially, Inductive, PTL DEF Spec

\* claim_pending_outbox keeps publishers apart: whatever raises, dies or is
\* restarted, a row is produced twice only if its lock turned a minute old.
THEOREM NoDuplicateWithinLock == Spec => []DuplicateOnlyAfterExpiry
<1>1. IInv => DuplicateOnlyAfterExpiry
  BY DEF IInv, TypeOK, OnceInv, Once, DuplicateOnlyAfterExpiry
<1> QED BY <1>1, Initially, Inductive, PTL DEF Spec

\* poll_once marks what it has produced and nothing else: of a row with
\* published_at set, a copy is in the topic, in a buffer, or was dropped by its
\* producer.
THEOREM PublishedIsTraced == Spec => []PublishedWasProduced
<1>1. IInv => PublishedWasProduced
  BY DEF IInv, TypeOK, TraceInv, Traced, PublishedWasProduced
<1> QED BY <1>1, Initially, Inductive, PTL DEF Spec

=============================================================================
