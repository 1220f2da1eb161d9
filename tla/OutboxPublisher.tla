-------------------------- MODULE OutboxPublisher --------------------------
(***************************************************************************)
(* events/publisher.py: the loop that copies committed rows of             *)
(* outbox_events to Kafka, run by any number of outbox processes over one  *)
(* table.  Rows are named by their place in created_at order, which need   *)
(* not be the order they commit in.                                        *)
(*                                                                         *)
(* External: the confluent_kafka producer, a buffer that a background      *)
(* thread empties into the topic at any time, and that dies with the       *)
(* process; and the Postgres clock, seen only when a lock turns a minute   *)
(* old.                                                                    *)
(*                                                                         *)
(* MaxFaults bounds the failures of one behaviour: a call that raises, a   *)
(* delivery that fails, a process that dies, a tick slower than its lock.  *)
(* A row of Poison fails without bound: produce, or what prepares it,      *)
(* raises whenever the row is tried (a message over message.max.bytes).    *)
(***************************************************************************)
EXTENDS Naturals, FiniteSets

CONSTANTS
  N,           \* rows outbox_events will ever hold
  Publisher,   \* outbox processes
  Batch,       \* rows a poll claims at most
  MaxFaults,   \* bound on failures
  Poison,      \* rows that cannot be produced
  NULL

ASSUME OutboxAssumption ==
  N \in Nat /\ Batch \in Nat \ {0} /\ MaxFaults \in Nat

Event == 1 .. N

ASSUME NullAssumption == NULL \notin Event
ASSUME PoisonAssumption == Poison \subseteq Event

VARIABLES
  committed,   \* rows of the table
  published,   \* rows with published_at set
  locked,      \* rows with a locked_at younger than a minute
  pc,          \* where publisher p stands in poll_once
  todo,        \* the claimed rows its loop has not produced yet
  cur,         \* the row between its produce and its mark_published
  buffer,      \* copies of a row in the producer of p
  topic,       \* copies of a row Kafka has acknowledged
  faults,      \* failures so far
  produced,    \* history: times a row was given to a producer
  lost,        \* history: rows of which a copy was dropped undelivered
  expired      \* history: rows whose lock ran out before they were published

tableVars == <<committed, published, locked>>
loopVars  == <<pc, todo, cur>>
histVars  == <<produced, lost, expired>>
vars      == <<tableVars, loopVars, buffer, topic, faults, histVars>>

Init ==
  /\ committed = {} /\ published = {} /\ locked = {}
  /\ pc       = [p \in Publisher |-> "idle"]
  /\ todo     = [p \in Publisher |-> {}]
  /\ cur      = [p \in Publisher |-> NULL]
  /\ buffer   = [p \in Publisher |-> [e \in Event |-> 0]]
  /\ topic    = [e \in Event |-> 0]
  /\ produced = [e \in Event |-> 0]
  /\ lost = {} /\ expired = {}
  /\ faults = 0

Fault == faults < MaxFaults /\ faults' = faults + 1

\* The environment: finish_document commits a row.
Insert(e) ==
  /\ e \notin committed
  /\ committed' = committed \cup {e}
  /\ UNCHANGED <<published, locked, loopVars, buffer, topic, faults, histVars>>

-----------------------------------------------------------------------------
(* claim_pending_outbox, mark_published *)

\* Mutants of Claimable: locks are ignored; locks never grow old.
ClaimableLocked(e) == e \in committed \ published
ClaimableOnce(e)   == e \in committed \ published /\ e \notin locked \cup expired

\* next_attempt_at is never set: defer_outbox_event has no caller.
Claimable(e) == e \in committed \ published /\ e \notin locked

\* ORDER BY created_at LIMIT Batch.
ClaimSet ==
  {e \in committed : Claimable(e) /\ Cardinality({f \in 1 .. e - 1 : Claimable(f)}) < Batch}

claim_pending_outbox ==
  locked' = locked \cup ClaimSet /\ UNCHANGED <<committed, published>>

\* Mutant of mark_published: the lock stays.
MarkKeepsLock(e) ==
  /\ published' = published \cup {e}
  /\ UNCHANGED <<locked, committed>>

mark_published(e) ==
  /\ published' = published \cup {e}
  /\ locked' = locked \ {e}
  /\ UNCHANGED committed

\* A minute has passed since e was locked.
Abandoned(e) == \A p \in Publisher : e \notin todo[p] /\ cur[p] # e

Expire(e) ==
  /\ e \in locked
  /\ locked' = locked \ {e}
  /\ expired' = expired \cup {e}
  /\ IF Abandoned(e) THEN UNCHANGED faults ELSE Fault
  /\ UNCHANGED <<committed, published, loopVars, buffer, topic, produced, lost>>

-----------------------------------------------------------------------------
(* poll_once *)

Idle(p) ==
  /\ pc'   = [pc EXCEPT ![p] = "idle"]
  /\ todo' = [todo EXCEPT ![p] = {}]
  /\ cur'  = [cur EXCEPT ![p] = NULL]

\* An empty claim ends the tick; RETURNING gives rows in no particular order.
Claim(p) ==
  /\ pc[p] = "idle"
  /\ claim_pending_outbox
  /\ pc'   = [pc EXCEPT ![p] = IF ClaimSet = {} THEN "idle" ELSE "produce"]
  /\ todo' = [todo EXCEPT ![p] = ClaimSet]
  /\ UNCHANGED <<cur, buffer, topic, faults, histVars>>

\* produce only puts the row in the producer's buffer.
Produce(p, e) ==
  /\ pc[p] = "produce"
  /\ e \in todo[p] \ Poison
  /\ buffer'   = [buffer EXCEPT ![p][e] = @ + 1]
  /\ produced' = [produced EXCEPT ![e] = @ + 1]
  /\ pc'   = [pc EXCEPT ![p] = "mark"]
  /\ todo' = [todo EXCEPT ![p] = @ \ {e}]
  /\ cur'  = [cur EXCEPT ![p] = e]
  /\ UNCHANGED <<tableVars, topic, faults, lost, expired>>

\* The row ends the tick; it and those behind it keep their locks.
ProduceRaises(p, e) ==
  /\ pc[p] = "produce"
  /\ e \in todo[p] \cap Poison
  /\ Idle(p)
  /\ UNCHANGED <<tableVars, buffer, topic, faults, histVars>>

\* Mutant of Mark: one UPDATE for all the rows this publisher has locked.
MarkBatch(p) ==
  /\ pc[p] = "mark"
  /\ published' = published \cup {cur[p]} \cup todo[p]
  /\ locked' = locked \ ({cur[p]} \cup todo[p])
  /\ pc'  = [pc EXCEPT ![p] = IF todo[p] = {} THEN "flush" ELSE "produce"]
  /\ cur' = [cur EXCEPT ![p] = NULL]
  /\ UNCHANGED <<committed, todo, buffer, topic, faults, histVars>>

\* The mark does not wait for the delivery report.
Mark(p) ==
  /\ pc[p] = "mark"
  /\ mark_published(cur[p])
  /\ pc'  = [pc EXCEPT ![p] = IF todo[p] = {} THEN "flush" ELSE "produce"]
  /\ cur' = [cur EXCEPT ![p] = NULL]
  /\ UNCHANGED <<todo, buffer, topic, faults, histVars>>

\* flush(10) returns, whether or not the buffer is empty.
Flush(p) ==
  /\ pc[p] = "flush"
  /\ Idle(p)
  /\ UNCHANGED <<tableVars, buffer, topic, faults, histVars>>

\* run catches what a tick raises and goes on with the next one; the rows
\* left over keep their lock.  The statement may have taken effect before it
\* raised.
TickFails(p) ==
  /\ \/ /\ pc[p] = "idle"
        /\ claim_pending_outbox
     \/ /\ pc[p] = "produce"
        /\ UNCHANGED tableVars
     \/ /\ pc[p] = "mark"
        /\ mark_published(cur[p]) \/ UNCHANGED tableVars
  /\ Idle(p)
  /\ Fault
  /\ UNCHANGED <<buffer, topic, histVars>>

\* The process ends, killed or stopped by a signal after a last flush(10), and
\* is started again; what its producer still held is gone.
Restart(p) ==
  /\ Idle(p)
  /\ lost'   = lost \cup {e \in Event : buffer[p][e] > 0}
  /\ buffer' = [buffer EXCEPT ![p] = [e \in Event |-> 0]]
  /\ Fault
  /\ UNCHANGED <<tableVars, topic, produced, expired>>

-----------------------------------------------------------------------------
(* The producer's background thread; _on_delivery only counts and logs *)

Deliver(p, e) ==
  /\ buffer[p][e] > 0
  /\ buffer' = [buffer EXCEPT ![p][e] = @ - 1]
  /\ topic'  = [topic EXCEPT ![e] = @ + 1]
  /\ UNCHANGED <<tableVars, loopVars, faults, histVars>>

DeliveryFails(p, e) ==
  /\ buffer[p][e] > 0
  /\ buffer' = [buffer EXCEPT ![p][e] = @ - 1]
  /\ lost'   = lost \cup {e}
  /\ Fault
  /\ UNCHANGED <<tableVars, loopVars, topic, produced, expired>>

-----------------------------------------------------------------------------

Next ==
  \/ \E e \in Event : Insert(e) \/ Expire(e)
  \/ \E p \in Publisher :
       \/ Claim(p) \/ Mark(p) \/ Flush(p) \/ TickFails(p) \/ Restart(p)
       \/ \E e \in Event : \/ Produce(p, e) \/ ProduceRaises(p, e)
                          \/ Deliver(p, e) \/ DeliveryFails(p, e)

Spec == Init /\ [][Next]_vars

\* The producer's thread retries a delivery until it succeeds or fails, and an
\* abandoned lock grows old.  Some loop polls every second while locks last a
\* minute, so that a row that comes within reach again and again, if only while
\* older rows are locked, is claimed: strong fairness.
Fairness ==
  /\ \A e \in Event :
       /\ WF_vars(Abandoned(e) /\ Expire(e))
       /\ SF_vars(\E p \in Publisher : e \in ClaimSet /\ Claim(p))
  /\ \A p \in Publisher :
       /\ WF_vars(\E e \in Event : Produce(p, e) \/ ProduceRaises(p, e))
       /\ WF_vars(Mark(p)) /\ WF_vars(Flush(p))
       /\ \A e \in Event : WF_vars(Deliver(p, e))

FairSpec == Spec /\ Fairness

-----------------------------------------------------------------------------
(* Properties *)

\* The type invariant, with what a publisher holds at each point of its loop.
TypeOK ==
  /\ committed \subseteq Event
  /\ published \subseteq committed
  /\ locked \subseteq committed \ published
  /\ pc \in [Publisher -> {"idle", "produce", "mark", "flush"}]
  /\ todo \in [Publisher -> SUBSET committed]
  /\ cur \in [Publisher -> committed \cup {NULL}]
  /\ buffer \in [Publisher -> [Event -> Nat]]
  /\ topic \in [Event -> Nat]
  /\ produced \in [Event -> Nat]
  /\ lost \subseteq Event /\ expired \subseteq Event
  /\ faults \in 0 .. MaxFaults

\* A row is given to a producer a second time only if its lock ran out: two
\* publishers polling one table never send the same row otherwise, whatever
\* raises or restarts.
DuplicateOnlyAfterExpiry ==
  \A e \in Event : produced[e] > 1 => e \in expired

\* published_at is set only on rows some producer was given: such a row is in
\* the topic or in a buffer, unless a copy of it was dropped by a producer that
\* died or gave up.
PublishedWasProduced ==
  \A e \in published :
    topic[e] > 0 \/ e \in lost \/ \E p \in Publisher : buffer[p][e] > 0

\* A publisher holds e in one batch with a row that cannot be produced.
BesidePoison(e) == \E p \in Publisher : e \in todo[p] /\ todo[p] \cap Poison # {}

\* At-least-once up to lost copies: every committed row that can be produced
\* reaches the topic, or a producer drops a copy of it, and it stops being
\* claimed.  A row that cannot be produced holds up only those that are claimed
\* along with it, time and again: the others overtake it.
CommittedIsPublished ==
  \A e \in Event \ Poison :
    \/ e \in committed ~> (e \in published /\ (topic[e] > 0 \/ e \in lost))
    \/ []<>BesidePoison(e)

-----------------------------------------------------------------------------
(* The inductive invariant behind the safety properties *)

\* What a publisher holds at each point of its loop.
LoopInv ==
  \A p \in Publisher :
    /\ pc[p] \in {"idle", "flush"} => todo[p] = {}
    /\ pc[p] = "mark" => cur[p] \in committed
    /\ pc[p] # "mark" => cur[p] = NULL

\* A copy given to a producer is accounted for.
Traced(e) == topic[e] > 0 \/ e \in lost \/ \E p \in Publisher : buffer[p][e] > 0

TraceInv ==
  /\ \A e \in Event : produced[e] > 0 => Traced(e)
  /\ \A e \in published : produced[e] > 0
  /\ \A p \in Publisher : cur[p] \in Event => produced[cur[p]] > 0

\* While its lock has not run out, a row in a publisher's loop is locked, in no
\* other loop, and not produced yet; a row that was produced is locked or
\* published, and so no poll claims it.
Once(e) ==
  /\ produced[e] <= 1
  /\ produced[e] > 0 => e \in locked \cup published
  /\ \A p \in Publisher : e \in todo[p] => e \in locked /\ produced[e] = 0
  /\ \A p, q \in Publisher : e \in todo[p] /\ e \in todo[q] => p = q

OnceInv == \A e \in Event \ expired : Once(e)

IInv == TypeOK /\ LoopInv /\ TraceInv /\ OnceInv

=============================================================================
