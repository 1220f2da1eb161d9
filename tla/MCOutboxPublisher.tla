------------------------- MODULE MCOutboxPublisher -------------------------
(***************************************************************************)
(* OutboxPublisher on a few rows and publishers, and what the repository   *)
(* says of it that its code does not do.                                   *)
(***************************************************************************)
EXTENDS OutboxPublisher

\* README.md:110-114 says "the outbox publisher only marks `published_at` after
\* Kafka acknowledges" and promises at-least-once delivery: a row no poll will
\* claim again is in the topic, or in a buffer on its way there.
AtLeastOnce ==
  \A e \in published : topic[e] > 0 \/ \E p \in Publisher : buffer[p][e] > 0

=============================================================================
