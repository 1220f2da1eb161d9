-------------------------- MODULE DocumentContract --------------------------
(***************************************************************************)
(* What the engine promises the callers of its RPCs and the consumers of   *)
(* its events, with nothing said of handlers, runs, jobs or retries        *)
(* (README, "Guarantees").  A document is open until it has an outcome; an *)
(* outcome and its event are one step; an outcome may be replaced, never   *)
(* undone; a document whose caller was not told of it may be withdrawn,    *)
(* and its key used again, but an event may still follow it.               *)
(***************************************************************************)
EXTENDS Naturals, Sequences

CONSTANTS DocId, Key, NULL, Outcome

VARIABLES
  state,      \* none, open, resolved or withdrawn
  key,        \* the idempotency key of a document
  outcome,    \* what it was resolved with
  log,        \* the events, in the order they were committed
  promised    \* documents whose callers were told of them

vars == <<state, key, outcome, log, promised>>

Init ==
  /\ state    = [d \in DocId |-> "none"]
  /\ key      = [d \in DocId |-> NULL]
  /\ outcome  = [d \in DocId |-> "none"]
  /\ log      = << >>
  /\ promised = {}

Standing(d) == state[d] \in {"open", "resolved"}

Event(d, o) == [document_id |-> d, idempotency_key |-> key[d], outcome |-> o]

Open(d, k) ==
  /\ state[d] = "none"
  /\ \A e \in DocId : Standing(e) => key[e] # k
  /\ state' = [state EXCEPT ![d] = "open"]
  /\ key'   = [key EXCEPT ![d] = k]
  /\ UNCHANGED <<outcome, log, promised>>

Resolve(d, o) ==
  /\ Standing(d)
  /\ state'   = [state EXCEPT ![d] = "resolved"]
  /\ outcome' = [outcome EXCEPT ![d] = o]
  /\ log'     = Append(log, Event(d, o))
  /\ UNCHANGED <<key, promised>>

Withdraw(d) ==
  /\ Standing(d)
  /\ d \notin promised
  /\ state'   = [state EXCEPT ![d] = "withdrawn"]
  /\ outcome' = [outcome EXCEPT ![d] = "none"]
  /\ UNCHANGED <<key, log, promised>>

\* A run that had loaded the document before it was withdrawn.
Echo(d, o) ==
  /\ state[d] = "withdrawn"
  /\ log' = Append(log, Event(d, o))
  /\ UNCHANGED <<state, key, outcome, promised>>

Promise(d) ==
  /\ Standing(d)
  /\ promised' = promised \cup {d}
  /\ UNCHANGED <<state, key, outcome, log>>

Next ==
  \E d \in DocId :
    \/ \E k \in Key : Open(d, k)
    \/ \E o \in Outcome : Resolve(d, o) \/ Echo(d, o)
    \/ Withdraw(d) \/ Promise(d)

Spec == Init /\ [][Next]_vars

=============================================================================
