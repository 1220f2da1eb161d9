---------------------------- MODULE RunContract ----------------------------
(***************************************************************************)
(* What a run of process_document may ask to have committed, and in which  *)
(* order: one outcome, or nothing.  Only a result can be taken back, when  *)
(* its commit raised, and only for an internal failure, the one kind that  *)
(* the run re-raises; a failure is not followed by anything.               *)
(*                                                                         *)
(* Pipeline and DocumentLifecycle both implement it: what Pipeline shows   *)
(* of the inside of a run is what DocumentLifecycle takes one to do.       *)
(***************************************************************************)
CONSTANT Runs

VARIABLE asks    \* what run r is having committed

Init == asks = [r \in Runs |-> "nothing"]

Decide(r) ==
  /\ asks[r] = "nothing"
  /\ \E o \in {"result", "document", "internal"} : asks' = [asks EXCEPT ![r] = o]

TakeBack(r) ==
  /\ asks[r] = "result"
  /\ asks' = [asks EXCEPT ![r] = "internal"]

End(r) ==
  /\ asks[r] # "over"
  /\ asks' = [asks EXCEPT ![r] = "over"]

Next == \E r \in Runs : Decide(r) \/ TakeBack(r) \/ End(r)

Spec == Init /\ [][Next]_asks

=============================================================================
