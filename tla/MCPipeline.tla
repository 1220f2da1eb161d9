----------------------------- MODULE MCPipeline -----------------------------
(***************************************************************************)
(* Pipeline on a few runs, and what the repository says of it that its     *)
(* code does not do.                                                       *)
(***************************************************************************)
EXTENDS Pipeline

\* README.md:90-91 says of extracted fields "required fields missing or under
\* threshold -> `needs_review` + issues; clean -> `completed`": a run that has
\* extracted them does not end in a failure that the store had no part in.
ExtractedIsCommitted ==
  \A r \in Runs : cause[r] = "extracted" => outcome[r] \notin {"document", "internal"}

=============================================================================
