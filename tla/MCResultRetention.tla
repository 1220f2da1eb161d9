------------------------ MODULE MCResultRetention ------------------------
(***************************************************************************)
(* ResultRetention with more documents than one sweep lists, and what the  *)
(* repository says of it that its code does not do.                        *)
(***************************************************************************)
EXTENDS ResultRetention

\* worker/settings.py:29 says the sweep purges "result payloads older than the
\* retention window": every one of them, in the end, unless its document
\* completes again.
ExpiredArePurged ==
  \A d \in Doc : (d \in Expired) ~> (d \notin stored \/ d \notin Expired)

==========================================================================
