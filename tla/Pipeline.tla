------------------------------ MODULE Pipeline ------------------------------
(***************************************************************************)
(* What one process does between mark_processing and the outcome: the try  *)
(* body of process_document (pipeline/pipeline.py), with the download, the *)
(* inspection and the Baidu adapter it calls.  The runs of one process     *)
(* share ctx["ocr_semaphore"]; each has a temporary file of its own.  It   *)
(* is the inside of the action Work of DocumentLifecycle, whose outcomes   *)
(* are named alike here.                                                   *)
(*                                                                         *)
(* A step is the code from one await to the next.  External: S3, Baidu,    *)
(* and asyncio.Semaphore, which hands the permit of a release straight to  *)
(* its oldest waiter.                                                      *)
(***************************************************************************)
EXTENDS Naturals, Sequences, FiniteSets, SequencesExt

CONSTANTS
  Runs,         \* runs of process_document in this process
  Permits,      \* settings.ocr_semaphore
  MaxChunks,    \* chunks that settings.max_file_bytes admits
  MaxPages,     \* settings.max_pages
  MaxPolls,     \* polls that fit in settings.baidu_poll_timeout
  CountsFields  \* as in DocumentLifecycle: FALSE in the code as it stands

ASSUME PipelineAssumption ==
  CountsFields \in BOOLEAN /\ Permits \in Nat \ {0} /\ MaxChunks \in Nat /\ MaxPages \in Nat \ {0} /\ MaxPolls \in Nat

VARIABLES
  mode,      \* settings.baidu_mode
  pc,        \* the await run r stands at
  chunks,    \* chunks it has downloaded
  pages,     \* pages it has yet to send to the provider
  polls,     \* times it has polled the current job in vain
  temp,      \* runs whose temporary file is on disk
  permits,   \* free permits of the semaphore
  waiters,   \* runs waiting for one, oldest first
  outcome,   \* what became of the run
  cause      \* history: an unavailable provider ended it, or its fields are
             \* extracted and nothing but its own code has raised since

semVars  == <<permits, waiters>>
loopVars == <<chunks, pages, polls>>
vars     == <<mode, pc, loopVars, temp, semVars, outcome, cause>>

Holding == {"ocr", "sync", "submit", "poll", "fetch"}
PC      == {"idle", "request", "read", "discard", "wait", "finish", "fail", "ended"} \cup Holding
Outcome == {"none", "result", "document", "internal", "transient", "cancelled", "interrupted"}

Init ==
  /\ mode \in {"sync", "async"}
  /\ pc      = [r \in Runs |-> "idle"]
  /\ chunks  = [r \in Runs |-> 0]
  /\ pages   = [r \in Runs |-> 0]
  /\ polls   = [r \in Runs |-> 0]
  /\ temp    = {}
  /\ permits = Permits
  /\ waiters = << >>
  /\ outcome = [r \in Runs |-> "none"]
  /\ cause   = [r \in Runs |-> "none"]

-----------------------------------------------------------------------------
(* How a run moves *)

Goto(r, l) == pc' = [pc EXCEPT ![r] = l] /\ UNCHANGED semVars

\* async with semaphore: no wait when a permit is free and nobody is queued.
Acquire(r) ==
  IF permits > 0 /\ waiters = << >>
  THEN pc' = [pc EXCEPT ![r] = "ocr"] /\ permits' = permits - 1 /\ UNCHANGED waiters
  ELSE pc' = [pc EXCEPT ![r] = "wait"] /\ waiters' = Append(waiters, r) /\ UNCHANGED permits

Release(r, l) ==
  IF waiters = << >>
  THEN pc' = [pc EXCEPT ![r] = l] /\ permits' = permits + 1 /\ UNCHANGED waiters
  ELSE /\ pc' = [pc EXCEPT ![r] = l, ![Head(waiters)] = "ocr"]
       /\ waiters' = Tail(waiters)
       /\ UNCHANGED permits

\* Mutant of Leave: no release on the way out of an exception.
LeaveKeepsPermit(r, l) ==
  IF pc[r] \in Holding /\ l # "ended" THEN Release(r, l) ELSE Goto(r, l)

\* The run goes to l, out of the semaphore if it is inside.
Leave(r, l) == IF pc[r] \in Holding THEN Release(r, l) ELSE Goto(r, l)

\* The download, the pages and the polls of r are behind it.
Forget(r) ==
  /\ chunks' = [chunks EXCEPT ![r] = 0]
  /\ pages'  = [pages EXCEPT ![r] = 0]
  /\ polls'  = [polls EXCEPT ![r] = 0]

\* The run goes to the await of a commit, with outcome o.
Decide(r, l, o) ==
  /\ Leave(r, l)
  /\ outcome' = [outcome EXCEPT ![r] = o]
  /\ Forget(r)
  /\ UNCHANGED temp

\* Mutant of End: the file is removed on success only.
EndKeepsFile(r, o) ==
  /\ Leave(r, "ended")
  /\ outcome' = [outcome EXCEPT ![r] = o]
  /\ Forget(r)
  /\ temp' = IF o = "result" THEN temp \ {r} ELSE temp

\* It is over.  finally: cleanup_temp.
End(r, o) ==
  /\ Leave(r, "ended")
  /\ outcome' = [outcome EXCEPT ![r] = o]
  /\ Forget(r)
  /\ temp' = temp \ {r}

\* Mutant of Except: no clause for ProviderTransientError.
ExceptAll(r, o) == Decide(r, "fail", IF o = "transient" THEN "internal" ELSE o)

\* The except clauses: all but the transient one await _fail.
Except(r, o) == IF o = "transient" THEN End(r, o) ELSE Decide(r, "fail", o)

\* extract_fields and build_result on the lines read: a result to commit, once
\* its fields are counted; a schema this process does not have; an exception.
Extract(r) ==
  \/ /\ IF CountsFields THEN Decide(r, "finish", "result") ELSE Except(r, "internal")
     /\ cause' = [cause EXCEPT ![r] = "extracted"]
  \/ /\ \E o \in {"document", "internal"} : Except(r, o)
     /\ UNCHANGED cause

-----------------------------------------------------------------------------
(* pipeline/download.py, pipeline/inspect_file.py *)

\* _validate_ref comes before any request.
Start(r) ==
  /\ pc[r] = "idle"
  /\ \/ Goto(r, "request") /\ UNCHANGED <<loopVars, temp, outcome>>
     \/ Except(r, "document")
  /\ UNCHANGED <<mode, cause>>

\* get_object: the body, NoSuchKey, or anything else.
GetObject(r) ==
  /\ pc[r] = "request"
  /\ \/ Goto(r, "read") /\ temp' = temp \cup {r} /\ UNCHANGED <<loopVars, outcome>>
     \/ \E o \in {"document", "internal"} : Except(r, o)
  /\ UNCHANGED <<mode, cause>>

\* Mutant of ReadChunk: no size cap.
ReadChunkUncapped(r) ==
  /\ pc[r] = "read"
  /\ chunks' = [chunks EXCEPT ![r] = @ + 1]
  /\ UNCHANGED <<mode, pc, pages, polls, temp, semVars, outcome, cause>>

ReadChunk(r) ==
  /\ pc[r] = "read"
  /\ chunks[r] < MaxChunks
  /\ chunks' = [chunks EXCEPT ![r] = @ + 1]
  /\ UNCHANGED <<mode, pc, pages, polls, temp, semVars, outcome, cause>>

\* A chunk too many, or a stream that breaks: close, and await the unlink.
ReadFails(r) ==
  /\ pc[r] = "read"
  /\ \E o \in {"document", "internal"} :
       /\ o = "document" => chunks[r] = MaxChunks
       /\ outcome' = [outcome EXCEPT ![r] = o]
  /\ Goto(r, "discard")
  /\ Forget(r)
  /\ UNCHANGED <<mode, temp, cause>>

Discard(r) ==
  /\ pc[r] = "discard"
  /\ Goto(r, "fail")
  /\ temp' = temp \ {r}
  /\ UNCHANGED <<mode, loopVars, outcome, cause>>

\* The stream ended: inspect, then a text layer, pages to send to the provider,
\* or a refusal.  (A PDF without pages is scanned, too.)
Downloaded(r) ==
  /\ pc[r] = "read"
  /\ \/ (\E o \in {"document", "internal"} : Except(r, o)) /\ UNCHANGED cause
     \/ Extract(r)
     \/ \E n \in 0 .. MaxPages :
          /\ Acquire(r)
          /\ chunks' = [chunks EXCEPT ![r] = 0]
          /\ pages'  = [pages EXCEPT ![r] = n]
          /\ UNCHANGED <<polls, temp, outcome, cause>>
  /\ UNCHANGED mode

-----------------------------------------------------------------------------
(* _ocr_lines, ocr/baidu.py *)

\* overload is a status of BAIDU_RETRYABLE_HTTP; rejected, one that the surface
\* lists as permanent (a job that failed, when polling); unlisted, any other
\* status below 500; garbled is no JSON; incomplete, JSON without the fields
\* that are read.
Answer == {"ok", "pending", "overload", "server_error", "rejected", "unlisted",
           "garbled", "incomplete", "network"}

\* What each of the four calls raises: for SAQ to retry, for the document to
\* fail, or by accident.
Transient == [sync   |-> {"overload", "network"},
              submit |-> {"overload", "server_error", "unlisted", "garbled", "network"},
              poll   |-> {"garbled", "network"},
              fetch  |-> {"overload", "server_error", "rejected", "unlisted", "network"}]
Permanent == [sync   |-> {"server_error", "rejected", "unlisted"},
              submit |-> {"rejected"}, poll |-> {"rejected"}, fetch |-> {}]
Broken    == [sync   |-> {"garbled"},
              submit |-> {"incomplete"}, poll |-> {"incomplete"}, fetch |-> {"garbled"}]

\* A poll looks at nothing but the state in the body.
Undecided == [sync |-> {}, submit |-> {}, fetch |-> {},
              poll |-> {"pending", "overload", "server_error", "unlisted"}]

Verdict(stage, a) ==
  CASE a \in Transient[stage] -> "transient"
    [] a \in Permanent[stage] -> "document"
    [] a \in Broken[stage]    -> "internal"
    [] a \in Undecided[stage] -> "again"
    [] OTHER                  -> "go on"

FirstCall == IF mode = "sync" THEN "sync" ELSE "submit"

\* The permit is there: rasterise, and send the first page.
EnterOcr(r) ==
  /\ pc[r] = "ocr"
  /\ \/ pages[r] = 0 /\ Extract(r)
     \/ pages[r] > 0 /\ Goto(r, FirstCall) /\ UNCHANGED <<loopVars, temp, outcome, cause>>
     \/ Except(r, "internal") /\ UNCHANGED cause
  /\ UNCHANGED mode

\* A page is read; the last one ends the use of the semaphore.
PageRead(r) ==
  IF pages[r] = 1 THEN Extract(r)
  ELSE /\ Goto(r, FirstCall)
       /\ pages' = [pages EXCEPT ![r] = @ - 1]
       /\ polls' = [polls EXCEPT ![r] = 0]
       /\ UNCHANGED <<chunks, temp, outcome, cause>>

Cause(a) ==
  CASE a \in {"overload", "network"} -> "retryable"
    [] a = "server_error"            -> "server_error"
    [] OTHER                         -> "none"

\* The call of r is answered with a.
Answered(r, a) ==
  /\ pc[r] \in {"sync", "submit", "poll", "fetch"}
  /\ LET v == Verdict(pc[r], a)
     IN  \/ /\ v = "go on"
            /\ \/ pc[r] \in {"sync", "fetch"} /\ PageRead(r)
               \/ /\ pc[r] \in {"submit", "poll"}
                  /\ Goto(r, IF pc[r] = "submit" THEN "poll" ELSE "fetch")
                  /\ UNCHANGED <<loopVars, temp, outcome, cause>>
         \/ /\ v = "again"
            /\ polls[r] < MaxPolls
            /\ polls' = [polls EXCEPT ![r] = @ + 1]
            /\ UNCHANGED <<pc, semVars, chunks, pages, temp, outcome, cause>>
         \/ /\ v \notin {"go on", "again"}
            /\ Except(r, v)
            /\ cause' = [cause EXCEPT ![r] = Cause(a)]
  /\ UNCHANGED mode

\* The job is still not done and the deadline has passed.
PollTimeout(r) ==
  /\ pc[r] = "poll"
  /\ Except(r, "transient")
  /\ UNCHANGED <<mode, cause>>

-----------------------------------------------------------------------------
(* The commit, and cancellation *)

\* Mutant of Finish: a commit that raised is taken for a fault of the document.
FinishBlamesDocument(r) ==
  /\ pc[r] = "finish"
  /\ \/ End(r, "result") /\ UNCHANGED cause
     \/ Except(r, "document") /\ cause' = [cause EXCEPT ![r] = "none"]
  /\ UNCHANGED mode

\* finish_document returned, or raised into the catch-all clause.
Finish(r) ==
  /\ pc[r] = "finish"
  /\ \/ End(r, "result") /\ UNCHANGED cause
     \/ Except(r, "internal") /\ cause' = [cause EXCEPT ![r] = "none"]
  /\ UNCHANGED mode

\* _fail returned or raised: either way the run is over.
Fail(r) ==
  /\ pc[r] = "fail"
  /\ End(r, outcome[r])
  /\ UNCHANGED <<mode, cause>>

\* CancelledError at an await.  While the body is streamed nobody removes the
\* file, and an unlink that waits for a thread may never start.
Cancel(r) ==
  /\ pc[r] \notin {"idle", "ended"}
  /\ IF pc[r] = "wait"
     THEN pc' = [pc EXCEPT ![r] = "ended"] /\ waiters' = RemoveFirst(waiters, r) /\ UNCHANGED permits
     ELSE Leave(r, "ended")
  /\ \/ pc[r] # "read" /\ temp' = temp \ {r}
     \/ pc[r] \in {"read", "discard"} /\ UNCHANGED temp
  /\ outcome' = [outcome EXCEPT ![r] =
                   IF pc[r] \in {"read", "discard"} THEN "interrupted" ELSE "cancelled"]
  /\ Forget(r)
  /\ UNCHANGED <<mode, cause>>

-----------------------------------------------------------------------------

Step(r) ==
  \/ GetObject(r) \/ ReadChunk(r) \/ ReadFails(r) \/ Discard(r) \/ Downloaded(r)
  \/ EnterOcr(r) \/ (\E a \in Answer : Answered(r, a)) \/ PollTimeout(r)
  \/ Finish(r) \/ Fail(r)

Next == \E r \in Runs : Start(r) \/ Step(r) \/ Cancel(r)

Spec == Init /\ [][Next]_vars

\* Every request of a run is answered or times out (httpx, botocore and the
\* pool have timeouts), and the event loop resumes a run that can go on.
FairSpec == Spec /\ \A r \in Runs : WF_vars(Step(r))

-----------------------------------------------------------------------------
(* Properties *)

\* The type invariant.
TypeOK ==
  /\ pc      \in [Runs -> PC]
  /\ chunks  \in [Runs -> 0 .. MaxChunks]
  /\ pages   \in [Runs -> 0 .. MaxPages]
  /\ polls   \in [Runs -> 0 .. MaxPolls]
  /\ temp    \subseteq Runs
  /\ permits \in 0 .. Permits
  /\ waiters \in Seq(Runs)
  /\ outcome \in [Runs -> Outcome]
  /\ cause   \in [Runs -> {"none", "retryable", "server_error", "extracted"}]

Holders == {r \in Runs : pc[r] \in Holding}

\* The OCR stage stays bounded and no permit is lost, whatever raises or is
\* cancelled inside it, and nobody waits while a permit is free.
PermitsAreKept ==
  /\ permits + Cardinality(Holders) = Permits
  /\ ToSet(waiters) = {r \in Runs : pc[r] = "wait"}
  /\ waiters # << >> => permits = 0

\* A run leaves no temporary file behind, unless it was cancelled before
\* download_to_temp gave the file to process_document, whose finally clause
\* would have removed it.
OnlyInterruptedLeaveFiles ==
  \A r \in temp : pc[r] = "ended" => outcome[r] = "interrupted"

Blameless(c, o) ==
  /\ c = "retryable" => o \notin {"result", "document", "internal"}
  /\ c = "server_error" /\ o \in {"result", "document", "internal"} => mode = "sync"

\* README, "Failure semantics": an overloaded or unreachable provider never
\* makes a document fail; the run raises with nothing committed, whatever the
\* pages before it gave.  A 5xx that is not listed as retryable does so on the
\* synchronous surface only, where every other status is permanent.
RetryableIsNotCommitted == \A r \in Runs : Blameless(cause[r], outcome[r])

AsksOf(r) ==
  CASE pc[r] = "finish"           -> "result"
    [] pc[r] = "fail"             -> outcome[r]
    [] pc[r] = "ended"            -> "over"
    [] OTHER                      -> "nothing"

RunsContract == INSTANCE RunContract WITH asks <- [r \in Runs |-> AsksOf(r)]

\* Whatever storage and provider answer, and however the clauses follow one
\* another, a run asks for one outcome and takes only a result back, for an
\* internal failure: what DocumentLifecycle takes a run to do.
RunsKeepContract == RunsContract!Spec

\* Every run ends: no wait for a permit or for a Baidu job goes on for ever.
EveryRunEnds ==
  \A r \in Runs : pc[r] = "request" ~> pc[r] = "ended"

-----------------------------------------------------------------------------
(* The inductive invariant, for PipelineProofs *)

\* Nobody queues twice for a permit, and finitely many hold one.
SemInv == IsInjective(waiters) /\ IsFiniteSet(Holders) /\ PermitsAreKept

\* What is settled about run r at each await: the surface it calls and the page
\* it calls for, the outcome it carries, and what can have ended it.
RunInv(r) ==
  /\ pc[r] = "sync" => mode = "sync"
  /\ pc[r] \in {"submit", "poll", "fetch"} => mode = "async"
  /\ pc[r] \in Holding \ {"ocr"} => pages[r] > 0
  /\ pc[r] \in {"discard", "fail"} => outcome[r] \in {"document", "internal"}
  /\ pc[r] = "finish" => outcome[r] = "result"
  /\ pc[r] \notin {"discard", "fail", "finish", "ended"} => outcome[r] = "none"
  /\ pc[r] = "ended" /\ r \in temp => outcome[r] = "interrupted"
  /\ cause[r] \in {"retryable", "server_error"} => pc[r] \in {"fail", "ended"}
  /\ Blameless(cause[r], outcome[r])

IInv == TypeOK /\ mode \in {"sync", "async"} /\ SemInv /\ \A r \in Runs : RunInv(r)

=============================================================================
