--------------------------- MODULE PipelineProofs ---------------------------
(***************************************************************************)
(* Safety of Pipeline for any number of runs, permits, chunks, pages and   *)
(* polls, and that its runs keep RunContract.                              *)
(***************************************************************************)
EXTENDS Pipeline, SequenceLemmas, FiniteSetTheorems

-----------------------------------------------------------------------------
(* The semaphore *)

\* A step of r that keeps the semaphore: of the other runs, it may only give a
\* waiting one a permit.
Moves(r) ==
  /\ pc' \in [Runs -> PC]
  /\ permits' \in 0 .. Permits
  /\ waiters' \in Seq(Runs)
  /\ SemInv'
  /\ \A q \in Runs \ {r} : pc'[q] = pc[q] \/ (pc[q] = "wait" /\ pc'[q] = "ocr")

\* A run that stays outside of the semaphore, or stays inside of it.
LEMMA GotoMoves ==
  ASSUME IInv, NEW r \in Runs, NEW l \in PC \ {"wait"}, Goto(r, l),
         pc[r] # "wait", l \in Holding <=> pc[r] \in Holding
  PROVE  Moves(r) /\ pc'[r] = l
<1>1. /\ pc' = [pc EXCEPT ![r] = l] /\ pc \in [Runs -> PC]
      /\ permits' = permits /\ waiters' = waiters
  BY DEF Goto, semVars, IInv, TypeOK
<1>2. Holders' = Holders /\ {q \in Runs : pc[q] = "wait"} = {q \in Runs : pc'[q] = "wait"}
  BY <1>1 DEF Holders
<1>3. SemInv'
  BY <1>1, <1>2 DEF SemInv, PermitsAreKept, IInv
<1> QED BY <1>1, <1>3 DEF Moves, IInv, TypeOK

\* A run that comes for a permit takes a free one, or queues.
LEMMA AcquireMoves ==
  ASSUME IInv, NEW r \in Runs, pc[r] = "read", Acquire(r)
  PROVE  Moves(r) /\ pc'[r] \in {"ocr", "wait"}
<1> USE DEF Acquire
<1>0. /\ pc \in [Runs -> PC] /\ permits \in 0 .. Permits /\ Permits \in Nat
      /\ waiters \in Seq(Runs) /\ IsInjective(waiters)
      /\ IsFiniteSet(Holders) /\ Cardinality(Holders) \in Nat
      /\ permits + Cardinality(Holders) = Permits
      /\ ToSet(waiters) = {q \in Runs : pc[q] = "wait"}
      /\ waiters # << >> => permits = 0
  BY PipelineAssumption, FS_CardinalityType DEF IInv, TypeOK, SemInv, PermitsAreKept
<1>1. CASE permits > 0 /\ waiters = << >>
  <2>1. pc' = [pc EXCEPT ![r] = "ocr"] /\ permits' = permits - 1 /\ waiters' = waiters
    BY <1>1
  <2>2. /\ Holders' = Holders \cup {r} /\ r \notin Holders
        /\ {q \in Runs : pc[q] = "wait"} = {q \in Runs : pc'[q] = "wait"}
    BY <1>0, <2>1 DEF Holders, Holding, PC
  <2>3. IsFiniteSet(Holders') /\ Cardinality(Holders') = Cardinality(Holders) + 1
    BY <1>0, <2>2, FS_AddElement
  <2>4. SemInv'
    BY <1>0, <1>1, <2>1, <2>2, <2>3 DEF SemInv, PermitsAreKept
  <2> QED BY <1>0, <1>1, <2>1, <2>4 DEF Moves, PC, Holding
<1>2. CASE ~(permits > 0 /\ waiters = << >>)
  <2>1. pc' = [pc EXCEPT ![r] = "wait"] /\ waiters' = Append(waiters, r) /\ permits' = permits
    BY <1>2
  <2>2. permits = 0
    BY <1>0, <1>2
  <2>3. /\ Holders' = Holders /\ r \notin ToSet(waiters)
        /\ {q \in Runs : pc[q] = "wait"} \cup {r} = {q \in Runs : pc'[q] = "wait"}
    BY <1>0, <2>1 DEF Holders, Holding, PC
  <2>4. /\ waiters' \in Seq(Runs) /\ IsInjective(waiters')
        /\ ToSet(waiters') = ToSet(waiters) \cup {r}
    BY <1>0, <2>1, <2>3, AppendDistinct
  <2>5. SemInv'
    BY <1>0, <2>1, <2>2, <2>3, <2>4 DEF SemInv, PermitsAreKept
  <2> QED BY <1>0, <2>1, <2>4, <2>5 DEF Moves, PC
<1> QED BY <1>1, <1>2

\* A run that leaves frees its permit, or hands it to the oldest waiter.
LEMMA LeaveMoves ==
  ASSUME IInv, NEW r \in Runs, NEW l \in {"finish", "fail", "ended"},
         pc[r] # "wait", Leave(r, l)
  PROVE  Moves(r) /\ pc'[r] = l
<1>0. /\ pc \in [Runs -> PC] /\ permits \in 0 .. Permits /\ Permits \in Nat
      /\ waiters \in Seq(Runs) /\ IsInjective(waiters)
      /\ IsFiniteSet(Holders) /\ Cardinality(Holders) \in Nat
      /\ permits + Cardinality(Holders) = Permits
      /\ ToSet(waiters) = {q \in Runs : pc[q] = "wait"}
      /\ waiters # << >> => permits = 0
  BY PipelineAssumption, FS_CardinalityType DEF IInv, TypeOK, SemInv, PermitsAreKept
<1>l. l \in PC \ {"wait"} /\ l \notin Holding /\ "ocr" \in PC /\ "ocr" \in Holding
  BY DEF PC, Holding
<1>1. CASE pc[r] \notin Holding
  BY <1>1, <1>l, GotoMoves DEF Leave
<1>2. CASE pc[r] \in Holding /\ waiters = << >>
  <2>1. pc' = [pc EXCEPT ![r] = l] /\ permits' = permits + 1 /\ waiters' = waiters
    BY <1>2 DEF Leave, Release
  <2>2. /\ Holders' = Holders \ {r} /\ r \in Holders
        /\ {q \in Runs : pc[q] = "wait"} = {q \in Runs : pc'[q] = "wait"}
    BY <1>0, <1>2, <1>l, <2>1 DEF Holders
  <2>3. /\ IsFiniteSet(Holders') /\ Cardinality(Holders') = Cardinality(Holders) - 1
        /\ Cardinality(Holders') \in Nat
    BY <1>0, <2>2, FS_RemoveElement, FS_CardinalityType
  <2>4. SemInv' /\ permits' \in 0 .. Permits
    BY <1>0, <1>2, <2>1, <2>2, <2>3 DEF SemInv, PermitsAreKept
  <2> QED BY <1>0, <1>l, <2>1, <2>4 DEF Moves
<1>3. CASE pc[r] \in Holding /\ waiters # << >>
  <2> DEFINE h == Head(waiters)
  <2>1. /\ pc' = [pc EXCEPT ![r] = l, ![h] = "ocr"] /\ permits' = permits
        /\ waiters' = Tail(waiters)
    BY <1>3 DEF Leave, Release
  <2>2. /\ h \in ToSet(waiters) /\ waiters' \in Seq(Runs) /\ IsInjective(waiters')
        /\ ToSet(waiters') = ToSet(waiters) \ {h}
    BY <1>0, <1>3, <2>1, TailDistinct
  <2>3. h \in Runs /\ pc[h] = "wait" /\ h # r
    BY <1>0, <2>2
  <2> HIDE DEF h
  <2>4. pc' \in [Runs -> PC] /\ pc'[r] = l /\ pc'[h] = "ocr"
    BY <1>0, <1>l, <2>1, <2>3
  <2>5. \A q \in Runs \ {r, h} : pc'[q] = pc[q]
    BY <1>0, <2>1, <2>3
  <2>6. "wait" \notin Holding
    BY DEF Holding
  <2>7. /\ Holders' = (Holders \ {r}) \cup {h} /\ r \in Holders /\ h \notin Holders
        /\ {q \in Runs : pc[q] = "wait"} \ {h} = {q \in Runs : pc'[q] = "wait"}
    BY <1>3, <1>l, <2>3, <2>4, <2>5, <2>6 DEF Holders
  <2>8. /\ IsFiniteSet(Holders \ {r})
        /\ Cardinality(Holders \ {r}) = Cardinality(Holders) - 1
    BY <1>0, <2>7, FS_RemoveElement
  <2>9. IsFiniteSet(Holders') /\ Cardinality(Holders') = Cardinality(Holders)
    <3>1. /\ IsFiniteSet((Holders \ {r}) \cup {h})
          /\ Cardinality((Holders \ {r}) \cup {h}) = Cardinality(Holders \ {r}) + 1
      BY ONLY <2>7, <2>8, FS_AddElement
    <3> QED BY ONLY <1>0, <2>7, <2>8, <3>1
  <2>10. SemInv'
    <3>1. permits' + Cardinality(Holders') = Permits /\ permits' = 0
      BY ONLY <1>0, <1>3, <2>1, <2>9
    <3>2. ToSet(waiters') = {q \in Runs : pc'[q] = "wait"}
      BY ONLY <1>0, <2>2, <2>7
    <3> QED BY ONLY <2>2, <2>9, <3>1, <3>2 DEF SemInv, PermitsAreKept
  <2> QED BY <1>0, <2>1, <2>2, <2>3, <2>4, <2>5, <2>10 DEF Moves
<1> QED BY <1>1, <1>2, <1>3

\* A run that is cancelled in the queue leaves it.
LEMMA GiveUpMoves ==
  ASSUME IInv, NEW r \in Runs, pc[r] = "wait",
         pc' = [pc EXCEPT ![r] = "ended"], waiters' = RemoveFirst(waiters, r),
         UNCHANGED permits
  PROVE  Moves(r) /\ pc'[r] = "ended"
<1>0. /\ pc \in [Runs -> PC] /\ permits \in 0 .. Permits
      /\ waiters \in Seq(Runs) /\ IsInjective(waiters)
      /\ ToSet(waiters) = {q \in Runs : pc[q] = "wait"}
      /\ permits + Cardinality(Holders) = Permits
      /\ waiters # << >> => permits = 0
  BY DEF IInv, TypeOK, SemInv, PermitsAreKept
<1>1. PICK k \in 1 .. Len(waiters) : waiters[k] = r
  BY <1>0 DEF ToSet
<1>2. /\ waiters' \in Seq(Runs) /\ IsInjective(waiters')
      /\ ToSet(waiters') = ToSet(waiters) \ {r}
  BY <1>0, <1>1, RemovePlaces, RemoveDistinct DEF Without
<1>3. permits = 0
  BY <1>0, <1>1
<1>4. /\ Holders' = Holders
      /\ {q \in Runs : pc[q] = "wait"} \ {r} = {q \in Runs : pc'[q] = "wait"}
  BY <1>0 DEF Holders, Holding
<1>5. SemInv'
  BY <1>0, <1>2, <1>3, <1>4 DEF SemInv, PermitsAreKept, IInv
<1> QED BY <1>0, <1>2, <1>5 DEF Moves, PC

-----------------------------------------------------------------------------
(* One step of one run *)

\* What RunContract lets a run do with what it asks for.
May(a, b) ==
  \/ a = b
  \/ a = "nothing" /\ b \in {"result", "document", "internal"}
  \/ a = "result" /\ b = "internal"
  \/ a # "over" /\ b = "over"

\* A step of r that keeps the invariant and the contract.
Keeps(r) ==
  /\ IInv'
  /\ \A q \in Runs \ {r} : AsksOf(q)' = AsksOf(q)
  /\ May(AsksOf(r), AsksOf(r)')

\* The loop variables of the other runs, and what is known of them.
Apart(r) ==
  /\ chunks' \in [Runs -> 0 .. MaxChunks]
  /\ pages' \in [Runs -> 0 .. MaxPages]
  /\ polls' \in [Runs -> 0 .. MaxPolls]
  /\ \A q \in Runs \ {r} : pages'[q] = pages[q]

\* A step that keeps the semaphore keeps the invariant, if it does so for the
\* run whose step it is.
LEMMA StepKeeps ==
  ASSUME IInv, NEW r \in Runs, Moves(r), Apart(r), UNCHANGED mode,
         temp' \subseteq Runs, \A q \in Runs \ {r} : q \in temp' <=> q \in temp,
         NEW o \in Outcome, outcome' = [outcome EXCEPT ![r] = o],
         NEW c \in {"none", "retryable", "server_error", "extracted"},
         cause' = [cause EXCEPT ![r] = c],
         RunInv(r)', May(AsksOf(r), AsksOf(r)')
  PROVE  Keeps(r)
<1>1. TypeOK' /\ mode' \in {"sync", "async"} /\ SemInv'
  BY DEF IInv, TypeOK, Moves, Apart
<1>2. ASSUME NEW q \in Runs \ {r}
      PROVE  RunInv(q)' /\ AsksOf(q)' = AsksOf(q)
  <2>1. /\ pages'[q] = pages[q] /\ outcome'[q] = outcome[q] /\ cause'[q] = cause[q]
        /\ q \in temp' <=> q \in temp
        /\ mode' = mode /\ RunInv(q)
    BY <1>2 DEF IInv, TypeOK, Apart
  <2>2. CASE pc'[q] = pc[q]
    BY <2>1, <2>2 DEF RunInv, Blameless, AsksOf
  <2>3. CASE pc[q] = "wait" /\ pc'[q] = "ocr"
    BY <2>1, <2>3 DEF RunInv, Blameless, AsksOf, Holding
  <2> QED BY <1>2, <2>2, <2>3 DEF Moves
<1> QED BY <1>1, <1>2 DEF Keeps, IInv

\* Forgetting the loops of r leaves those of the other runs alone.
LEMMA ForgetApart ==
  ASSUME IInv, NEW r \in Runs, Forget(r)
  PROVE  Apart(r)
BY PipelineAssumption DEF IInv, TypeOK, Forget, Apart

\* A run that has not decided yet decides for a failure or a result.
LEMMA DecideKeeps ==
  ASSUME IInv, NEW r \in Runs, NEW l, NEW o,
         \/ l = "finish" /\ o = "result"
         \/ l = "fail" /\ o \in {"document", "internal"},
         pc[r] \notin {"wait", "fail", "ended"}, pc[r] = "finish" => o = "internal",
         Decide(r, l, o), UNCHANGED mode,
         NEW c \in {"none", "retryable", "server_error", "extracted"},
         cause' = [cause EXCEPT ![r] = c],
         Blameless(c, o), l = "finish" => c \notin {"retryable", "server_error"}
  PROVE  Keeps(r)
<1>1. Moves(r) /\ pc'[r] = l
  BY LeaveMoves DEF Decide
<1>2. Apart(r)
  BY ForgetApart DEF Decide
<1>3. /\ outcome' = [outcome EXCEPT ![r] = o] /\ o \in Outcome /\ temp' = temp
      /\ outcome'[r] = o /\ cause'[r] = c /\ temp \subseteq Runs
  BY DEF Decide, Outcome, IInv, TypeOK
<1>4. RunInv(r)'
  BY <1>1, <1>3 DEF RunInv, Blameless, Holding
<1>5. AsksOf(r)' = o
  BY <1>1, <1>3 DEF AsksOf
<1>6. AsksOf(r) = IF pc[r] = "finish" THEN "result" ELSE "nothing"
  BY DEF AsksOf
<1>7. May(AsksOf(r), AsksOf(r)')
  BY <1>5, <1>6 DEF May
<1> QED BY <1>1, <1>2, <1>3, <1>4, <1>7, StepKeeps

\* A run ends.  Its file goes with it.
LEMMA EndKeeps ==
  ASSUME IInv, NEW r \in Runs, NEW o \in Outcome,
         pc[r] \notin {"wait", "ended"}, End(r, o), UNCHANGED mode,
         NEW c \in {"none", "retryable", "server_error", "extracted"},
         cause' = [cause EXCEPT ![r] = c], Blameless(c, o)
  PROVE  Keeps(r)
<1>1. Moves(r) /\ pc'[r] = "ended"
  BY LeaveMoves DEF End
<1>2. Apart(r)
  BY ForgetApart DEF End
<1>3. /\ outcome' = [outcome EXCEPT ![r] = o] /\ temp' = temp \ {r}
      /\ outcome'[r] = o /\ cause'[r] = c /\ temp \subseteq Runs
  BY DEF End, IInv, TypeOK
<1>4. RunInv(r)'
  BY <1>1, <1>3 DEF RunInv, Blameless, Holding
<1>5. AsksOf(r)' = "over" /\ AsksOf(r) # "over"
  BY <1>1 DEF AsksOf, IInv, RunInv
<1>6. May(AsksOf(r), AsksOf(r)')
  BY <1>5 DEF May
<1> QED BY <1>1, <1>2, <1>3, <1>4, <1>6, StepKeeps

\* An exception of a run that has not asked for a failure yet.
LEMMA ExceptKeeps ==
  ASSUME IInv, NEW r \in Runs, NEW o \in {"document", "internal", "transient"},
         pc[r] \notin {"wait", "fail", "ended"}, pc[r] = "finish" => o = "internal",
         Except(r, o), UNCHANGED mode,
         NEW c \in {"none", "retryable", "server_error", "extracted"},
         cause' = [cause EXCEPT ![r] = c], Blameless(c, o)
  PROVE  Keeps(r)
<1>1. CASE o = "transient"
  BY <1>1, EndKeeps DEF Except, Outcome
<1>2. CASE o # "transient"
  <2>1. Decide(r, "fail", o) /\ o \in {"document", "internal"}
    BY <1>2 DEF Except
  <2>2. \/ "fail" = "finish" /\ o = "result"
        \/ "fail" = "fail" /\ o \in {"document", "internal"}
    BY <2>1
  <2>3. "fail" = "finish" => c \notin {"retryable", "server_error"}
    OBVIOUS
  <2> QED BY <2>1, <2>2, <2>3, DecideKeeps
<1> QED BY <1>1, <1>2

\* While a run is on its way, nothing has ended it.
LEMMA NoCauseYet ==
  ASSUME IInv, NEW r \in Runs, pc[r] \notin {"fail", "ended"}
  PROVE  /\ cause[r] \in {"none", "extracted"}
         /\ cause = [cause EXCEPT ![r] = cause[r]]
         /\ \A o : Blameless(cause[r], o)
BY DEF IInv, TypeOK, RunInv, Blameless

\* An exception that no answer of the provider causes.
LEMMA PlainExcept ==
  ASSUME IInv, NEW r \in Runs, NEW o \in {"document", "internal", "transient"},
         pc[r] \notin {"wait", "finish", "fail", "ended"}, Except(r, o), UNCHANGED <<mode, cause>>
  PROVE  Keeps(r)
BY NoCauseYet, ExceptKeeps

\* What becomes of the lines that a run has read.
LEMMA ExtractKeeps ==
  ASSUME IInv, NEW r \in Runs, Extract(r), UNCHANGED mode,
         pc[r] \notin {"wait", "finish", "fail", "ended"}
  PROVE  Keeps(r)
<1>1. CASE /\ IF CountsFields THEN Decide(r, "finish", "result") ELSE Except(r, "internal")
           /\ cause' = [cause EXCEPT ![r] = "extracted"]
  <2>1. \A o : Blameless("extracted", o)
    BY DEF Blameless
  <2>2. CASE CountsFields
    BY <1>1, <2>1, <2>2, DecideKeeps
  <2>3. CASE ~CountsFields
    BY <1>1, <2>1, <2>3, ExceptKeeps
  <2> QED BY <2>2, <2>3
<1>2. CASE (\E o \in {"document", "internal"} : Except(r, o)) /\ UNCHANGED cause
  BY <1>2, PlainExcept
<1> QED BY <1>1, <1>2 DEF Extract

\* A step that changes neither outcome nor cause of the run, and that asks for
\* nothing new.
LEMMA WalkKeeps ==
  ASSUME IInv, NEW r \in Runs, Moves(r), Apart(r), UNCHANGED <<mode, outcome, cause>>,
         temp' \subseteq Runs, \A q \in Runs \ {r} : q \in temp' <=> q \in temp,
         RunInv(r)', May(AsksOf(r), AsksOf(r)')
  PROVE  Keeps(r)
<1>1. /\ outcome' = [outcome EXCEPT ![r] = outcome[r]] /\ outcome[r] \in Outcome
      /\ cause' = [cause EXCEPT ![r] = cause[r]]
      /\ cause[r] \in {"none", "retryable", "server_error", "extracted"}
  BY DEF IInv, TypeOK
<1> QED BY <1>1, StepKeeps

LEMMA StartKeeps ==
  ASSUME IInv, NEW r \in Runs, Start(r)
  PROVE  Keeps(r)
<1>1. CASE Goto(r, "request") /\ UNCHANGED <<loopVars, temp, outcome>>
  <2>1. Moves(r) /\ pc'[r] = "request"
    BY <1>1, GotoMoves DEF Start, PC, Holding
  <2>2. Apart(r)
    BY <1>1 DEF Apart, loopVars, IInv, TypeOK
  <2>3. RunInv(r)' /\ AsksOf(r)' = AsksOf(r)
    BY <1>1, <2>1 DEF Start, IInv, RunInv, Blameless, AsksOf, Holding
  <2> QED BY <1>1, <2>1, <2>2, <2>3, WalkKeeps DEF Start, May, IInv, TypeOK
<1>2. CASE Except(r, "document")
  BY <1>2, PlainExcept DEF Start
<1> QED BY <1>1, <1>2 DEF Start

LEMMA GetObjectKeeps ==
  ASSUME IInv, NEW r \in Runs, GetObject(r)
  PROVE  Keeps(r)
<1>1. CASE Goto(r, "read") /\ temp' = temp \cup {r} /\ UNCHANGED <<loopVars, outcome>>
  <2>1. Moves(r) /\ pc'[r] = "read"
    BY <1>1, GotoMoves DEF GetObject, PC, Holding
  <2>2. Apart(r)
    BY <1>1 DEF Apart, loopVars, IInv, TypeOK
  <2>3. RunInv(r)' /\ AsksOf(r)' = AsksOf(r)
    BY <1>1, <2>1 DEF GetObject, IInv, RunInv, Blameless, AsksOf, Holding
  <2> QED BY <1>1, <2>1, <2>2, <2>3, WalkKeeps DEF GetObject, May, IInv, TypeOK
<1>2. CASE \E o \in {"document", "internal"} : Except(r, o)
  BY <1>2, PlainExcept DEF GetObject
<1> QED BY <1>1, <1>2 DEF GetObject

\* A step that leaves every run where it is.
LEMMA StayMoves ==
  ASSUME IInv, NEW r \in Runs, UNCHANGED <<pc, semVars>>
  PROVE  Moves(r)
<1>1. pc' = pc /\ permits' = permits /\ waiters' = waiters
  BY DEF semVars
<1>2. Holders' = Holders
  BY <1>1 DEF Holders
<1> QED BY <1>1, <1>2 DEF Moves, IInv, TypeOK, SemInv, PermitsAreKept

LEMMA ReadChunkKeeps ==
  ASSUME IInv, NEW r \in Runs, ReadChunk(r)
  PROVE  Keeps(r)
<1>1. Moves(r)
  BY StayMoves DEF ReadChunk
<1>2. Apart(r)
  BY PipelineAssumption DEF ReadChunk, Apart, IInv, TypeOK
<1>3. RunInv(r)' /\ AsksOf(r)' = AsksOf(r)
  BY DEF ReadChunk, IInv, RunInv, Blameless, AsksOf
<1> QED BY <1>1, <1>2, <1>3, WalkKeeps DEF ReadChunk, May, IInv, TypeOK

LEMMA ReadFailsKeeps ==
  ASSUME IInv, NEW r \in Runs, ReadFails(r)
  PROVE  Keeps(r)
<1>1. PICK o \in {"document", "internal"} : outcome' = [outcome EXCEPT ![r] = o]
  BY DEF ReadFails
<1>2. Moves(r) /\ pc'[r] = "discard"
  BY GotoMoves DEF ReadFails, PC, Holding
<1>3. Apart(r)
  BY ForgetApart DEF ReadFails
<1>4. outcome'[r] = o /\ o \in Outcome /\ cause' = [cause EXCEPT ![r] = cause[r]]
  BY <1>1, NoCauseYet DEF ReadFails, Outcome, IInv, TypeOK
<1>5. RunInv(r)'
  BY <1>2, <1>4, NoCauseYet DEF ReadFails, RunInv, Blameless, Holding
<1>6. AsksOf(r)' = AsksOf(r)
  BY <1>2 DEF ReadFails, AsksOf
<1> QED BY <1>1, <1>2, <1>3, <1>4, <1>5, <1>6, NoCauseYet, StepKeeps DEF ReadFails, May, IInv, TypeOK

\* The file is gone: the failure is asked for.
LEMMA DiscardKeeps ==
  ASSUME IInv, NEW r \in Runs, Discard(r)
  PROVE  Keeps(r)
<1>1. Moves(r) /\ pc'[r] = "fail"
  BY GotoMoves DEF Discard, PC, Holding
<1>2. Apart(r)
  BY DEF Discard, Apart, loopVars, IInv, TypeOK
<1>3. RunInv(r)'
  BY <1>1 DEF Discard, IInv, RunInv, Blameless, Holding
<1>4. AsksOf(r) = "nothing" /\ AsksOf(r)' \in {"document", "internal"}
  BY <1>1 DEF Discard, IInv, RunInv, AsksOf
<1> QED BY <1>1, <1>2, <1>3, <1>4, WalkKeeps DEF Discard, May, IInv, TypeOK

LEMMA DownloadedKeeps ==
  ASSUME IInv, NEW r \in Runs, Downloaded(r)
  PROVE  Keeps(r)
<1>1. CASE (\E o \in {"document", "internal"} : Except(r, o)) /\ UNCHANGED cause
  BY <1>1, PlainExcept DEF Downloaded
<1>2. CASE Extract(r)
  BY <1>2, ExtractKeeps DEF Downloaded
<1>3. ASSUME NEW n \in 0 .. MaxPages, Acquire(r),
             chunks' = [chunks EXCEPT ![r] = 0], pages' = [pages EXCEPT ![r] = n],
             UNCHANGED <<polls, temp, outcome, cause>>
      PROVE  Keeps(r)
  <2>1. Moves(r) /\ pc'[r] \in {"ocr", "wait"}
    BY <1>3, AcquireMoves DEF Downloaded
  <2>2. Apart(r)
    BY <1>3, PipelineAssumption DEF Apart, IInv, TypeOK
  <2>3. RunInv(r)' /\ AsksOf(r)' = AsksOf(r)
    BY <1>3, <2>1 DEF Downloaded, IInv, RunInv, Blameless, AsksOf, Holding
  <2> QED BY <1>3, <2>1, <2>2, <2>3, WalkKeeps DEF Downloaded, May, IInv, TypeOK
<1> QED BY <1>1, <1>2, <1>3 DEF Downloaded

\* A run that goes on inside the semaphore, to a call of its own surface.
LEMMA CallKeeps ==
  ASSUME IInv, NEW r \in Runs, pc[r] \in Holding,
         NEW l \in Holding \ {"ocr"}, l = "sync" <=> mode = "sync",
         Goto(r, l), Apart(r), pages'[r] > 0, UNCHANGED <<mode, temp, outcome, cause>>
  PROVE  Keeps(r)
<1>1. Moves(r) /\ pc'[r] = l
  BY GotoMoves DEF PC, Holding
<1>2. RunInv(r)'
  BY <1>1 DEF IInv, RunInv, Blameless, Holding
<1>3. AsksOf(r)' = AsksOf(r)
  BY <1>1 DEF AsksOf, Holding
<1> QED BY <1>1, <1>2, <1>3, WalkKeeps DEF May, IInv, TypeOK

LEMMA EnterOcrKeeps ==
  ASSUME IInv, NEW r \in Runs, EnterOcr(r)
  PROVE  Keeps(r)
<1>1. CASE Extract(r)
  BY <1>1, ExtractKeeps DEF EnterOcr
<1>2. CASE pages[r] > 0 /\ Goto(r, FirstCall) /\ UNCHANGED <<loopVars, temp, outcome, cause>>
  <2>1. FirstCall \in Holding \ {"ocr"} /\ (FirstCall = "sync" <=> mode = "sync")
    BY DEF FirstCall, Holding
  <2>2. Apart(r)
    BY <1>2 DEF Apart, loopVars, IInv, TypeOK
  <2> QED BY <1>2, <2>1, <2>2, CallKeeps DEF EnterOcr, Holding, loopVars
<1>3. CASE Except(r, "internal") /\ UNCHANGED cause
  BY <1>3, PlainExcept DEF EnterOcr
<1> QED BY <1>1, <1>2, <1>3 DEF EnterOcr

LEMMA PageReadKeeps ==
  ASSUME IInv, NEW r \in Runs, PageRead(r), pc[r] \in {"sync", "fetch"}, UNCHANGED mode
  PROVE  Keeps(r)
<1>1. CASE pages[r] = 1
  BY <1>1, ExtractKeeps DEF PageRead
<1>2. CASE pages[r] # 1
  <2>1. /\ Goto(r, FirstCall) /\ pages' = [pages EXCEPT ![r] = @ - 1]
        /\ polls' = [polls EXCEPT ![r] = 0] /\ UNCHANGED <<chunks, temp, outcome, cause>>
    BY <1>2 DEF PageRead
  <2>2. FirstCall \in Holding \ {"ocr"} /\ (FirstCall = "sync" <=> mode = "sync")
    BY DEF FirstCall, Holding
  <2>3. pages[r] \in 0 .. MaxPages /\ pages[r] > 0
    BY DEF IInv, TypeOK, RunInv, Holding
  <2>4. Apart(r) /\ pages'[r] > 0
    BY <1>2, <2>1, <2>3, PipelineAssumption DEF Apart, IInv, TypeOK
  <2> QED BY <2>1, <2>2, <2>4, CallKeeps DEF Holding
<1> QED BY <1>1, <1>2

\* Which answers raise: an overload, a timeout or a broken connection never for
\* the document to fail; a 5xx for that on the synchronous surface only.
LEMMA VerdictOf ==
  ASSUME NEW stage \in {"sync", "submit", "poll", "fetch"}, NEW a \in Answer,
         Verdict(stage, a) \notin {"go on", "again"}
  PROVE  /\ Verdict(stage, a) \in {"transient", "document", "internal"}
         /\ Cause(a) \in {"none", "retryable", "server_error"}
         /\ Cause(a) = "retryable" => Verdict(stage, a) = "transient"
         /\ Cause(a) = "server_error" => Verdict(stage, a) = "transient" \/ stage = "sync"
<1>1. /\ Verdict(stage, a) \in {"transient", "document", "internal"}
      /\ Cause(a) \in {"none", "retryable", "server_error"}
  BY DEF Verdict, Cause
<1>2. CASE stage = "sync"
  <2>1. /\ Transient["sync"] = {"overload", "network"}
        /\ Permanent["sync"] = {"server_error", "rejected", "unlisted"} /\ Broken["sync"] = {"garbled"}
        /\ Undecided["sync"] = {}
    BY DEF Transient, Permanent, Broken, Undecided
  <2> QED BY <1>1, <1>2, <2>1 DEF Verdict, Cause
<1>3. CASE stage = "submit"
  <2>1. /\ Transient["submit"] = {"overload", "server_error", "unlisted", "garbled", "network"}
        /\ Permanent["submit"] = {"rejected"} /\ Broken["submit"] = {"incomplete"}
        /\ Undecided["submit"] = {}
    BY DEF Transient, Permanent, Broken, Undecided
  <2> QED BY <1>1, <1>3, <2>1 DEF Verdict, Cause
<1>4. CASE stage = "poll"
  <2>1. /\ Transient["poll"] = {"garbled", "network"}
        /\ Permanent["poll"] = {"rejected"} /\ Broken["poll"] = {"incomplete"}
        /\ Undecided["poll"] = {"pending", "overload", "server_error", "unlisted"}
    BY DEF Transient, Permanent, Broken, Undecided
  <2> QED BY <1>1, <1>4, <2>1 DEF Verdict, Cause
<1>5. CASE stage = "fetch"
  <2>1. /\ Transient["fetch"] = {"overload", "server_error", "rejected", "unlisted", "network"}
        /\ Permanent["fetch"] = {} /\ Broken["fetch"] = {"garbled"}
        /\ Undecided["fetch"] = {}
    BY DEF Transient, Permanent, Broken, Undecided
  <2> QED BY <1>1, <1>5, <2>1 DEF Verdict, Cause
<1> QED BY <1>2, <1>3, <1>4, <1>5

LEMMA AnsweredKeeps ==
  ASSUME IInv, NEW r \in Runs, NEW a \in Answer, Answered(r, a)
  PROVE  Keeps(r)
<1> DEFINE v == Verdict(pc[r], a)
<1>0. /\ pc[r] \in {"sync", "submit", "poll", "fetch"} /\ pc[r] \in Holding
      /\ pages[r] > 0 /\ (pc[r] = "sync" <=> mode = "sync")
      /\ UNCHANGED mode
  BY DEF Answered, IInv, RunInv, Holding
<1>1. CASE pc[r] \in {"sync", "fetch"} /\ PageRead(r)
  BY <1>0, <1>1, PageReadKeeps
<1>2. CASE /\ pc[r] \in {"submit", "poll"}
           /\ Goto(r, IF pc[r] = "submit" THEN "poll" ELSE "fetch")
           /\ UNCHANGED <<loopVars, temp, outcome, cause>>
  <2> DEFINE l == IF pc[r] = "submit" THEN "poll" ELSE "fetch"
  <2>1. l \in Holding \ {"ocr"} /\ (l = "sync" <=> mode = "sync")
    BY <1>0, <1>2 DEF Holding
  <2>2. Apart(r) /\ pages'[r] > 0
    BY <1>0, <1>2 DEF Apart, loopVars, IInv, TypeOK
  <2> HIDE DEF l
  <2>3. Goto(r, l)
    BY <1>2 DEF l
  <2> QED BY <1>0, <1>2, <2>1, <2>2, <2>3, CallKeeps
<1>3. CASE /\ polls[r] < MaxPolls
           /\ polls' = [polls EXCEPT ![r] = @ + 1]
           /\ UNCHANGED <<pc, semVars, chunks, pages, temp, outcome, cause>>
  <2>1. Moves(r)
    BY <1>3, StayMoves
  <2>2. Apart(r)
    BY <1>3, PipelineAssumption DEF Apart, IInv, TypeOK
  <2>3. RunInv(r)' /\ AsksOf(r)' = AsksOf(r)
    BY <1>0, <1>3 DEF IInv, RunInv, Blameless, AsksOf
  <2> QED BY <1>0, <1>3, <2>1, <2>2, <2>3, WalkKeeps DEF May, IInv, TypeOK
<1>4. CASE v \notin {"go on", "again"} /\ Except(r, v) /\ cause' = [cause EXCEPT ![r] = Cause(a)]
  <2>1. /\ v \in {"transient", "document", "internal"}
        /\ Cause(a) \in {"none", "retryable", "server_error"}
        /\ Cause(a) = "retryable" => v = "transient"
        /\ Cause(a) = "server_error" => v = "transient" \/ pc[r] = "sync"
    BY <1>0, <1>4, VerdictOf
  <2> HIDE DEF v
  <2>2. Blameless(Cause(a), v)
    BY <1>0, <2>1 DEF Blameless
  <2> QED BY <1>0, <1>4, <2>1, <2>2, ExceptKeeps
<1> QED BY <1>1, <1>2, <1>3, <1>4 DEF Answered

LEMMA FinishKeeps ==
  ASSUME IInv, NEW r \in Runs, Finish(r)
  PROVE  Keeps(r)
<1>1. CASE End(r, "result") /\ UNCHANGED cause
  BY <1>1, NoCauseYet, EndKeeps DEF Finish, Outcome
<1>2. CASE Except(r, "internal") /\ cause' = [cause EXCEPT ![r] = "none"]
  BY <1>2, ExceptKeeps DEF Finish, Blameless
<1> QED BY <1>1, <1>2 DEF Finish

LEMMA FailKeeps ==
  ASSUME IInv, NEW r \in Runs, Fail(r)
  PROVE  Keeps(r)
<1>1. /\ cause' = [cause EXCEPT ![r] = cause[r]] /\ Blameless(cause[r], outcome[r])
      /\ cause[r] \in {"none", "retryable", "server_error", "extracted"}
      /\ outcome[r] \in Outcome
  BY DEF Fail, IInv, TypeOK, RunInv
<1> QED BY <1>1, EndKeeps DEF Fail

\* A cancelled run gives up its place or its permit, and unless the body was
\* being streamed or the file unlinked, its file.
LEMMA CancelKeeps ==
  ASSUME IInv, NEW r \in Runs, Cancel(r)
  PROVE  Keeps(r)
<1> DEFINE o == IF pc[r] \in {"read", "discard"} THEN "interrupted" ELSE "cancelled"
<1>1. Moves(r) /\ pc'[r] = "ended"
  <2>1. CASE pc[r] = "wait"
    BY <2>1, GiveUpMoves DEF Cancel
  <2>2. CASE pc[r] # "wait"
    BY <2>2, LeaveMoves DEF Cancel
  <2> QED BY <2>1, <2>2
<1>2. Apart(r)
  BY ForgetApart DEF Cancel
<1>3. /\ outcome' = [outcome EXCEPT ![r] = o] /\ outcome'[r] = o /\ o \in Outcome
      /\ cause' = [cause EXCEPT ![r] = cause[r]] /\ cause'[r] = cause[r]
      /\ cause[r] \in {"none", "retryable", "server_error", "extracted"}
      /\ mode' = mode
  BY DEF Cancel, Outcome, IInv, TypeOK
<1>4. /\ temp' \subseteq Runs /\ \A q \in Runs \ {r} : q \in temp' <=> q \in temp
      /\ r \in temp' => o = "interrupted"
  BY DEF Cancel, IInv, TypeOK
<1>5. RunInv(r)'
  BY <1>1, <1>3, <1>4 DEF RunInv, Blameless, Holding
<1>6. AsksOf(r)' = "over" /\ AsksOf(r) # "over"
  BY <1>1 DEF Cancel, AsksOf, IInv, RunInv
<1> QED BY <1>1, <1>2, <1>3, <1>4, <1>5, <1>6, StepKeeps DEF May

\* Every step is one of one run, and keeps the invariant and the contract.
LEMMA NextKeeps ==
  ASSUME IInv, Next
  PROVE  \E r \in Runs : Keeps(r)
<1> PICK r \in Runs : Start(r) \/ Step(r) \/ Cancel(r)
  BY DEF Next
<1>1. CASE PollTimeout(r)
  BY <1>1, PlainExcept DEF PollTimeout
<1> QED
  BY <1>1, StartKeeps, GetObjectKeeps, ReadChunkKeeps, ReadFailsKeeps, DiscardKeeps,
     DownloadedKeeps, EnterOcrKeeps, AnsweredKeeps, FinishKeeps, FailKeeps, CancelKeeps DEF Step

-----------------------------------------------------------------------------
(* The theorems *)

\* At the start nothing runs, and every permit is free.
LEMMA Initially ==
  Init => IInv
<1> SUFFICES ASSUME Init
             PROVE  IInv
  OBVIOUS
<1> USE DEF Init
<1>1. TypeOK /\ mode \in {"sync", "async"}
  BY PipelineAssumption DEF TypeOK, PC, Outcome
<1>2. Holders = {} /\ ToSet(waiters) = {} /\ IsInjective(waiters)
  BY DEF Holders, Holding, ToSet, IsInjective
<1>3. IsFiniteSet(Holders) /\ Cardinality(Holders) = 0
  BY <1>2, FS_EmptySet
<1>4. SemInv
  BY <1>2, <1>3, PipelineAssumption DEF SemInv, PermitsAreKept
<1>5. \A r \in Runs : RunInv(r)
  BY DEF RunInv, Blameless, Holding
<1> QED BY <1>1, <1>4, <1>5 DEF IInv

\* The inductive invariant of the runs and their semaphore.
THEOREM Invariance ==
  Spec => []IInv
<1>1. IInv /\ [Next]_vars => IInv'
  <2> SUFFICES ASSUME IInv, [Next]_vars
               PROVE  IInv'
    OBVIOUS
  <2>1. CASE Next
    BY <2>1, NextKeeps DEF Keeps
  <2>2. CASE UNCHANGED vars
    BY <2>2 DEF vars, loopVars, semVars, IInv, TypeOK, SemInv, PermitsAreKept, Holders,
                RunInv, Blameless
  <2> QED BY <2>1, <2>2
<1> QED BY Initially, <1>1, PTL DEF Spec

\* Awaits, counters, queue and outcomes keep their types, whatever the bounds.
THEOREM TypeCorrect ==
  Spec => []TypeOK
<1>1. IInv => TypeOK
  BY DEF IInv
<1> QED BY Invariance, <1>1, PTL

\* async with semaphore, on every path out of the OCR stage: no permit is lost
\* or made up, and nobody queues while one is free.
THEOREM NoPermitIsLost ==
  Spec => []PermitsAreKept
<1>1. IInv => PermitsAreKept
  BY DEF IInv, SemInv
<1> QED BY Invariance, <1>1, PTL

\* finally: cleanup_temp, on every path that reaches it.
THEOREM FilesAreRemoved ==
  Spec => []OnlyInterruptedLeaveFiles
<1>1. IInv => OnlyInterruptedLeaveFiles
  BY DEF IInv, TypeOK, RunInv, OnlyInterruptedLeaveFiles
<1> QED BY Invariance, <1>1, PTL

\* The except clauses with the four calls of the provider: an unavailable
\* provider commits nothing.
THEOREM UnavailableIsRetried ==
  Spec => []RetryableIsNotCommitted
<1>1. IInv => RetryableIsNotCommitted
  BY DEF IInv, RunInv, RetryableIsNotCommitted
<1> QED BY Invariance, <1>1, PTL

\* Runs of process_document, as Pipeline has them, implement RunContract.
THEOREM RunsImplementContract ==
  Spec => RunsKeepContract
<1> DEFINE Asks == [r \in Runs |-> AsksOf(r)]
<1>1. Init => RunsContract!Init
  BY DEF Init, RunsContract!Init, AsksOf
<1>2. IInv /\ [Next]_vars => [RunsContract!Next]_Asks
  <2> SUFFICES ASSUME IInv, [Next]_vars
               PROVE  RunsContract!Next \/ Asks' = Asks
    OBVIOUS
  <2>1. CASE Next
    <3> PICK r \in Runs : Keeps(r)
      BY <2>1, NextKeeps
    <3>1. Asks' = [Asks EXCEPT ![r] = AsksOf(r)']
      BY DEF Keeps
    <3>2. Asks[r] = AsksOf(r)
      OBVIOUS
    <3>3. May(Asks[r], AsksOf(r)')
      BY <3>2 DEF Keeps
    <3>4. CASE AsksOf(r)' = Asks[r]
      BY <3>1, <3>4
    <3>5. CASE AsksOf(r)' # Asks[r]
      BY <3>1, <3>3, <3>5 DEF May, RunsContract!Next, RunsContract!Decide,
                RunsContract!TakeBack, RunsContract!End
    <3> QED BY <3>4, <3>5
  <2>2. CASE UNCHANGED vars
    BY <2>2 DEF vars, AsksOf
  <2> QED BY <2>1, <2>2
<1> QED BY Invariance, <1>1, <1>2, PTL DEF Spec, RunsKeepContract, RunsContract!Spec

=============================================================================
