----------------------- MODULE ResultRetentionProofs -----------------------
(***************************************************************************)
(* Safety of ResultRetention for any number of documents and any batch     *)
(* size: the sweep reaches into the retention window only where a document *)
(* completes again under it.                                               *)
(***************************************************************************)
EXTENDS ResultRetention, SequenceLemmas

\* finish_document moves a document to the end of the history and, by its new
\* processed_at, into the window.
LEMMA HistoryAfterFinish ==
  ASSUME TypeOK, NEW d \in Doc, Finish(d)
  PROVE  /\ history' \in Seq(Doc) /\ IsInjective(history')
         /\ ToSet(history') = ToSet(history) \cup {d}
         /\ expired' \in 0 .. Len(history')
         /\ Expired' = Expired \ {d}
<1> DEFINE t == RemoveFirst(history, d)
<1>0. /\ history \in Seq(Doc) /\ IsInjective(history) /\ expired \in 0 .. Len(history)
      /\ history' = Append(t, d) /\ expired' = IF d \in Expired THEN expired - 1 ELSE expired
  BY DEF TypeOK, Finish
<1>t. t = RemoveFirst(history, d)
  OBVIOUS
<1> HIDE DEF t
<1>1. /\ t \in Seq(Doc) /\ IsInjective(t) /\ ToSet(t) = ToSet(history) \ {d}
      /\ expired' \in 0 .. Len(t) /\ {t[i] : i \in 1 .. expired'} = Expired \ {d}
  <2>1. CASE d \in ToSet(history)
    <3>1. PICK k \in 1 .. Len(history) : history[k] = d
      BY <1>0, <2>1 DEF ToSet
    <3>2. t = RemoveFirst(history, history[k])
      BY <1>t, <3>1
    <3>3. /\ t \in Seq(Doc) /\ Len(t) = Len(history) - 1
          /\ \A i \in 1 .. Len(history) - 1 : i < k => t[i] = history[i]
          /\ \A i \in 1 .. Len(history) - 1 : i >= k => t[i] = history[i + 1]
      <4>1. Without(t, history, k, Doc)
        BY ONLY <1>0, <3>2, k \in 1 .. Len(history), RemovePlaces
      <4> QED BY ONLY <4>1, Zenon DEF Without
    <3>4. IsInjective(t) /\ ToSet(t) = ToSet(history) \ {d}
      BY <1>0, <3>1, <3>2, RemoveDistinct
    <3>5. \A i, j \in 1 .. Len(history) : history[i] = history[j] => i = j
      BY <1>0 DEF IsInjective
    <3>6. (d \in Expired) <=> k <= expired
      BY <1>0, <3>1, <3>5 DEF Expired
    <3>7. expired' \in 0 .. Len(t) /\ expired' = IF k <= expired THEN expired - 1 ELSE expired
      BY <1>0, <3>1, <3>3, <3>6
    <3>8. \A i \in 1 .. expired' : t[i] \in Expired \ {d}
      <4>1. SUFFICES ASSUME NEW i \in 1 .. expired'
                     PROVE  t[i] \in Expired \ {d}
        OBVIOUS
      <4>2. CASE i < k
        <5>1. i \in 1 .. Len(history) - 1 /\ i \in 1 .. expired /\ i \in 1 .. Len(history)
          BY <1>0, <3>3, <3>7, <4>2
        <5> QED BY <3>1, <3>3, <3>5, <4>2, <5>1 DEF Expired
      <4>3. CASE i >= k
        <5>1. i \in 1 .. Len(history) - 1 /\ i + 1 \in 1 .. expired /\ i + 1 \in 1 .. Len(history) /\ i + 1 # k
          BY <1>0, <3>3, <3>7, <4>3
        <5> QED BY <3>1, <3>3, <3>5, <4>3, <5>1 DEF Expired
      <4> QED BY <1>0, <3>7, <4>2, <4>3
    <3>9. ASSUME NEW e \in Expired \ {d}
          PROVE  \E i \in 1 .. expired' : t[i] = e
      <4>1. PICK j \in 1 .. expired : history[j] = e
        BY DEF Expired
      <4>2. CASE j < k
        <5>1. j \in 1 .. expired' /\ j \in 1 .. Len(history) - 1
          BY <1>0, <3>7, <4>2
        <5> QED BY <3>3, <4>1, <4>2, <5>1
      <4>3. CASE j >= k
        <5>1. j # k
          BY <3>1, <4>1
        <5>2. j - 1 \in 1 .. expired' /\ j - 1 \in 1 .. Len(history) - 1 /\ j - 1 >= k /\ (j - 1) + 1 = j
          BY <1>0, <3>7, <4>3, <5>1
        <5> QED BY <3>3, <4>1, <5>2
      <4> QED BY <1>0, <4>2, <4>3
    <3> QED BY <3>3, <3>4, <3>7, <3>8, <3>9
  <2>2. CASE d \notin ToSet(history)
    <3>1. t = history
      BY <1>0, <1>t, <2>2 DEF RemoveFirst, ToSet
    <3>2. d \notin Expired
      BY <1>0, <2>2 DEF Expired, ToSet
    <3> QED BY <1>0, <2>2, <3>1, <3>2 DEF Expired
  <2> QED BY <2>1, <2>2
<1>2. d \notin ToSet(t)
  BY <1>1
<1>3. /\ history' \in Seq(Doc) /\ IsInjective(history')
      /\ ToSet(history') = ToSet(t) \cup {d}
  BY <1>0, <1>1, <1>2, AppendDistinct
<1>4. Len(history') = Len(t) + 1 /\ \A i \in 1 .. Len(t) : history'[i] = t[i]
  BY <1>0, <1>1
<1>5. Expired' = {t[i] : i \in 1 .. expired'}
  BY <1>1, <1>4 DEF Expired
<1> QED BY <1>0, <1>1, <1>3, <1>4, <1>5

\* What has expired, as sets of documents.
LEMMA ExpiredIsPast ==
  ASSUME TypeOK
  PROVE  /\ Expired \subseteq ToSet(history)
         /\ list_expired_documents \subseteq Expired
BY DEF TypeOK, Expired, list_expired_documents, ToSet

LEMMA Initially ==
  Init => IInv
<1> SUFFICES ASSUME Init
             PROVE  IInv
  OBVIOUS
<1>1. ToSet(history) = {} /\ IsInjective(history) /\ Expired = {} /\ Len(history) = 0
  BY DEF Init, ToSet, IsInjective, Expired
<1> QED BY <1>1 DEF Init, IInv, TypeOK, WindowIsKept

\* Finishing, ageing and sweeping, in any order.
LEMMA StepKeeps ==
  ASSUME IInv, Next
  PROVE  IInv'
<1> USE DEF WindowIsKept
<1>0. TypeOK /\ IInv
  BY DEF IInv
<1>1. ASSUME NEW d \in Doc, Finish(d) PROVE IInv'
  <2>1. /\ history' \in Seq(Doc) /\ IsInjective(history')
        /\ ToSet(history') = ToSet(history) \cup {d}
        /\ expired' \in 0 .. Len(history')
        /\ Expired' = Expired \ {d}
    BY <1>0, <1>1, HistoryAfterFinish
  <2>2. /\ stored' = stored \cup {d} /\ listed' = listed
        /\ overtaken' = IF d \in listed THEN overtaken \cup {d} ELSE overtaken \ {d}
    BY <1>1 DEF Finish
  <2>3. TypeOK'
    BY <1>0, <2>1, <2>2 DEF TypeOK
  <2> QED BY <1>0, <2>1, <2>2, <2>3 DEF IInv
<1>2. ASSUME Age PROVE IInv'
  <2>1. Expired \subseteq Expired'
    BY <1>0, <1>2 DEF Age, Expired, TypeOK
  <2>2. TypeOK'
    BY <1>0, <1>2 DEF TypeOK, Age
  <2> QED BY <1>0, <1>2, <2>1, <2>2 DEF IInv, Age
<1>3. ASSUME List \/ Purge \/ SweepFails PROVE IInv'
  <2>1. Expired' = Expired /\ history' = history /\ expired' = expired
    BY <1>3 DEF List, Purge, SweepFails, Expired
  <2>2. TypeOK'
    BY <1>0, <1>3, <2>1, ExpiredIsPast DEF TypeOK, List, Purge, SweepFails
  <2>3. CASE List
    BY <1>0, <2>1, <2>2, <2>3, ExpiredIsPast DEF IInv, List
  <2>4. CASE Purge
    BY <1>0, <2>1, <2>2, <2>4 DEF IInv, Purge
  <2>5. CASE SweepFails
    BY <1>0, <2>1, <2>2, <2>5 DEF IInv, SweepFails
  <2> QED BY <1>3, <2>3, <2>4, <2>5
<1> QED BY <1>1, <1>2, <1>3 DEF Next

\* What a sweep has listed is expired or was completed again since, however
\* many documents are finished before it purges.
THEOREM Invariance ==
  Spec => []IInv
<1>1. IInv /\ [Next]_vars => IInv'
  <2>1. IInv /\ UNCHANGED vars => IInv'
    BY DEF IInv, TypeOK, WindowIsKept, Expired, vars
  <2> QED BY <2>1, StepKeeps
<1> QED BY Initially, <1>1, PTL DEF Spec

\* One row per document, however often it is finished.
THEOREM TypeCorrect ==
  Spec => []TypeOK
BY Invariance, PTL DEF IInv

\* cleanup_expired_results purges no result inside the retention window, but for
\* a document completed again between its two statements.
THEOREM ResultsInsideStay ==
  Spec => []WindowIsKept
BY Invariance, PTL DEF IInv

=============================================================================
