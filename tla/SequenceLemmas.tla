-------------------------- MODULE SequenceLemmas --------------------------
(***************************************************************************)
(* What Append, Tail and RemoveFirst do to a sequence without repetitions, *)
(* for the queues of Pipeline and the history of ResultRetention; and what *)
(* FlattenSeq and functions defined by recursion give, for MoneyParser and *)
(* FieldExtraction.  Induction is stated for sets of numbers.              *)
(***************************************************************************)
EXTENDS Integers, Sequences, SequencesExt, NaturalsInduction, WellFoundedInduction, TLAPS

\* Two sequences, one after the other.
LEMMA Concatenation ==
  ASSUME NEW S, NEW l \in Seq(S), NEW r \in Seq(S)
  PROVE  l \o r \in Seq(S) /\ Len(l \o r) = Len(l) + Len(r)
OBVIOUS

\* A sequence and one more element.
LEMMA OneMore ==
  ASSUME NEW S, NEW s \in Seq(S), NEW e \in S
  PROVE  Append(s, e) \in Seq(S)
OBVIOUS

\* The elements of a sequence.
LEMMA ElementOf ==
  ASSUME NEW S, NEW s \in Seq(S), NEW i \in 1 .. Len(s)
  PROVE  s[i] \in S
OBVIOUS

\* Where the elements of two sequences are, one after the other.
LEMMA ConcatPlaces ==
  ASSUME NEW S, NEW l \in Seq(S), NEW r \in Seq(S)
  PROVE  /\ DOMAIN (l \o r) = 1 .. Len(l) + Len(r)
         /\ \A i \in 1 .. Len(l) : (l \o r)[i] = l[i]
         /\ \A i \in 1 .. Len(r) : (l \o r)[Len(l) + i] = r[i]
OBVIOUS

\* A new element at the end of a sequence without repetitions.
LEMMA AppendDistinct ==
  ASSUME NEW S, NEW s \in Seq(S), IsInjective(s), NEW e \in S, e \notin ToSet(s)
  PROVE  /\ Append(s, e) \in Seq(S)
         /\ IsInjective(Append(s, e))
         /\ ToSet(Append(s, e)) = ToSet(s) \cup {e}
BY DEF IsInjective, ToSet

\* The oldest element leaves a sequence without repetitions.
LEMMA TailDistinct ==
  ASSUME NEW S, NEW s \in Seq(S), IsInjective(s), s # << >>
  PROVE  /\ Head(s) \in ToSet(s) /\ Head(s) \in S
         /\ Tail(s) \in Seq(S)
         /\ IsInjective(Tail(s))
         /\ ToSet(Tail(s)) = ToSet(s) \ {Head(s)}
<1>1. /\ DOMAIN s = 1 .. Len(s) /\ Len(s) \in Nat \ {0} /\ Head(s) = s[1]
      /\ \A i \in 1 .. Len(s) : s[i] \in S
  OBVIOUS
<1>2. /\ Tail(s) \in Seq(S)
      /\ DOMAIN Tail(s) = 1 .. Len(s) - 1
      /\ \A i \in 1 .. Len(s) - 1 : Tail(s)[i] = s[i + 1]
  OBVIOUS
<1>3. IsInjective(Tail(s))
  BY <1>1, <1>2 DEF IsInjective
<1>4. ASSUME NEW x PROVE x \in ToSet(Tail(s)) <=> x \in ToSet(s) \ {Head(s)}
  <2>1. ASSUME NEW i \in 1 .. Len(s) - 1, x = Tail(s)[i]
        PROVE  x \in ToSet(s) \ {Head(s)}
    BY <1>1, <1>2, <2>1 DEF IsInjective, ToSet
  <2>2. ASSUME NEW i \in 1 .. Len(s), x = s[i], x # s[1]
        PROVE  x \in ToSet(Tail(s))
    <3>1. i - 1 \in 1 .. Len(s) - 1 /\ (i - 1) + 1 = i
      BY <1>1, <2>2
    <3> QED BY <1>2, <2>2, <3>1 DEF ToSet
  <2> QED BY <1>1, <1>2, <2>1, <2>2 DEF ToSet
<1>5. Head(s) \in ToSet(s) /\ Head(s) \in S
  BY <1>1 DEF ToSet
<1>6. ToSet(Tail(s)) = ToSet(s) \ {Head(s)}
  BY <1>4
<1> QED BY <1>2, <1>3, <1>5, <1>6

\* The first place where an element stands, when it stands in one place.
LEMMA FirstPlace ==
  ASSUME NEW S, NEW s \in Seq(S), IsInjective(s), NEW k \in 1 .. Len(s)
  PROVE  RemoveFirst(s, s[k]) = RemoveAt(s, k)
<1>1. {i \in 1 .. Len(s) : s[i] = s[k]} = {k}
  BY DEF IsInjective
<1>2. Min({k}) = k
  BY DEF Min
<1>3. SelectInSeq(s, LAMBDA v : v = s[k]) = k
  BY <1>1, <1>2 DEF SelectInSeq
<1> QED BY <1>3 DEF RemoveFirst

\* t is s without its element at k: those after it have moved up by one place.
Without(t, s, k, S) ==
  /\ t \in Seq(S) /\ Len(t) = Len(s) - 1
  /\ \A i \in 1 .. Len(s) - 1 : i < k => t[i] = s[i]
  /\ \A i \in 1 .. Len(s) - 1 : i >= k => t[i] = s[i + 1]

\* An element leaves a sequence without repetitions.
LEMMA RemovePlaces ==
  ASSUME NEW S, NEW s \in Seq(S), IsInjective(s), NEW k \in 1 .. Len(s),
         NEW t, t = RemoveFirst(s, s[k])
  PROVE  Without(t, s, k, S)
<1> DEFINE l == SubSeq(s, 1, k - 1)
           r == SubSeq(s, k + 1, Len(s))
<1>1. t = l \o r
  BY FirstPlace DEF RemoveAt
<1>2. /\ l \in Seq(S) /\ Len(l) = k - 1
      /\ \A i \in 1 .. k - 1 : l[i] = s[i]
  OBVIOUS
<1>3. /\ r \in Seq(S) /\ Len(r) = Len(s) - k
      /\ \A i \in 1 .. Len(s) - k : r[i] = s[k + i]
  OBVIOUS
<1> HIDE DEF l, r
<1>4. t \in Seq(S) /\ Len(t) = Len(s) - 1
  <2>1. t \in Seq(S) /\ Len(t) = Len(l) + Len(r)
    BY <1>1, <1>2, <1>3, Concatenation
  <2> QED BY <1>2, <1>3, <2>1
<1>5. ASSUME NEW i \in 1 .. Len(s) - 1, i < k
      PROVE  t[i] = s[i]
  BY <1>1, <1>2, <1>3, <1>5
<1>6. ASSUME NEW i \in 1 .. Len(s) - 1, i >= k
      PROVE  t[i] = s[i + 1]
  <2>1. i - Len(l) \in 1 .. Len(r) /\ k + (i - Len(l)) = i + 1
    BY <1>2, <1>3, <1>6
  <2>2. t[i] = r[i - Len(l)]
    BY <1>1, <1>2, <1>3, <1>6, <2>1
  <2> QED BY <1>2, <1>3, <1>6, <2>1, <2>2
<1> QED BY ONLY <1>4, <1>5, <1>6, Zenon DEF Without

\* It leaves no repetition behind, and takes nothing else with it.
LEMMA RemoveDistinct ==
  ASSUME NEW S, NEW s \in Seq(S), IsInjective(s), NEW k \in 1 .. Len(s),
         NEW t, t = RemoveFirst(s, s[k])
  PROVE  IsInjective(t) /\ ToSet(t) = ToSet(s) \ {s[k]}
<1>0. /\ t \in Seq(S) /\ Len(t) = Len(s) - 1
      /\ \A i \in 1 .. Len(s) - 1 : i < k => t[i] = s[i]
      /\ \A i \in 1 .. Len(s) - 1 : i >= k => t[i] = s[i + 1]
  <2>1. Without(t, s, k, S)
    BY RemovePlaces
  <2> QED BY ONLY <2>1, Zenon DEF Without
<1>1. t \in Seq(S) /\ Len(t) = Len(s) - 1
  BY <1>0, Zenon
<1>2. ASSUME NEW i \in 1 .. Len(s) - 1
      PROVE  t[i] = IF i < k THEN s[i] ELSE s[i + 1]
  <2>1. CASE i < k
    BY ONLY <1>0, <1>2, <2>1, Zenon
  <2>2. CASE ~(i < k)
    <3>1. i >= k
      BY <2>2
    <3> QED BY ONLY <1>0, <1>2, <2>2, <3>1, Zenon
  <2> QED BY <2>1, <2>2
<1>3. IsInjective(t)
  <2> SUFFICES ASSUME NEW a \in 1 .. Len(s) - 1, NEW b \in 1 .. Len(s) - 1,
                      t[a] = t[b], a < b
               PROVE  FALSE
    BY <1>1 DEF IsInjective
  <2> DEFINE Old(i) == IF i < k THEN i ELSE i + 1
  <2>1. Old(a) \in DOMAIN s /\ Old(b) \in DOMAIN s /\ Old(a) < Old(b)
    OBVIOUS
  <2>2. s[Old(a)] = s[Old(b)]
    BY <1>2
  <2> QED BY <2>1, <2>2 DEF IsInjective
<1>4. ASSUME NEW x PROVE x \in ToSet(t) <=> x \in ToSet(s) \ {s[k]}
  <2>1. ASSUME NEW i \in 1 .. Len(s) - 1, x = t[i]
        PROVE  x \in ToSet(s) \ {s[k]}
    BY <1>2, <2>1 DEF IsInjective, ToSet
  <2>2. ASSUME NEW i \in 1 .. Len(s), x = s[i], x # s[k]
        PROVE  x \in ToSet(t)
    <3>1. CASE i < k
      BY <1>1, <1>2, <2>2, <3>1 DEF ToSet
    <3>2. CASE i > k
      <4>1. i - 1 \in 1 .. Len(s) - 1 /\ ~(i - 1 < k) /\ (i - 1) + 1 = i
        BY <3>2
      <4>2. t[i - 1] = s[i]
        BY <1>2, <4>1
      <4> QED BY <1>1, <2>2, <4>1, <4>2 DEF ToSet
    <3> QED BY <2>2, <3>1, <3>2
  <2> QED BY <1>1, <2>1, <2>2 DEF ToSet
<1>5. ToSet(t) = ToSet(s) \ {s[k]}
  BY <1>4
<1> QED BY <1>3, <1>5

-----------------------------------------------------------------------------
(* Induction, and what it says of FlattenSeq *)

\* The least-number principle, for a set of numbers.
LEMMA Least ==
  ASSUME NEW T, T \subseteq Nat, T # {}
  PROVE  \E x \in T : \A y \in T : x <= y
<1> DEFINE R == {ss \in Nat \X Nat : ss[1] < ss[2]}
<1>1. IsWellFoundedOn(R, Nat)
  BY NatLessThanWellFounded, Zenon DEF OpToRel
<1> HIDE DEF R
<1>2. PICK x \in T : \A y \in T : ~(<<y, x>> \in R)
  BY <1>1, WFMin
<1>3. \A y \in T : ~(y < x)
  BY <1>2 DEF R
<1> QED BY <1>3

\* A set of numbers with a bound has a greatest element.
LEMMA Greatest ==
  ASSUME NEW n \in Nat, NEW T, T \subseteq 0 .. n, T # {}
  PROVE  \E x \in T : \A y \in T : y <= x
<1> DEFINE U == {k \in 0 .. n : n - k \in T}
<1>0. U \subseteq Nat
  OBVIOUS
<1>1. U # {}
  <2>1. PICK y \in T : TRUE
    OBVIOUS
  <2>2. n - y \in 0 .. n /\ n - (n - y) = y
    OBVIOUS
  <2>3. n - y \in U
    BY <2>1, <2>2
  <2> HIDE DEF U
  <2> QED BY <2>3
<1>2. PICK u \in U : \A y \in U : u <= y
  <2> HIDE DEF U
  <2> QED BY <1>0, <1>1, Least
<1>3. n - u \in T
  BY <1>2
<1>4. ASSUME NEW y \in T PROVE y <= n - u
  <2>1. n - y \in 0 .. n /\ n - (n - y) = y
    OBVIOUS
  <2>2. u <= n - y
    BY <1>2, <2>1
  <2> QED BY <2>2
<1> QED BY <1>3, <1>4

\* Induction up to n, for a set of numbers.
LEMMA Induction ==
  ASSUME NEW n \in Nat, NEW T, 0 \in T, \A k \in 1 .. n : k - 1 \in T => k \in T
  PROVE  0 .. n \subseteq T
<1> SUFFICES ASSUME (0 .. n) \ T # {} PROVE FALSE
  OBVIOUS
<1>1. PICK x \in (0 .. n) \ T : \A y \in (0 .. n) \ T : x <= y
  <2> DEFINE U == (0 .. n) \ T
  <2>1. U \subseteq Nat /\ U # {}
    OBVIOUS
  <2> HIDE DEF U
  <2>2. \E x \in U : \A y \in U : x <= y
    BY <2>1, Least
  <2> QED BY <2>2 DEF U
<1>2. x # 0 /\ x \in 1 .. n
  BY <1>1
<1>3. x - 1 \in 0 .. n /\ ~(x <= x - 1)
  BY <1>2
<1>4. x - 1 \in T
  BY <1>1, <1>3
<1> QED BY <1>1, <1>2, <1>4

\* g starts from c, and f makes each of its values from the one before it.
Steps(S, n) == [S \X (1 .. n) -> S]
Follows(g, S, c, n, f) ==
  /\ g \in [0 .. n -> S]
  /\ g[0] = c
  /\ \A k \in 1 .. n : g[k] = f[<<g[k - 1], k>>]

\* A function may be defined step by step.
LEMMA Recursion ==
  ASSUME NEW S, NEW c \in S, NEW n \in Nat, NEW f \in Steps(S, n)
  PROVE  \E g : Follows(g, S, c, n, f)
<1> SUFFICES \E g \in [0 .. n -> S] : g[0] = c /\ \A k \in 1 .. n : g[k] = f[<<g[k-1], k>>]
  BY DEF Follows
<1>0. f \in [S \X (1 .. n) -> S]
  BY DEF Steps
<1> DEFINE Up(m) == \E g \in [0 .. m -> S] : g[0] = c /\ \A k \in 1 .. m : g[k] = f[<<g[k-1], k>>]
           T == {m \in 0 .. n : Up(m)}
<1>1. 0 \in T
  <2>1. Up(0)
    <3> DEFINE g == [i \in 0 .. 0 |-> c]
    <3>1. g \in [0 .. 0 -> S] /\ g[0] = c /\ \A k \in 1 .. 0 : g[k] = f[<<g[k-1], k>>]
      OBVIOUS
    <3> QED BY <3>1
  <2> QED BY <2>1
<1>2. ASSUME NEW k \in 1 .. n, k - 1 \in T
      PROVE  k \in T
  <2>1. PICK g \in [0 .. k - 1 -> S] : g[0] = c /\ \A i \in 1 .. k - 1 : g[i] = f[<<g[i-1], i>>]
    BY <1>2
  <2> DEFINE h == [i \in 0 .. k |-> IF i = k THEN f[<<g[k-1], k>>] ELSE g[i]]
  <2>2. h \in [0 .. k -> S]
    <3>1. g[k-1] \in S
      BY <2>1
    <3>2. f[<<g[k-1], k>>] \in S
      BY <1>0, <3>1
    <3> QED BY <2>1, <3>2
  <2>3. h[0] = c
    BY <2>1
  <2>4. ASSUME NEW i \in 1 .. k PROVE h[i] = f[<<h[i-1], i>>]
    <3>1. h[i-1] = g[i-1]
      OBVIOUS
    <3>2. CASE i = k
      <4>1. h[k] = f[<<g[k-1], k>>]
        OBVIOUS
      <4> QED BY <3>1, <3>2, <4>1
    <3>3. CASE i # k
      <4>1. i \in 1 .. k - 1
        BY <3>3
      <4>2. h[i] = g[i]
        BY <3>3
      <4> QED BY <2>1, <3>1, <4>1, <4>2
    <3> QED BY <3>2, <3>3
  <2>5. Up(k)
    <3> HIDE DEF h
    <3> QED BY <2>2, <2>3, <2>4
  <2> QED BY <2>5
<1> HIDE DEF T
<1>3. 0 .. n \subseteq T
  BY <1>1, <1>2, Induction
<1>4. n \in T
  BY <1>3
<1> QED BY <1>4 DEF T

\* Course-of-values induction, for a set of numbers.
LEMMA StrongInduction ==
  ASSUME NEW T, \A n \in Nat : (\A k \in 0 .. n - 1 : k \in T) => n \in T
  PROVE  Nat \subseteq T
<1> SUFFICES ASSUME Nat \ T # {} PROVE FALSE
  OBVIOUS
<1> DEFINE U == Nat \ T
<1>1. U \subseteq Nat /\ U # {}
  OBVIOUS
<1> HIDE DEF U
<1>2. PICK x \in U : \A y \in U : x <= y
  BY <1>1, Least
<1>3. x \in Nat /\ \A k \in 0 .. x - 1 : k \in T
  <2>1. x \in Nat /\ x \notin T
    BY DEF U
  <2>2. ASSUME NEW k \in 0 .. x - 1 PROVE k \in T
    <3>1. k \in Nat /\ ~(x <= k)
      BY <2>1
    <3> QED BY <1>2, <3>1 DEF U
  <2> QED BY <2>1, <2>2
<1>4. x \in T
  BY <1>3
<1> QED BY <1>4 DEF U

\* g is given on 0 .. m: by base below b, and from b on by f and an earlier value.
Given(g, m, S, b, base, h, f) ==
  /\ g \in [0 .. m -> S]
  /\ \A n \in 0 .. m : g[n] = IF n < b THEN base[n] ELSE f[<<g[h[n]], n>>]

Descends(h, b) == h \in [Nat -> Nat] /\ \A n \in Nat : n >= b => h[n] < n

\* Two such functions agree where both are given.
LEMMA GivenOnce ==
  ASSUME NEW S, NEW b \in Nat \ {0}, NEW base, NEW h, Descends(h, b), NEW f,
         NEW g, NEW m \in Nat, Given(g, m, S, b, base, h, f),
         NEW q, NEW k \in Nat, Given(q, k, S, b, base, h, f),
         NEW i \in Nat, i <= m, i <= k
  PROVE  g[i] = q[i]
<1> DEFINE T == {n \in Nat : n <= m /\ n <= k => g[n] = q[n]}
<1>1. ASSUME NEW n \in Nat, \A p \in 0 .. n - 1 : p \in T
      PROVE  n \in T
  <2> SUFFICES ASSUME n <= m, n <= k PROVE g[n] = q[n]
    OBVIOUS
  <2>1. /\ g[n] = IF n < b THEN base[n] ELSE f[<<g[h[n]], n>>]
        /\ q[n] = IF n < b THEN base[n] ELSE f[<<q[h[n]], n>>]
    <3>1. n \in 0 .. m /\ n \in 0 .. k
      OBVIOUS
    <3> QED BY <3>1 DEF Given
  <2>2. CASE n < b
    BY <2>1, <2>2
  <2>3. CASE ~(n < b)
    <3>1. h[n] \in 0 .. n - 1
      BY <2>3 DEF Descends
    <3>2. g[h[n]] = q[h[n]]
      BY <1>1, <3>1
    <3> QED BY <2>1, <2>3, <3>2
  <2> QED BY <2>2, <2>3
<1> HIDE DEF T
<1>2. Nat \subseteq T
  BY <1>1, StrongInduction
<1> QED BY <1>2 DEF T

\* There is one, up to every number.
LEMMA GivenUpTo ==
  ASSUME NEW S, NEW b \in Nat \ {0}, NEW base \in [Nat -> S], NEW h, Descends(h, b),
         NEW f \in [S \X Nat -> S], NEW m \in Nat
  PROVE  \E g : Given(g, m, S, b, base, h, f)
<1> DEFINE T == {n \in 0 .. m : \E g : Given(g, n, S, b, base, h, f)}
<1>1. 0 \in T
  <2> DEFINE g == [i \in 0 .. 0 |-> base[0]]
  <2>1. g \in [0 .. 0 -> S] /\ \A n \in 0 .. 0 : n < b /\ g[n] = base[n]
    OBVIOUS
  <2> HIDE DEF g
  <2>2. Given(g, 0, S, b, base, h, f)
    BY <2>1 DEF Given
  <2> QED BY <2>2
<1>2. ASSUME NEW n \in 1 .. m, n - 1 \in T
      PROVE  n \in T
  <2>1. PICK g : Given(g, n - 1, S, b, base, h, f)
    BY <1>2
  <2> HIDE DEF T
  <2> DEFINE e == IF n < b THEN base[n] ELSE f[<<g[h[n]], n>>]
             q == [i \in 0 .. n |-> IF i = n THEN e ELSE g[i]]
  <2>2. n \in Nat /\ g \in [0 .. n - 1 -> S]
    BY <2>1 DEF Given
  <2>3. ~(n < b) => h[n] \in 0 .. n - 1
    BY <2>2 DEF Descends
  <2>4. e \in S
    <3>1. n < b => base[n] \in S
      BY <2>2
    <3>2. ~(n < b) => f[<<g[h[n]], n>>] \in S
      <4> SUFFICES ASSUME ~(n < b) PROVE f[<<g[h[n]], n>>] \in S
        OBVIOUS
      <4>1. g[h[n]] \in S
        BY <2>2, <2>3
      <4> QED BY <2>2, <4>1
    <3> QED BY <3>1, <3>2
  <2>5. q \in [0 .. n -> S]
    <3> HIDE DEF e
    <3>1. \A i \in 0 .. n : i # n => g[i] \in S
      BY <2>2
    <3> QED BY <2>4, <3>1
  <2>6. q[n] = e /\ \A i \in 0 .. n - 1 : q[i] = g[i]
    <3> HIDE DEF e
    <3> QED OBVIOUS
  <2> HIDE DEF q
  <2>7. ASSUME NEW i \in 0 .. n
        PROVE  q[i] = IF i < b THEN base[i] ELSE f[<<q[h[i]], i>>]
    <3>1. CASE i = n
      <4>1. ~(n < b) => q[h[n]] = g[h[n]]
        BY <2>3, <2>6
      <4> QED BY <2>6, <3>1, <4>1
    <3>2. CASE i # n
      <4>1. i \in 0 .. n - 1 /\ i \in Nat
        BY <3>2
      <4>2. g[i] = IF i < b THEN base[i] ELSE f[<<g[h[i]], i>>]
        BY <2>1, <4>1 DEF Given
      <4>3. ~(i < b) => h[i] \in 0 .. n - 1
        <5>1. ~(i < b) => h[i] \in Nat /\ h[i] < i
          BY <4>1 DEF Descends
        <5> QED BY <4>1, <5>1
      <4>4. ~(i < b) => q[h[i]] = g[h[i]]
        BY <2>6, <4>3
      <4> QED BY <2>6, <4>1, <4>2, <4>4
    <3> QED BY <3>1, <3>2
  <2>8. Given(q, n, S, b, base, h, f)
    <3> HIDE DEF e
    <3> QED BY <2>5, <2>7 DEF Given
  <2> QED BY <2>8 DEF T
<1> HIDE DEF T
<1>3. 0 .. m \subseteq T
  BY <1>1, <1>2, Induction
<1> QED BY <1>3 DEF T

Bases(S)    == [Nat -> S]
FromOne(S)  == [S \X Nat -> S]
Defined(g, S, b, base, h, f) ==
  /\ g \in [Nat -> S]
  /\ \A n \in Nat : g[n] = IF n < b THEN base[n] ELSE f[<<g[h[n]], n>>]

\* A function on all numbers may be defined from earlier values.
LEMMA CourseOfValues ==
  ASSUME NEW S, NEW b \in Nat \ {0}, NEW base \in Bases(S), NEW h, Descends(h, b),
         NEW f \in FromOne(S)
  PROVE  \E g : Defined(g, S, b, base, h, f)
<1>0. base \in [Nat -> S] /\ f \in [S \X Nat -> S]
  BY DEF Bases, FromOne
<1> SUFFICES \E g \in [Nat -> S] :
               \A n \in Nat : g[n] = IF n < b THEN base[n] ELSE f[<<g[h[n]], n>>]
  BY DEF Defined
<1> DEFINE G(m) == CHOOSE g : Given(g, m, S, b, base, h, f)
           g == [n \in Nat |-> G(n)[n]]
<1>1. ASSUME NEW m \in Nat PROVE Given(G(m), m, S, b, base, h, f)
  <2>1. \E q : Given(q, m, S, b, base, h, f)
    BY <1>0, GivenUpTo
  <2> QED BY <2>1, Zenon
<1> HIDE DEF G
<1>2. ASSUME NEW n \in Nat
      PROVE  G(n)[n] \in S /\ g[n] = IF n < b THEN base[n] ELSE f[<<g[h[n]], n>>]
  <2>1. Given(G(n), n, S, b, base, h, f)
    BY <1>1
  <2>2. /\ G(n)[n] \in S
        /\ G(n)[n] = IF n < b THEN base[n] ELSE f[<<G(n)[h[n]], n>>]
    <3>1. n \in 0 .. n
      OBVIOUS
    <3> QED BY <2>1, <3>1 DEF Given
  <2>3. ASSUME ~(n < b) PROVE G(n)[h[n]] = g[h[n]]
    <3>1. h[n] \in Nat /\ h[n] < n
      BY <2>3 DEF Descends
    <3>2. Given(G(h[n]), h[n], S, b, base, h, f)
      BY <1>1, <3>1
    <3>3. h[n] <= n /\ h[n] <= h[n]
      BY <3>1
    <3>4. G(n)[h[n]] = G(h[n])[h[n]]
      <4>0. PICK i \in Nat : i = h[n]
        BY <3>1
      <4>1. PICK x, y : x = G(n) /\ y = G(i)
        OBVIOUS
      <4>2. i <= n /\ i <= i /\ Given(x, n, S, b, base, h, f) /\ Given(y, i, S, b, base, h, f)
        BY <2>1, <3>2, <3>3, <4>0, <4>1
      <4>3. x[i] = y[i]
        BY <4>2, GivenOnce
      <4> QED BY <4>0, <4>1, <4>3
    <3> QED BY <3>1, <3>4
  <2>4. g[n] = G(n)[n]
    OBVIOUS
  <2> HIDE DEF g
  <2> QED BY <2>2, <2>3, <2>4
<1>3. g \in [Nat -> S]
  BY <1>2
<1> HIDE DEF g
<1> QED BY <1>2, <1>3

\* FlattenSeq puts the sequences together one after the other.
LEMMA FlattenSteps ==
  ASSUME NEW S, NEW ss \in Seq(Seq(S))
  PROVE  \E F \in [0 .. Len(ss) -> Seq(S)] :
           /\ F[0] = << >>
           /\ \A k \in 1 .. Len(ss) : F[k] = F[k - 1] \o ss[k]
           /\ FlattenSeq(ss) = F[Len(ss)]
<1>1. CASE Len(ss) = 0
  <2> DEFINE F == [k \in 0 .. 0 |-> << >>]
  <2>1. F \in [0 .. 0 -> Seq(S)] /\ F[0] = << >>
    OBVIOUS
  <2>2. FlattenSeq(ss) = << >>
    BY <1>1 DEF FlattenSeq
  <2> HIDE DEF F
  <2> QED BY <1>1, <2>1, <2>2
<1>2. CASE Len(ss) # 0
  <2>0. PICK n \in Nat : n = Len(ss) /\ n # 0
    BY <1>2
  <2> DEFINE step == [x \in Seq(S) \X (1 .. n) |-> x[1] \o ss[x[2]]]
             P(f) == f = [i \in 1 .. Len(ss) |-> IF i = 1 THEN ss[i] ELSE f[i - 1] \o ss[i]]
             flatten == CHOOSE f : P(f)
  <2>1. \A k \in 1 .. n : ss[k] \in Seq(S)
    BY <2>0
  <2>2. step \in [Seq(S) \X (1 .. n) -> Seq(S)]
    BY <2>1
  <2>3. \A y \in Seq(S) : \A k \in 1 .. n : step[<<y, k>>] = y \o ss[k]
    OBVIOUS
  <2>4. << >> \in Seq(S)
    OBVIOUS
  <2> HIDE DEF step
  <2>5. PICK G \in [0 .. n -> Seq(S)] :
          G[0] = << >> /\ \A k \in 1 .. n : G[k] = step[<<G[k-1], k>>]
    <3>1. step \in Steps(Seq(S), n)
      BY <2>2 DEF Steps
    <3>2. \E G : Follows(G, Seq(S), << >>, n, step)
      BY <2>4, <3>1, Recursion
    <3> QED BY <3>2 DEF Follows
  <2>6. ASSUME NEW k \in 1 .. n
        PROVE  G[k] = G[k-1] \o ss[k]
    <3>1. k - 1 \in 0 .. n
      BY <2>0
    <3>2. G[k-1] \in Seq(S)
      BY <3>1
    <3> QED BY <2>3, <2>5, <3>2
  <2>a. G[1] = G[0] \o ss[1]
    <3>1. 1 \in 1 .. n /\ 1 - 1 = 0
      BY <2>0
    <3> QED BY <2>6, <3>1
  <2> DEFINE H == [i \in 1 .. n |-> G[i]]
  <2>7. P(H)
    <3>1. ASSUME NEW i \in 1 .. n
          PROVE  H[i] = IF i = 1 THEN ss[i] ELSE H[i - 1] \o ss[i]
      <4>1. CASE i = 1
        <5>1. << >> \o ss[1] = ss[1]
          BY <2>0, <2>1
        <5>2. G[1] = G[0] \o ss[1]
          BY <2>a
        <5> QED BY <2>5, <4>1, <5>1, <5>2
      <4>2. CASE i # 1
        <5>1. i - 1 \in 1 .. n
          BY <2>0, <4>2
        <5>2. H[i] = G[i] /\ H[i - 1] = G[i - 1]
          BY <5>1
        <5> QED BY <2>6, <4>2, <5>2
      <4> QED BY <4>1, <4>2
    <3> QED BY <2>0, <3>1
  <2>8. P(flatten)
    BY <2>7, Zenon
  <2>9. FlattenSeq(ss) = flatten[n]
    BY <1>2, <2>0 DEF FlattenSeq
  <2> HIDE DEF flatten, H
  <2>10. ASSUME NEW k \in 0 .. n
         PROVE  k = 0 \/ flatten[k] = G[k]
    <3> DEFINE T == {i \in 0 .. n : i = 0 \/ flatten[i] = G[i]}
    <3>1. 0 \in T
      BY <2>0
    <3>2. ASSUME NEW i \in 1 .. n, i - 1 \in T
          PROVE  i \in T
      <4>1. flatten[i] = IF i = 1 THEN ss[i] ELSE flatten[i - 1] \o ss[i]
        BY <2>0, <2>8
      <4>2. CASE i = 1
        <5>1. << >> \o ss[1] = ss[1]
          BY <2>0, <2>1
        <5>2. G[1] = G[0] \o ss[1]
          BY <2>a
        <5>3. flatten[i] = G[i]
          BY <2>5, <4>1, <4>2, <5>1, <5>2
        <5> QED BY <2>0, <5>3
      <4>3. CASE i # 1
        <5>1. flatten[i - 1] = G[i - 1]
          BY <2>0, <3>2, <4>3
        <5>2. flatten[i] = G[i]
          BY <2>6, <4>1, <4>3, <5>1
        <5> QED BY <2>0, <5>2
      <4> QED BY <4>2, <4>3
    <3> HIDE DEF T
    <3>3. 0 .. n \subseteq T
      BY <2>0, <3>1, <3>2, Induction
    <3> QED BY <3>3 DEF T
  <2>11. FlattenSeq(ss) = G[n]
    BY <2>0, <2>9, <2>10
  <2> QED BY <2>0, <2>5, <2>6, <2>11
<1> QED BY <1>1, <1>2

-----------------------------------------------------------------------------
(* Chains: the stages of FlattenSeq.  Of concatenation, chains use only that *)
(* it is associative and that the empty sequence is neutral.                 *)

Empty == << >>
Cat(l, r) == l \o r

Closed(Q) ==
  /\ Empty \in Q
  /\ \A a \in Q : Cat(a, Empty) = a /\ Cat(Empty, a) = a
  /\ \A a, b \in Q : Cat(a, b) \in Q
  /\ \A a, b, c \in Q : Cat(Cat(a, b), c) = Cat(a, Cat(b, c))

Chain(F, Q, ss, n) ==
  /\ F \in [0 .. n -> Q]
  /\ F[0] = Empty
  /\ \A k \in 1 .. n : ss[k] \in Q /\ F[k] = Cat(F[k - 1], ss[k])

\* Sequences of elements of one set.
LEMMA SequencesClosed ==
  ASSUME NEW S
  PROVE  Closed(Seq(S))
<1>1. \A a, b \in Seq(S) : a \o b \in Seq(S)
  OBVIOUS
<1>2. ASSUME NEW a \in Seq(S), NEW b \in Seq(S), NEW c \in Seq(S)
      PROVE  (a \o b) \o c = a \o (b \o c)
  OBVIOUS
<1>3. \A a \in Seq(S) : a \o << >> = a /\ << >> \o a = a
  OBVIOUS
<1>4. << >> \in Seq(S)
  OBVIOUS
<1> QED BY <1>1, <1>2, <1>3, <1>4, Zenon DEF Closed, Cat, Empty

\* FlattenSeq is the end of a chain.
LEMMA FlattenChain ==
  ASSUME NEW S, NEW ss \in Seq(Seq(S))
  PROVE  \E F : Chain(F, Seq(S), ss, Len(ss)) /\ FlattenSeq(ss) = F[Len(ss)]
<1>1. \A k \in 1 .. Len(ss) : ss[k] \in Seq(S)
  OBVIOUS
<1> QED BY <1>1, FlattenSteps, Zenon DEF Chain, Cat, Empty

\* An element of a concatenation comes from the one or from the other.
LEMMA ConcatElements ==
  ASSUME NEW S, NEW a \in Seq(S), NEW b \in Seq(S), NEW i \in DOMAIN (a \o b)
  PROVE  \/ i \in DOMAIN a /\ (a \o b)[i] = a[i]
         \/ \E k \in DOMAIN b : (a \o b)[i] = b[k]
<1>1. i \in 1 .. Len(a) + Len(b) /\ Len(a) \in Nat /\ Len(b) \in Nat
  OBVIOUS
<1>2. CASE i <= Len(a)
  BY <1>1, <1>2
<1>3. CASE i > Len(a)
  <2>1. i - Len(a) \in 1 .. Len(b)
    BY <1>1, <1>3
  <2>2. (a \o b)[i] = b[i - Len(a)]
    BY <1>1, <1>3
  <2>3. DOMAIN b = 1 .. Len(b)
    OBVIOUS
  <2> QED BY <2>1, <2>2, <2>3
<1> QED BY <1>1, <1>2, <1>3

\* What is in a chain was in one of its links.
LEMMA ChainElements ==
  ASSUME NEW F, NEW S, NEW ss, NEW n \in Nat, Chain(F, Seq(S), ss, n)
  PROVE  \A i \in DOMAIN F[n] : \E m \in 1 .. n : \E k \in DOMAIN ss[m] : F[n][i] = ss[m][k]
<1> DEFINE In(q) == \A i \in DOMAIN q : \E m \in 1 .. n : \E k \in DOMAIN ss[m] : q[i] = ss[m][k]
           T == {m \in 0 .. n : In(F[m])}
<1>1. 0 \in T
  <2>1. F[0] = << >>
    BY DEF Chain, Empty
  <2> QED BY <2>1
<1>2. ASSUME NEW m \in 1 .. n, m - 1 \in T
      PROVE  m \in T
  <2> HIDE DEF T, In
  <2>0. F[m - 1] \in Seq(S) /\ ss[m] \in Seq(S) /\ F[m] = F[m - 1] \o ss[m]
    <3>1. m - 1 \in 0 .. n /\ m \in 0 .. n
      OBVIOUS
    <3> QED BY <3>1 DEF Chain, Cat
  <2> DEFINE a == F[m - 1]
             b == ss[m]
  <2>1. a \in Seq(S) /\ b \in Seq(S) /\ F[m] = a \o b
    BY <2>0
  <2>2. In(a)
    BY <1>2 DEF T
  <2> HIDE DEF a
  <2>3. In(F[m])
    <3> SUFFICES ASSUME NEW i \in DOMAIN (a \o b)
                 PROVE  \E p \in 1 .. n : \E k \in DOMAIN ss[p] : (a \o b)[i] = ss[p][k]
      BY <2>1 DEF In
    <3>1. \/ i \in DOMAIN a /\ (a \o b)[i] = a[i]
          \/ \E k \in DOMAIN b : (a \o b)[i] = b[k]
      <4> HIDE DEF b
      <4> QED BY <2>1, ConcatElements
    <3> QED BY <2>2, <3>1 DEF In
  <2> QED BY <2>3 DEF T
<1> HIDE DEF T
<1>3. 0 .. n \subseteq T
  BY <1>1, <1>2, Induction
<1>4. In(F[n])
  BY <1>3 DEF T
<1> QED BY <1>4

\* What comes out of FlattenSeq was in one of the sequences.
LEMMA FlattenElements ==
  ASSUME NEW S, NEW ss \in Seq(Seq(S))
  PROVE  /\ FlattenSeq(ss) \in Seq(S)
         /\ \A i \in DOMAIN FlattenSeq(ss) :
              \E n \in DOMAIN ss : \E k \in DOMAIN ss[n] : FlattenSeq(ss)[i] = ss[n][k]
<1>1. Len(ss) \in Nat /\ DOMAIN ss = 1 .. Len(ss)
  OBVIOUS
<1>2. PICK n \in Nat : n = Len(ss)
  BY <1>1
<1>3. PICK F : Chain(F, Seq(S), ss, n) /\ FlattenSeq(ss) = F[n]
  BY <1>2, FlattenChain
<1>4. F[n] \in Seq(S)
  BY <1>3 DEF Chain
<1>5. \A i \in DOMAIN F[n] : \E m \in 1 .. n : \E k \in DOMAIN ss[m] : F[n][i] = ss[m][k]
  BY <1>3, ChainElements
<1>6. DOMAIN ss = 1 .. n
  BY <1>1, <1>2
<1>7. ASSUME NEW i \in DOMAIN FlattenSeq(ss)
      PROVE  \E m \in DOMAIN ss : \E k \in DOMAIN ss[m] : FlattenSeq(ss)[i] = ss[m][k]
  <2>1. PICK m \in 1 .. n : \E k \in DOMAIN ss[m] : F[n][i] = ss[m][k]
    BY <1>3, <1>5, Zenon
  <2>2. m \in DOMAIN ss /\ \E k \in DOMAIN ss[m] : FlattenSeq(ss)[i] = ss[m][k]
    BY <1>3, <1>6, <2>1, Zenon
  <2> QED BY <2>2, Zenon
<1>8. FlattenSeq(ss) \in Seq(S)
  BY <1>3, <1>4, Zenon
<1> QED BY <1>7, <1>8, Zenon

\* The beginning of a chain, when its links are empty.
LEMMA ChainEmpty ==
  ASSUME NEW F, NEW Q, Closed(Q), NEW ss, NEW n \in Nat, Chain(F, Q, ss, n),
         NEW a \in 0 .. n, \A k \in 1 .. a : ss[k] = Empty
  PROVE  F[a] = Empty
<1> DEFINE T == {m \in 0 .. a : F[m] = Empty}
<1>1. 0 \in T
  BY DEF Chain
<1>2. ASSUME NEW m \in 1 .. a, m - 1 \in T
      PROVE  m \in T
  <2>1. m \in 1 .. n
    OBVIOUS
  <2>2. F[m] = Cat(F[m - 1], ss[m])
    BY <2>1 DEF Chain
  <2>3. F[m - 1] = Empty /\ ss[m] = Empty
    BY <1>2
  <2>4. F[m] = Empty
    BY <2>2, <2>3 DEF Closed
  <2> QED BY <2>4
<1>3. a \in Nat
  OBVIOUS
<1> HIDE DEF T
<1>4. 0 .. a \subseteq T
  BY <1>1, <1>2, <1>3, Induction
<1> QED BY <1>3, <1>4 DEF T

\* A chain of some of the links makes a stretch of the whole chain.
LEMMA ChainStretch ==
  ASSUME NEW F, NEW Q, Closed(Q), NEW ss, NEW n \in Nat, Chain(F, Q, ss, n),
         NEW G, NEW tt, NEW m \in Nat, Chain(G, Q, tt, m),
         NEW a \in Nat, a + m <= n, \A k \in 1 .. m : tt[k] = ss[a + k]
  PROVE  F[a + m] = Cat(F[a], G[m])
<1> DEFINE T == {k \in 0 .. m : F[a + k] = Cat(F[a], G[k])}
<1>0. F[a] \in Q
  BY DEF Chain
<1>1. 0 \in T
  <2>1. G[0] = Empty /\ a + 0 = a
    BY DEF Chain
  <2>2. Cat(F[a], Empty) = F[a]
    BY <1>0 DEF Closed
  <2> QED BY <2>1, <2>2
<1>2. ASSUME NEW k \in 1 .. m, k - 1 \in T
      PROVE  k \in T
  <2>1. a + k \in 1 .. n /\ a + k - 1 = a + (k - 1) /\ k - 1 \in 0 .. m
    OBVIOUS
  <2>2. ss[a + k] \in Q /\ F[a + k] = Cat(F[a + (k - 1)], ss[a + k])
    BY <2>1 DEF Chain
  <2>3. G[k - 1] \in Q /\ G[k] = Cat(G[k - 1], ss[a + k])
    BY <2>1 DEF Chain
  <2>4. F[a + (k - 1)] = Cat(F[a], G[k - 1])
    BY <1>2
  <2>5. Cat(Cat(F[a], G[k - 1]), ss[a + k]) = Cat(F[a], Cat(G[k - 1], ss[a + k]))
    BY <1>0, <2>2, <2>3 DEF Closed
  <2>6. F[a + k] = Cat(F[a], G[k])
    BY ONLY <2>2, <2>3, <2>4, <2>5, Zenon
  <2> QED BY <2>6
<1> HIDE DEF T
<1>3. 0 .. m \subseteq T
  BY <1>1, <1>2, Induction
<1>4. m \in T
  BY <1>3
<1> QED BY <1>4 DEF T

\* A chain begins as every one of its stages does, and ends there when the
\* links that follow are empty.
LEMMA ChainEnd ==
  ASSUME NEW F, NEW Q, Closed(Q), NEW ss, NEW n \in Nat, Chain(F, Q, ss, n), NEW a \in 0 .. n
  PROVE  \E r \in Q : /\ F[n] = Cat(F[a], r)
                      /\ (\A k \in a + 1 .. n : ss[k] = Empty) => r = Empty
<1> DEFINE E(r) == (\A k \in a + 1 .. n : ss[k] = Empty) => r = Empty
           T == {k \in 0 .. n - a : \E r \in Q : F[a + k] = Cat(F[a], r) /\ E(r)}
<1>0. F[a] \in Q /\ n - a \in Nat /\ a + (n - a) = n /\ a + 0 = a
  BY DEF Chain
<1>1. 0 \in T
  <2>1. Empty \in Q /\ Cat(F[a], Empty) = F[a] /\ E(Empty)
    BY <1>0 DEF Closed
  <2> HIDE DEF E
  <2> QED BY <1>0, <2>1
<1>2. ASSUME NEW k \in 1 .. n - a, k - 1 \in T
      PROVE  k \in T
  <2>1. a + k \in 1 .. n /\ a + k - 1 = a + (k - 1) /\ a + k \in a + 1 .. n
    BY <1>0
  <2>2. ss[a + k] \in Q /\ F[a + k] = Cat(F[a + (k - 1)], ss[a + k])
    BY <2>1 DEF Chain
  <2> HIDE DEF E
  <2>3. PICK r \in Q : F[a + (k - 1)] = Cat(F[a], r) /\ E(r)
    BY <1>2
  <2> HIDE DEF T
  <2>4. Cat(Cat(F[a], r), ss[a + k]) = Cat(F[a], Cat(r, ss[a + k]))
    <3>1. \A x, y, z \in Q : Cat(Cat(x, y), z) = Cat(x, Cat(y, z))
      BY ONLY Closed(Q) DEF Closed
    <3> QED BY ONLY <1>0, <2>2, r \in Q, <3>1
  <2>5. Cat(r, ss[a + k]) \in Q
    BY <2>2 DEF Closed
  <2>6. E(Cat(r, ss[a + k]))
    <3> SUFFICES ASSUME \A i \in a + 1 .. n : ss[i] = Empty PROVE Cat(r, ss[a + k]) = Empty
      BY DEF E
    <3>1. r = Empty /\ ss[a + k] = Empty
      BY <2>1, <2>3 DEF E
    <3> QED BY <3>1 DEF Closed
  <2>7. F[a + k] = Cat(F[a], Cat(r, ss[a + k]))
    BY ONLY <2>2, <2>3, <2>4, Zenon
  <2>8. \E q \in Q : F[a + k] = Cat(F[a], q) /\ E(q)
    BY ONLY <2>5, <2>6, <2>7, Zenon
  <2> QED BY <2>8 DEF T
<1> HIDE DEF T
<1>3. 0 .. n - a \subseteq T
  BY <1>0, <1>1, <1>2, Induction
<1>4. n - a \in T
  BY <1>0, <1>3
<1> HIDE DEF E
<1>5. \E r \in Q : F[n] = Cat(F[a], r) /\ E(r)
  BY <1>0, <1>4 DEF T
<1> QED BY <1>5 DEF E

\* tt stands in ss behind its first a elements, and l and r are what is on
\* either side of it once both are flattened.
PartOf(tt, a, ss) == a + Len(tt) <= Len(ss) /\ \A k \in 1 .. Len(tt) : tt[k] = ss[a + k]
Around(l, r, tt, a, ss) ==
  /\ FlattenSeq(ss) = (l \o FlattenSeq(tt)) \o r
  /\ (\A k \in 1 .. a : ss[k] = << >>) => l = << >>
  /\ (\A k \in a + Len(tt) + 1 .. Len(ss) : ss[k] = << >>) => r = << >>

\* A stretch of the sequences makes a stretch of what FlattenSeq gives.
LEMMA FlattenPart ==
  ASSUME NEW S, NEW ss \in Seq(Seq(S)), NEW tt \in Seq(Seq(S)), NEW a \in Nat, PartOf(tt, a, ss)
  PROVE  \E l, r \in Seq(S) : Around(l, r, tt, a, ss)
<1>p. a + Len(tt) <= Len(ss) /\ \A k \in 1 .. Len(tt) : tt[k] = ss[a + k]
  BY DEF PartOf
<1>0. Len(ss) \in Nat /\ Len(tt) \in Nat
  OBVIOUS
<1>1. PICK n \in Nat : n = Len(ss)
  BY <1>0, Zenon
<1>2. PICK m \in Nat : m = Len(tt)
  BY <1>0, Zenon
<1>Q. PICK Q : Q = Seq(S)
  OBVIOUS
<1>q. Closed(Q)
  BY <1>Q, SequencesClosed
<1>3. PICK F : Chain(F, Q, ss, n) /\ FlattenSeq(ss) = F[n]
  BY <1>1, <1>Q, FlattenChain, Zenon
<1>4. PICK G : Chain(G, Q, tt, m) /\ FlattenSeq(tt) = G[m]
  BY <1>2, <1>Q, FlattenChain, Zenon
<1>5. a + m <= n /\ (\A k \in 1 .. m : tt[k] = ss[a + k])
  BY <1>1, <1>2, <1>p, Zenon
<1>b. a \in 0 .. n
  BY <1>5
<1>c. PICK b \in 0 .. n : b = a + m
  BY <1>5
<1>6. F[a] \in Q
  BY <1>3, <1>b DEF Chain
<1>7. F[b] = Cat(F[a], G[m])
  BY <1>3, <1>4, <1>5, <1>q, <1>c, ChainStretch
<1>8. PICK r \in Q : /\ F[n] = Cat(F[b], r)
                     /\ (\A k \in b + 1 .. n : ss[k] = Empty) => r = Empty
  BY <1>3, <1>q, ChainEnd
<1>9. (\A k \in 1 .. a : ss[k] = Empty) => F[a] = Empty
  BY <1>3, <1>b, <1>q, ChainEmpty
<1>10. FlattenSeq(ss) = Cat(Cat(F[a], FlattenSeq(tt)), r)
  BY ONLY <1>3, <1>4, <1>7, <1>8, Zenon
<1>11. (\A k \in a + Len(tt) + 1 .. Len(ss) : ss[k] = Empty) => r = Empty
  BY ONLY <1>1, <1>2, <1>c, <1>8, Zenon
<1> QED BY ONLY <1>6, <1>9, <1>10, <1>11, <1>Q, Zenon DEF Cat, Empty, Around

\* No sequence at all.
LEMMA FlattenNothing ==
  FlattenSeq(<< >>) = << >>
<1>1. PICK ss \in Seq(Seq({})) : ss = << >> /\ Len(ss) = 0
  <2>1. << >> \in Seq(Seq({})) /\ Len(<< >>) = 0
    OBVIOUS
  <2> QED BY <2>1, Zenon
<1>2. PICK F : Chain(F, Seq({}), ss, Len(ss)) /\ FlattenSeq(ss) = F[Len(ss)]
  BY FlattenChain
<1> QED BY <1>1, <1>2, Zenon DEF Chain, Empty

\* One more sequence at the end.
LEMMA FlattenAppend ==
  ASSUME NEW S, NEW ss \in Seq(Seq(S)), NEW e \in Seq(S)
  PROVE  FlattenSeq(Append(ss, e)) = FlattenSeq(ss) \o e
<1>Q. PICK Q : Q = Seq(S)
  OBVIOUS
<1>q. Closed(Q)
  BY <1>Q, SequencesClosed
<1>0. ss \in Seq(Q) /\ e \in Q
  BY <1>Q, Zenon
<1>m. PICK m \in Nat : m = Len(ss)
  BY <1>0
<1>r. PICK rr : rr = Append(ss, e)
  OBVIOUS
<1>1. m = Len(ss) /\ rr = Append(ss, e)
  BY <1>m, <1>r
<1>2. rr \in Seq(Q) /\ Len(rr) = m + 1 /\ rr[m + 1] = e /\ \A k \in 1 .. m : ss[k] = rr[k]
  BY <1>0, <1>1
<1>3. PICK F : Chain(F, Q, rr, m + 1) /\ FlattenSeq(rr) = F[m + 1]
  BY <1>2, <1>Q, FlattenChain, Zenon
<1>4. PICK G : Chain(G, Q, ss, m) /\ FlattenSeq(ss) = G[m]
  BY <1>1, <1>Q, FlattenChain, Zenon
<1>5. \A k \in 1 .. m : ss[k] = rr[0 + k]
  <2>1. \A k \in 1 .. m : 0 + k = k
    OBVIOUS
  <2> QED BY <1>2, <2>1, Zenon
<1>6. F[0 + m] = Cat(F[0], G[m])
  <2>1. 0 \in Nat /\ m + 1 \in Nat /\ 0 + m <= m + 1
    OBVIOUS
  <2> QED BY <1>3, <1>4, <1>5, <1>q, <2>1, ChainStretch
<1>7. F[0] = Empty /\ F[m + 1] = Cat(F[m], e) /\ G[m] \in Q
  <2>1. m + 1 \in 1 .. m + 1 /\ (m + 1) - 1 = m /\ m \in 0 .. m
    OBVIOUS
  <2> QED BY <1>2, <1>3, <1>4, <2>1, Zenon DEF Chain
<1>8. F[m] = G[m]
  <2>1. 0 + m = m
    OBVIOUS
  <2> QED BY <1>6, <1>7, <1>q, <2>1, Zenon DEF Closed
<1> QED BY <1>1, <1>3, <1>4, <1>7, <1>8, Zenon DEF Cat

=============================================================================
