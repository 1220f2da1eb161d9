------------------------- MODULE MoneyParserProofs -------------------------
(***************************************************************************)
(* What parse_money and format_money do with every text, and not only with *)
(* the ones TLC enumerates.                                                *)
(***************************************************************************)
EXTENDS MoneyParser, SequenceLemmas

Digit == 0 .. 9

\* Digits are natural numbers.
LEMMA DigitsAreNumbers ==
  ASSUME NEW ds \in Seq(Digit)
  PROVE  ds \in Seq(Nat)
<1>1. \A d \in Digit : d \in Nat
  BY DEF Digit
<1> QED BY <1>1

-----------------------------------------------------------------------------
(* The value of a sequence of digits *)

\* Value goes through the digits from the left.
LEMMA ValueSteps ==
  ASSUME NEW ds \in Seq(Nat)
  PROVE  \E v \in [0 .. Len(ds) -> Nat] :
           /\ v[0] = 0
           /\ \A k \in 1 .. Len(ds) : v[k] = 10 * v[k - 1] + ds[k]
           /\ Value(ds) = v[Len(ds)]
<1>1. PICK n \in Nat : n = Len(ds)
  OBVIOUS
<1>2. \A k \in 1 .. n : ds[k] \in Nat
  BY <1>1
<1> DEFINE P(w) == w = [k \in 0 .. Len(ds) |-> IF k = 0 THEN 0 ELSE 10 * w[k - 1] + ds[k]]
           v == CHOOSE w : P(w)
           step == [x \in Nat \X (1 .. n) |-> 10 * x[1] + ds[x[2]]]
<1>a. ASSUME NEW x \in Nat \X (1 .. n)
      PROVE  10 * x[1] + ds[x[2]] \in Nat
  <2>1. x[1] \in Nat /\ x[2] \in 1 .. n
    OBVIOUS
  <2> QED BY <1>2, <2>1
<1>b. step \in Steps(Nat, n)
  BY <1>a DEF Steps
<1>3. \A x \in Nat : \A k \in 1 .. n : step[<<x, k>>] = 10 * x + ds[k]
  OBVIOUS
<1> HIDE DEF step
<1>4. PICK g : Follows(g, Nat, 0, n, step)
  BY <1>b, Recursion
<1>5. g \in [0 .. n -> Nat] /\ g[0] = 0
  BY <1>4 DEF Follows
<1>6. ASSUME NEW k \in 1 .. n
      PROVE  g[k] = 10 * g[k - 1] + ds[k]
  <2>1. k - 1 \in 0 .. n
    OBVIOUS
  <2>2. g[k - 1] \in Nat
    BY <1>5, <2>1
  <2>3. g[k] = step[<<g[k - 1], k>>]
    BY <1>4 DEF Follows
  <2> QED BY <1>3, <2>2, <2>3
<1>7. P(g)
  <2>1. \A k \in 0 .. n : g[k] = IF k = 0 THEN 0 ELSE 10 * g[k - 1] + ds[k]
    BY <1>5, <1>6
  <2> QED BY <1>1, <1>5, <2>1
<1>8. P(v)
  BY <1>7, Zenon
<1>9. Value(ds) = v[n]
  BY <1>1 DEF Value
<1> HIDE DEF v
<1>c. ASSUME NEW k \in 0 .. n PROVE v[k] = IF k = 0 THEN 0 ELSE 10 * v[k - 1] + ds[k]
  BY <1>1, <1>8
<1>10. v[0] = 0 /\ \A k \in 1 .. n : v[k] = 10 * v[k - 1] + ds[k]
  <2> HIDE DEF P
  <2> QED BY <1>c
<1>11. \A k \in 0 .. n : v[k] = g[k]
  <2> DEFINE T == {k \in 0 .. n : v[k] = g[k]}
  <2>1. 0 \in T
    BY <1>5, <1>10
  <2>2. ASSUME NEW k \in 1 .. n, k - 1 \in T PROVE k \in T
    BY <1>6, <1>10, <2>2
  <2> HIDE DEF T
  <2>3. 0 .. n \subseteq T
    BY <2>1, <2>2, Induction
  <2> QED BY <2>3 DEF T
<1> QED BY <1>1, <1>5, <1>6, <1>9, <1>11

\* Without digits there is nothing; one more digit makes ten times as much.
LEMMA ValueAppend ==
  /\ Value(<< >>) = 0
  /\ \A ds \in Seq(Nat) : /\ Value(ds) \in Nat
                          /\ \A d \in Nat : Value(Append(ds, d)) = 10 * Value(ds) + d
<1>1. Value(<< >>) = 0
  <2>1. << >> \in Seq(Nat) /\ Len(<< >>) = 0
    OBVIOUS
  <2> QED BY <2>1, ValueSteps
<1>2. ASSUME NEW ds \in Seq(Nat)
      PROVE  /\ Value(ds) \in Nat
             /\ \A d \in Nat : Value(Append(ds, d)) = 10 * Value(ds) + d
  <2>1. PICK n \in Nat : n = Len(ds)
    OBVIOUS
  <2>2. PICK v \in [0 .. n -> Nat] :
          v[0] = 0 /\ (\A k \in 1 .. n : v[k] = 10 * v[k - 1] + ds[k]) /\ Value(ds) = v[n]
    BY <2>1, ValueSteps
  <2>3. ASSUME NEW d \in Nat
        PROVE  Value(Append(ds, d)) = 10 * Value(ds) + d
    <3>1. PICK es \in Seq(Nat) : es = Append(ds, d)
      OBVIOUS
    <3>2. Len(es) = n + 1 /\ es[n + 1] = d /\ \A k \in 1 .. n : es[k] = ds[k]
      BY <2>1, <3>1
    <3>3. PICK w \in [0 .. n + 1 -> Nat] :
            /\ w[0] = 0
            /\ \A k \in 1 .. n + 1 : w[k] = 10 * w[k - 1] + es[k]
            /\ Value(es) = w[n + 1]
      BY <3>2, ValueSteps
    <3> DEFINE T == {k \in 0 .. n : v[k] = w[k]}
    <3>4. 0 \in T
      BY <2>2, <3>3
    <3>5. ASSUME NEW k \in 1 .. n, k - 1 \in T PROVE k \in T
      BY <2>2, <3>2, <3>3, <3>5
    <3> HIDE DEF T
    <3>6. 0 .. n \subseteq T
      BY <3>4, <3>5, Induction
    <3>7. v[n] = w[n]
      BY <3>6 DEF T
    <3>8. n + 1 \in 1 .. n + 1 /\ n + 1 - 1 = n
      OBVIOUS
    <3>9. w[n + 1] = 10 * w[n] + d
      BY <3>2, <3>3, <3>8
    <3> QED BY <2>2, <3>1, <3>3, <3>7, <3>9
  <2> QED BY <2>2, <2>3
<1> QED BY <1>1, <1>2

-----------------------------------------------------------------------------
(* Tokens and their digits *)

\* A token is a run of digits, or it has none.
LEMMA TokenDigits ==
  ASSUME NEW x \in Token
  PROVE  x.d \in Seq(Digit) /\ (x.t # "run" => x.d = << >>)
BY DEF Token, Digit

\* A character is a token without digits.
LEMMA SymIsToken ==
  ASSUME NEW c \in Kind, c # "run"
  PROVE  Sym(c) \in Token /\ Sym(c).t = c /\ Sym(c).d = << >>
<1>1. PICK D : D = Seq(0 .. 9)
  OBVIOUS
<1>2. PICK e \in D : e = << >>
  <2>1. << >> \in Seq(0 .. 9)
    OBVIOUS
  <2> QED BY <1>1, <2>1, Zenon
<1>3. [t |-> c, d |-> e] \in [t : Kind, d : D]
  OBVIOUS
<1>4. [t |-> c, d |-> e].t = c /\ [t |-> c, d |-> e].d = e
  OBVIOUS
<1>5. Sym(c) = [t |-> c, d |-> e]
  BY <1>2, Zenon DEF Sym
<1> QED BY <1>1, <1>2, <1>3, <1>4, <1>5, Zenon DEF Token

\* u stands in s, behind its first a tokens.
Within(u, a, s) ==
  /\ u \in Seq(Token) /\ s \in Seq(Token) /\ a \in Nat
  /\ a + Len(u) <= Len(s)
  /\ \A k \in 1 .. Len(u) : u[k] = s[a + k]

NoRuns(s, from, to) == \A k \in from .. to : s[k].t # "run"

\* The digits of a part of a text are a part of its digits, and they are all of
\* them when there are no runs around it.
LEMMA DigitsPart ==
  ASSUME NEW s, NEW u, NEW a, Within(u, a, s)
  PROVE  /\ DigitsIn(u) \in Seq(Digit) /\ DigitsIn(s) \in Seq(Digit)
         /\ \E l, r \in Seq(Digit) :
              /\ DigitsIn(s) = (l \o DigitsIn(u)) \o r
              /\ NoRuns(s, 1, a) => l = << >>
              /\ NoRuns(s, a + Len(u) + 1, Len(s)) => r = << >>
<1>1. /\ u \in Seq(Token) /\ s \in Seq(Token) /\ a \in Nat
      /\ a + Len(u) <= Len(s) /\ \A k \in 1 .. Len(u) : u[k] = s[a + k]
  BY DEF Within
<1>2. /\ Len(s) \in Nat /\ DOMAIN s = 1 .. Len(s) /\ \A k \in 1 .. Len(s) : s[k] \in Token
      /\ Len(u) \in Nat /\ DOMAIN u = 1 .. Len(u) /\ \A k \in 1 .. Len(u) : u[k] \in Token
  BY <1>1
<1> DEFINE ss == [k \in DOMAIN s |-> s[k].d]
           tt == [k \in DOMAIN u |-> u[k].d]
<1>3. /\ \A k \in 1 .. Len(s) : s[k].d \in Seq(Digit) /\ (s[k].t # "run" => s[k].d = << >>)
      /\ \A k \in 1 .. Len(u) : u[k].d \in Seq(Digit)
  BY <1>2, TokenDigits
<1>4. /\ ss \in Seq(Seq(Digit)) /\ Len(ss) = Len(s)
      /\ tt \in Seq(Seq(Digit)) /\ Len(tt) = Len(u)
  BY <1>2, <1>3
<1>5. /\ \A k \in 1 .. Len(s) : ss[k] = s[k].d
      /\ \A k \in 1 .. Len(u) : tt[k] = u[k].d /\ u[k].d = s[a + k].d
  BY <1>1, <1>2
<1>6. \A k \in 1 .. Len(tt) : tt[k] = ss[a + k]
  BY <1>1, <1>2, <1>4, <1>5
<1>7. DigitsIn(s) = FlattenSeq(ss) /\ DigitsIn(u) = FlattenSeq(tt)
  BY DEF DigitsIn
<1> HIDE DEF ss, tt
<1>a. PICK l \in Seq(Digit), r \in Seq(Digit) : Around(l, r, tt, a, ss)
  <2>1. PartOf(tt, a, ss)
    BY <1>1, <1>4, <1>6 DEF PartOf
  <2>2. a \in Nat /\ ss \in Seq(Seq(Digit)) /\ tt \in Seq(Seq(Digit))
    BY <1>1, <1>4, Zenon
  <2> QED BY ONLY <2>1, <2>2, FlattenPart, Zenon
<1>8. /\ FlattenSeq(ss) = (l \o FlattenSeq(tt)) \o r
      /\ (\A k \in 1 .. a : ss[k] = << >>) => l = << >>
      /\ (\A k \in a + Len(tt) + 1 .. Len(ss) : ss[k] = << >>) => r = << >>
  BY <1>a, Zenon DEF Around
<1>9. NoRuns(s, 1, a) => l = << >>
  <2> SUFFICES ASSUME NoRuns(s, 1, a) PROVE \A k \in 1 .. a : ss[k] = << >>
    BY <1>8
  <2>1. ASSUME NEW k \in 1 .. a PROVE ss[k] = << >>
    <3>1. k \in 1 .. Len(s)
      BY <1>1, <1>2
    <3> QED BY <1>3, <1>5, <3>1 DEF NoRuns
  <2> QED BY <2>1
<1>10. NoRuns(s, a + Len(u) + 1, Len(s)) => r = << >>
  <2> SUFFICES ASSUME NoRuns(s, a + Len(u) + 1, Len(s))
               PROVE  \A k \in a + Len(tt) + 1 .. Len(ss) : ss[k] = << >>
    BY <1>8
  <2>1. ASSUME NEW k \in a + Len(u) + 1 .. Len(s) PROVE ss[k] = << >>
    <3>1. k \in 1 .. Len(s)
      BY <1>1, <1>2
    <3> QED BY <1>3, <1>5, <3>1 DEF NoRuns
  <2> QED BY <1>4, <2>1
<1>11. FlattenSeq(ss) \in Seq(Digit) /\ FlattenSeq(tt) \in Seq(Digit)
  BY <1>4, FlattenElements
<1> QED BY <1>7, <1>8, <1>9, <1>10, <1>11, Zenon

-----------------------------------------------------------------------------
(* Where the match is, and where it ends *)

\* The runs at which some match may take its first digits.
Reach(s) == {i \in DOMAIN s : \E p \in DOMAIN s : MatchesFrom(s, p, i)}

LeadKinds == {" ", "rp", ".", "-", "+"}

\* No digits stand in the parts of the lead.
LEMMA LeadParts ==
  ASSUME NEW b \in Blanks, NEW c \in Currency, NEW g \in Sign
  PROVE  b \in Seq(LeadKinds) /\ c \in Seq(LeadKinds) /\ g \in Seq(LeadKinds)
<1> DEFINE K == LeadKinds
<1>2. << >> \in Seq(K)
  OBVIOUS
<1>3. ASSUME NEW x \in K, NEW y \in K, NEW z \in K
      PROVE  <<x>> \in Seq(K) /\ <<x, y>> \in Seq(K) /\ <<x, y, z>> \in Seq(K)
  <2> HIDE DEF K
  <2> QED OBVIOUS
<1>4. " " \in K /\ "rp" \in K /\ "." \in K /\ "-" \in K /\ "+" \in K
  BY DEF LeadKinds
<1> HIDE DEF K
<1>5. b \in Seq(K)
  BY <1>2, <1>3, <1>4, Zenon DEF Blanks
<1>6. c \in Seq(K)
  BY <1>2, <1>3, <1>4, Zenon DEF Currency
<1>7. g \in Seq(K)
  BY <1>2, <1>3, <1>4, Zenon DEF Sign
<1> QED BY <1>5, <1>6, <1>7 DEF K

\* What may stand before the digits of a match has no digits itself.
LEMMA LeadIsShort ==
  ASSUME NEW k \in Lead
  PROVE  k \in Seq(LeadKinds)
<1>1. PICK b \in Blanks, c \in Currency, g \in Sign : k = (b \o c) \o g
  BY DEF Lead
<1>2. b \in Seq(LeadKinds) /\ c \in Seq(LeadKinds) /\ g \in Seq(LeadKinds)
  BY LeadParts
<1>3. b \o c \in Seq(LeadKinds)
  BY <1>2, Concatenation
<1> QED BY <1>1, <1>2, <1>3, Concatenation

\* Between the start of a match and its first run there are no runs.
LEMMA MatchGap ==
  ASSUME NEW s \in Seq(Token), NEW p \in DOMAIN s, NEW i, MatchesFrom(s, p, i)
  PROVE  /\ i \in DOMAIN s /\ s[i].t = "run" /\ p <= i
         /\ \A q \in p .. i - 1 : s[q].t \in LeadKinds
<1>1. /\ i \in DOMAIN s /\ s[i].t = "run" /\ p <= i
      /\ Kinds(SubSeq(s, p, i - 1)) \in Lead
  BY DEF MatchesFrom, IsRun
<1>2. PICK n \in Nat : n = Len(s) /\ DOMAIN s = 1 .. n
  OBVIOUS
<1>3. p \in 1 .. n /\ i \in 1 .. n
  BY <1>1, <1>2
<1> DEFINE u == SubSeq(s, p, i - 1)
<1>4. DOMAIN u = 1 .. i - p /\ \A k \in 1 .. i - p : u[k] = s[p + k - 1]
  BY <1>1, <1>2, <1>3
<1> HIDE DEF u
<1>5. Kinds(u) = [k \in 1 .. i - p |-> u[k].t]
  BY <1>4 DEF Kinds
<1>6. Kinds(u) \in Seq(LeadKinds)
  BY <1>1, LeadIsShort DEF u
<1>7. ASSUME NEW q \in p .. i - 1
      PROVE  s[q].t \in LeadKinds
  <2>1. PICK k \in 1 .. i - p : k = q - p + 1 /\ p + k - 1 = q
    BY <1>3
  <2>2. Kinds(u)[k] = s[q].t
    BY <1>4, <1>5, <2>1
  <2>3. DOMAIN Kinds(u) = 1 .. i - p
    BY <1>5
  <2>4. Kinds(u)[k] \in LeadKinds
    <3>1. PICK w \in Seq(LeadKinds) : w = Kinds(u)
      BY <1>6
    <3>2. k \in DOMAIN w
      BY <2>3, <3>1
    <3>3. w[k] \in LeadKinds
      BY <3>2
    <3> QED BY <3>1, <3>3
  <2> QED BY <2>2, <2>4
<1> QED BY <1>1, <1>7

\* The digits end in the text, at or behind the run they start with.
LEMMA DigitsEndInside ==
  ASSUME NEW s \in Seq(Token), NEW i \in DOMAIN s
  PROVE  /\ DigitsEnd(s, i) \in i .. Len(s)
         /\ (\E j \in i + 1 .. Len(s) : Grouped(s, i, j)) =>
              /\ DigitsEnd(s, i) \in i + 1 .. Len(s)
              /\ Grouped(s, i, DigitsEnd(s, i))
              /\ \A k \in DigitsEnd(s, i) + 1 .. Len(s) : ~Grouped(s, i, k)
<1>1. PICK n \in Nat : n = Len(s) /\ DOMAIN s = 1 .. n
  OBVIOUS
<1>2. CASE \E j \in i + 1 .. Len(s) : Grouped(s, i, j)
  <2> DEFINE P(j) == Grouped(s, i, j) /\ \A k \in j + 1 .. Len(s) : ~Grouped(s, i, k)
             T == {j \in i + 1 .. n : Grouped(s, i, j)}
  <2>1. T \subseteq 0 .. n /\ T # {}
    BY <1>1, <1>2
  <2>2. PICK x \in T : \A y \in T : y <= x
    <3> HIDE DEF T
    <3> QED BY <2>1, Greatest
  <2>3. x \in i + 1 .. Len(s) /\ P(x)
    <3>1. ASSUME NEW k \in x + 1 .. Len(s) PROVE ~Grouped(s, i, k)
      <4>1. k \in i + 1 .. n /\ ~(k <= x)
        BY <1>1
      <4> QED BY <2>2, <4>1
    <3> QED BY <1>1, <2>2, <3>1
  <2>4. DigitsEnd(s, i) = CHOOSE j \in i + 1 .. Len(s) : P(j)
    BY <1>2, Zenon DEF DigitsEnd
  <2>5. DigitsEnd(s, i) \in i + 1 .. Len(s) /\ P(DigitsEnd(s, i))
    BY <2>3, <2>4, Zenon
  <2> QED BY <1>1, <2>5
<1>3. CASE ~(\E j \in i + 1 .. Len(s) : Grouped(s, i, j))
  <2>1. DigitsEnd(s, i) \in {i} \/ (DigitsEnd(s, i) = i + 2 /\ IsRun(s, i + 2))
    BY <1>3 DEF DigitsEnd
  <2>2. IsRun(s, i + 2) => i + 2 \in 1 .. n
    BY <1>1 DEF IsRun
  <2> QED BY <1>1, <1>3, <2>1, <2>2
<1> QED BY <1>2, <1>3

\* The number that starts at the run at i.
Amount(s, i) == Value(DigitsIn(SubSeq(s, i, DigitsEnd(s, i))))

\* It has more digits than int() takes.
Long(s, i) == Len(DigitsIn(SubSeq(s, i, DigitsEnd(s, i)))) > MaxDigits

\* A number is a number.
LEMMA AmountIsNat ==
  ASSUME NEW s \in Seq(Token), NEW i \in DOMAIN s
  PROVE  /\ Within(SubSeq(s, i, DigitsEnd(s, i)), i - 1, s)
         /\ DigitsIn(SubSeq(s, i, DigitsEnd(s, i))) \in Seq(Digit)
         /\ Amount(s, i) \in Nat
<1>1. PICK j \in i .. Len(s) : j = DigitsEnd(s, i)
  BY DigitsEndInside
<1>2. PICK n \in Nat : n = Len(s) /\ DOMAIN s = 1 .. n
  OBVIOUS
<1>3. i \in 1 .. n /\ j \in i .. n
  BY <1>1, <1>2
<1> DEFINE u == SubSeq(s, i, j)
<1>4. /\ u \in Seq(Token) /\ Len(u) = j - i + 1
      /\ \A k \in 1 .. j - i + 1 : u[k] = s[i + k - 1]
  BY <1>2, <1>3
<1> HIDE DEF u
<1>5. Within(u, i - 1, s)
  <2>1. i - 1 \in Nat /\ i - 1 + Len(u) <= Len(s)
    BY <1>2, <1>3, <1>4
  <2>2. \A k \in 1 .. Len(u) : u[k] = s[i - 1 + k]
    BY <1>3, <1>4
  <2> QED BY <1>4, <2>1, <2>2 DEF Within
<1>6. DigitsIn(u) \in Seq(Digit)
  BY <1>5, DigitsPart
<1>7. DigitsIn(u) \in Seq(Nat)
  BY <1>6, DigitsAreNumbers
<1>8. Value(DigitsIn(u)) \in Nat
  BY <1>7, ValueAppend
<1> QED BY <1>1, <1>5, <1>6, <1>8 DEF u, Amount

\* The leftmost match has the first of the runs that a match can reach.
LEMMA ParseReads ==
  ASSUME NEW s \in Seq(Token)
  PROVE  /\ Reach(s) = {} => parse_money(s) = << >>
         /\ \A i \in Reach(s) : (\A k \in Reach(s) : i <= k) =>
              /\ Long(s, i) => parse_money(s) = << >>
              /\ ~Long(s, i) =>
                   /\ parse_money(s) \in {<<Amount(s, i)>>, <<-Amount(s, i)>>}
                   /\ i = 1 \/ s[i - 1].t # "-" => parse_money(s) = <<Amount(s, i)>>
<1>1. PICK n \in Nat : n = Len(s) /\ DOMAIN s = 1 .. n
  OBVIOUS
<1> DEFINE starts == {p \in DOMAIN s : \E i \in DOMAIN s : MatchesFrom(s, p, i)}
           p == CHOOSE q \in starts : \A r \in starts : q <= r
           m == CHOOSE k \in DOMAIN s : MatchesFrom(s, p, k)
           v == Value(DigitsIn(SubSeq(s, m, DigitsEnd(s, m))))
<1>2. parse_money(s) = IF starts = {} \/ Long(s, m) THEN << >>
                       ELSE <<IF m > p /\ s[m - 1].t = "-" THEN -v ELSE v>>
  BY Zenon DEF parse_money, Long
<1>3. starts = {} <=> Reach(s) = {}
  BY DEF Reach
<1>4. ASSUME NEW i \in Reach(s), \A k \in Reach(s) : i <= k
      PROVE  /\ Long(s, i) => parse_money(s) = << >>
             /\ ~Long(s, i) =>
                  /\ parse_money(s) \in {<<Amount(s, i)>>, <<-Amount(s, i)>>}
                  /\ i = 1 \/ s[i - 1].t # "-" => parse_money(s) = <<Amount(s, i)>>
  <2>1. starts # {} /\ starts \subseteq Nat
    BY <1>1, <1>3
  <2>2. p \in starts /\ \A r \in starts : p <= r
    <3> HIDE DEF starts
    <3>1. \E q \in starts : \A r \in starts : q <= r
      BY <2>1, Least
    <3> QED BY <3>1, Zenon
  <2>3. p \in DOMAIN s /\ m \in DOMAIN s /\ MatchesFrom(s, p, m)
    <3> HIDE DEF p
    <3>1. p \in DOMAIN s /\ \E k \in DOMAIN s : MatchesFrom(s, p, k)
      BY <2>2, Zenon
    <3> QED BY <3>1, Zenon
  <2> HIDE DEF m
  <2>4. PICK q \in DOMAIN s : MatchesFrom(s, q, i)
    BY DEF Reach
  <2>5. q \in starts /\ i \in DOMAIN s
    BY <2>4 DEF Reach
  <2>6. p <= q
    BY <2>2, <2>5
  <2> HIDE DEF p, starts
  <2>7. m = i
    <3>1. m \in Reach(s)
      BY <2>3 DEF Reach
    <3>2. i <= m
      BY <1>4, <3>1
    <3>3. s[i].t = "run" /\ q <= i
      BY <2>4, MatchGap
    <3>4. \A k \in p .. m - 1 : s[k].t \in LeadKinds
      BY <2>3, MatchGap
    <3>5. "run" \notin LeadKinds
      BY DEF LeadKinds
    <3>6. p \in 1 .. n /\ q \in 1 .. n /\ m \in 1 .. n /\ i \in 1 .. n
      BY <1>1, <2>3, <2>4, <2>5
    <3>7. ASSUME i < m PROVE FALSE
      <4>1. i \in p .. m - 1
        BY <2>6, <3>3, <3>6, <3>7
      <4> QED BY <3>3, <3>4, <3>5, <4>1
    <3> QED BY <3>2, <3>6, <3>7
  <2>8. v = Amount(s, i)
    BY <2>7 DEF Amount
  <2> HIDE DEF v
  <2>9. parse_money(s) = IF Long(s, i) THEN << >>
                         ELSE <<IF m > p /\ s[m - 1].t = "-" THEN -v ELSE v>>
    BY <1>2, <2>1, <2>7
  <2>10. m = 1 => ~(m > p)
    BY <1>1, <2>3
  <2> QED BY <2>7, <2>8, <2>9, <2>10
<1> QED BY <1>2, <1>3, <1>4

-----------------------------------------------------------------------------
(* No digit is lost *)

\* The three forms of OneNumber, from the run at i to the run at j.
Extent(s, i, j) == \A k \in DOMAIN s : IsRun(s, k) => i <= k /\ k <= j
Groups(s, i, j) ==
  \A k \in i .. j : IF IsRun(s, k) THEN Len(s[k].d) <= 3 /\ (k - i) % 2 = 0
                                   ELSE s[k].t \in {".", ",", " "} /\ (k - i) % 2 = 1
Decimals(s, i, j) == j = i + 2 /\ s[i + 1].t \in {".", ","} /\ Len(s[j].d) = 2

\* Where the digits end, when the runs of the text make one number.
LEMMA OneNumberEnds ==
  ASSUME NEW s \in Seq(Token), NEW n \in Nat, n = Len(s), NEW i \in 1 .. n, NEW j \in 1 .. n,
         IsRun(s, i), IsRun(s, j), Extent(s, i, j),
         Groups(s, i, j) \/ i = j \/ Decimals(s, i, j)
  PROVE  DigitsEnd(s, i) = j
<1>1. DOMAIN s = 1 .. n
  OBVIOUS
<1>2. i <= j
  BY <1>1 DEF Extent
\* A group ends with a run.
<1>3. ASSUME NEW k \in i + 1 .. n, Grouped(s, i, k)
      PROVE  IsRun(s, k) /\ k <= j
  <2>1. k \in i .. k /\ k \in 1 .. n
    OBVIOUS
  <2>2. (k - i) % 2 = 0
    BY <1>3 DEF Grouped
  <2>3. IsRun(s, k)
    BY <1>3, <2>1, <2>2 DEF Grouped
  <2> QED BY <1>1, <2>1, <2>3 DEF Extent
<1> DEFINE e == DigitsEnd(s, i)
           some == \E k \in i + 1 .. Len(s) : Grouped(s, i, k)
<1>4. some => e \in i + 1 .. n /\ Grouped(s, i, e) /\ \A k \in e + 1 .. n : ~Grouped(s, i, k)
  <2> SUFFICES ASSUME some
               PROVE  e \in i + 1 .. n /\ Grouped(s, i, e) /\ \A k \in e + 1 .. n : ~Grouped(s, i, k)
    OBVIOUS
  <2> QED BY <1>1, DigitsEndInside
<1>5. ~some => e = IF IsRun(s, i + 2) /\ s[i + 1].t \in {".", ","} /\ Len(s[i + 2].d) = 2
                   THEN i + 2 ELSE i
  BY DEF DigitsEnd
<1> HIDE DEF e
<1>6. CASE i = j
  <2>1. ~some
    BY <1>3, <1>6
  <2>2. ~IsRun(s, i + 2)
    <3>1. IsRun(s, i + 2) => i + 2 <= j
      BY DEF IsRun, Extent
    <3> QED BY <1>2, <1>6, <3>1
  <2> QED BY <1>5, <1>6, <2>1, <2>2 DEF e
<1>7. CASE Decimals(s, i, j)
  <2>0. j = i + 2 /\ s[i + 1].t \in {".", ","} /\ Len(s[j].d) = 2
    BY <1>7 DEF Decimals
  <2>1. CASE some
    <3>1. e \in i + 1 .. n /\ IsRun(s, e) /\ e <= j
      BY <1>3, <1>4, <2>1
    <3>2. e # i + 1
      BY <2>0, <3>1 DEF IsRun
    <3>3. e = j
      <4>1. j = i + 2 /\ e \in i + 1 .. n /\ e <= j
        BY <2>0, <3>1
      <4> QED BY <3>2, <4>1
    <3> QED BY <3>3 DEF e
  <2>2. CASE ~some
    BY <1>5, <2>0, <2>2 DEF e
  <2> QED BY <2>1, <2>2
<1>8. CASE i # j /\ Groups(s, i, j)
  <2>1. j \in i .. j /\ j \in i + 1 .. n
    BY <1>2, <1>8
  <2>2. (j - i) % 2 = 0
    BY <1>8, <2>1 DEF Groups
  <2>3. Grouped(s, i, j)
    <3>1. ASSUME NEW q \in i .. j
          PROVE  IF (q - i) % 2 = 0 THEN IsRun(s, q) /\ Len(s[q].d) <= 3
                                    ELSE s[q].t \in Separator
      <4>1. CASE IsRun(s, q)
        BY <1>8, <4>1 DEF Groups
      <4>2. CASE ~IsRun(s, q)
        <5>1. s[q].t \in {".", ",", " "} /\ (q - i) % 2 = 1
          BY <1>8, <4>2 DEF Groups
        <5>2. (q - i) % 2 # 0
          <6>1. 1 # 0
            OBVIOUS
          <6> QED BY <5>1, <6>1, Zenon
        <5> QED BY <5>1, <5>2 DEF Separator
      <4> QED BY <4>1, <4>2
    <3> QED BY <2>2, <3>1 DEF Grouped
  <2>4. e \in i + 1 .. n /\ e <= j /\ \A k \in e + 1 .. n : ~Grouped(s, i, k)
    BY <1>3, <1>4, <2>1, <2>3
  <2>5. ~(e < j)
    <3>1. e < j => j \in e + 1 .. n
      BY <2>1, <2>4
    <3> QED BY <2>3, <2>4, <3>1
  <2>6. e = j
    BY <2>4, <2>5
  <2> QED BY <2>6 DEF e
<1> QED BY <1>6, <1>7, <1>8

\* parse_money and the "Rule" of money.py: a text all of whose runs stand in
\* one number, grouped by up to three digits or one run with or without two
\* decimals, is read as that number, with all of its digits, whatever surrounds
\* it; if it has more digits than int() takes, nothing is read, never a part.
THEOREM NoDigitIsLost ==
  \A s \in Seq(Token) :
    OneNumber(s) => IF Len(DigitsIn(s)) > MaxDigits
                    THEN parse_money(s) = << >>
                    ELSE /\ parse_money(s) # << >>
                         /\ Magnitude(parse_money(s)[1]) = Value(DigitsIn(s))
<1> SUFFICES ASSUME NEW s \in Seq(Token), OneNumber(s)
             PROVE  IF Len(DigitsIn(s)) > MaxDigits
                    THEN parse_money(s) = << >>
                    ELSE /\ parse_money(s) # << >>
                         /\ Magnitude(parse_money(s)[1]) = Value(DigitsIn(s))
  OBVIOUS
<1>1. PICK n \in Nat : n = Len(s) /\ DOMAIN s = 1 .. n
  OBVIOUS
<1> DEFINE runs == {i \in DOMAIN s : IsRun(s, i)}
<1>2. PICK i \in runs, j \in runs :
        /\ \A k \in runs : i <= k /\ k <= j
        /\ i = 1 \/ s[i - 1].t \notin {".", ","}
        /\ \/ /\ \A k \in runs : Len(s[k].d) <= 3 /\ (k - i) % 2 = 0
              /\ \A k \in (i .. j) \ runs : s[k].t \in {".", ",", " "} /\ (k - i) % 2 = 1
           \/ i = j
           \/ j = i + 2 /\ s[i + 1].t \in {".", ","} /\ Len(s[j].d) = 2
  BY Zenon DEF OneNumber
<1>3. i \in 1 .. n /\ j \in 1 .. n /\ IsRun(s, i) /\ IsRun(s, j)
  BY <1>1
<1>4. Extent(s, i, j)
  BY <1>2 DEF Extent
<1>5. Groups(s, i, j) \/ i = j \/ Decimals(s, i, j)
  <2>1. ASSUME \A k \in runs : Len(s[k].d) <= 3 /\ (k - i) % 2 = 0,
               \A k \in (i .. j) \ runs : s[k].t \in {".", ",", " "} /\ (k - i) % 2 = 1
        PROVE  Groups(s, i, j)
    <3> SUFFICES ASSUME NEW k \in i .. j
                 PROVE  IF IsRun(s, k) THEN Len(s[k].d) <= 3 /\ (k - i) % 2 = 0
                                       ELSE s[k].t \in {".", ",", " "} /\ (k - i) % 2 = 1
      BY DEF Groups
    <3>1. IsRun(s, k) <=> k \in runs
      BY DEF IsRun
    <3> HIDE DEF runs
    <3> QED BY <2>1, <3>1
  <2> QED BY <1>2, <2>1 DEF Decimals
<1>6. DigitsEnd(s, i) = j
  BY <1>1, <1>3, <1>4, <1>5, OneNumberEnds
\* The run at i is the first of all, so the first that can be reached.
<1>7. i \in Reach(s) /\ \A k \in Reach(s) : i <= k
  <2>1. MatchesFrom(s, i, i)
    <3>1. Kinds(SubSeq(s, i, i - 1)) = << >>
      <4>1. SubSeq(s, i, i - 1) = << >>
        BY <1>1, <1>3
      <4>2. DOMAIN << >> = {}
        OBVIOUS
      <4>3. Kinds(<< >>) = [k \in {} |-> << >>[k].t]
        BY <4>2 DEF Kinds
      <4>4. [k \in {} |-> << >>[k].t] = << >>
        OBVIOUS
      <4> QED BY <4>1, <4>3, <4>4
    <3>2. << >> \in Lead
      <4>1. << >> \in Blanks /\ << >> \in Currency /\ << >> \in Sign
        BY DEF Blanks, Currency, Sign
      <4>2. (<< >> \o << >>) \o << >> = << >>
        OBVIOUS
      <4> QED BY <4>1, <4>2 DEF Lead
    <3>3. i = 1 \/ s[i - 1].t \notin {"run", ".", ","}
      <4>1. i # 1 => i - 1 \in 1 .. n /\ ~(i <= i - 1)
        BY <1>3
      <4>2. i # 1 => ~IsRun(s, i - 1)
        BY <1>1, <1>4, <4>1 DEF Extent
      <4> QED BY <1>1, <1>2, <4>1, <4>2 DEF IsRun
    <3>4. IsRun(s, i) /\ i <= i
      BY <1>3
    <3> QED BY <3>1, <3>2, <3>3, <3>4, Zenon DEF MatchesFrom
  <2>2. i \in Reach(s)
    BY <2>1 DEF Reach
  <2>3. ASSUME NEW k \in Reach(s) PROVE i <= k
    <3>1. IsRun(s, k) /\ k \in DOMAIN s
      BY DEF Reach, MatchesFrom
    <3> QED BY <1>4, <3>1 DEF Extent
  <2> QED BY <2>2, <2>3
<1>8. IF Long(s, i) THEN parse_money(s) = << >>
      ELSE parse_money(s) \in {<<Amount(s, i)>>, <<-Amount(s, i)>>}
  BY <1>7, ParseReads
<1>9. Amount(s, i) \in Nat /\ Within(SubSeq(s, i, j), i - 1, s)
  BY <1>1, <1>3, <1>6, AmountIsNat
<1>10. Amount(s, i) = Value(DigitsIn(s)) /\ (Long(s, i) <=> Len(DigitsIn(s)) > MaxDigits)
  <2> DEFINE u == SubSeq(s, i, j)
  <2>1. Len(u) = j - i + 1
    BY <1>1, <1>3, <1>4 DEF Extent
  <2> HIDE DEF u
  <2>2. Within(u, i - 1, s)
    BY <1>9 DEF u
  <2>3. NoRuns(s, 1, i - 1)
    <3> SUFFICES ASSUME NEW k \in 1 .. i - 1, IsRun(s, k) PROVE FALSE
      BY <1>1, <1>3 DEF NoRuns, IsRun
    <3> QED BY <1>1, <1>3, <1>4 DEF Extent
  <2>4. NoRuns(s, i - 1 + Len(u) + 1, Len(s))
    <3> SUFFICES ASSUME NEW k \in j + 1 .. n, IsRun(s, k) PROVE FALSE
      BY <1>1, <1>3, <2>1 DEF NoRuns, IsRun
    <3> QED BY <1>1, <1>3, <1>4 DEF Extent
  <2>5. PICK l \in Seq(Digit), r \in Seq(Digit) :
          /\ DigitsIn(u) \in Seq(Digit)
          /\ DigitsIn(s) = (l \o DigitsIn(u)) \o r /\ l = << >> /\ r = << >>
    BY <2>2, <2>3, <2>4, DigitsPart, Zenon
  <2>6. DigitsIn(s) = DigitsIn(u)
    BY <2>5
  <2> QED BY <1>6, <2>6 DEF u, Amount, Long
<1>11. ~Long(s, i) => parse_money(s) # << >> /\ Magnitude(parse_money(s)[1]) = Amount(s, i)
  BY <1>8, <1>9 DEF Magnitude
<1> QED BY <1>8, <1>10, <1>11, Zenon

-----------------------------------------------------------------------------
(* What stands before the number *)

Barred == {"run", ".", ","}
Free(s, p) == p = 1 \/ s[p - 1].t \notin Barred

\* Three elements, one and then two.
LEMMA OneThenTwo ==
  ASSUME NEW S, NEW b \in Seq(S), NEW c \in Seq(S), Len(b) = 1, Len(c) = 2
  PROVE  Len(b \o c) = 3 /\ (b \o c)[1] = b[1] /\ (b \o c)[2] = c[1]
<1>1. Len(b \o c) = Len(b) + Len(c)
  BY ONLY Concatenation, b \in Seq(S), c \in Seq(S)
<1>2. 1 \in 1 .. Len(b) /\ 1 \in 1 .. Len(c)
  OBVIOUS
<1>p. /\ \A i \in 1 .. Len(b) : (b \o c)[i] = b[i]
      /\ \A i \in 1 .. Len(c) : (b \o c)[Len(b) + i] = c[i]
  BY ONLY ConcatPlaces, b \in Seq(S), c \in Seq(S)
<1>3. (b \o c)[1] = b[1]
  BY ONLY <1>2, <1>p, Zenon
<1>4. (b \o c)[Len(b) + 1] = c[1]
  BY ONLY <1>2, <1>p, Zenon
<1>5. Len(b) + 1 = 2 /\ Len(b) + Len(c) = 3
  OBVIOUS
<1> QED BY <1>1, <1>3, <1>4, <1>5, Zenon

\* The only lead that ends with a point is "rp.", with a blank or without.
LEMMA LeadWithPoint ==
  ASSUME NEW k \in Lead, k # << >>, k[Len(k)] = "."
  PROVE  \/ Len(k) = 2 /\ k[1] = "rp"
         \/ Len(k) = 3 /\ k[1] = " " /\ k[2] = "rp"
<1>1. PICK b \in Blanks, c \in Currency, g \in Sign : k = (b \o c) \o g
  BY DEF Lead
<1>2. ASSUME NEW x \in {"-", "+"}, g = <<x>>
      PROVE  FALSE
  <2>1. b \in Seq(LeadKinds) /\ c \in Seq(LeadKinds)
    BY LeadParts
  <2>2. PICK w \in Seq(LeadKinds) : w = b \o c
    BY <2>1, Concatenation
  <2>3. (w \o <<x>>)[Len(w \o <<x>>)] = x
    <3>1. x \in LeadKinds
      BY DEF LeadKinds
    <3> QED BY <3>1
  <2>4. k = w \o <<x>>
    BY <1>1, <1>2, <2>2
  <2>5. k[Len(k)] = x
    BY <2>3, <2>4, Zenon
  <2> QED BY <2>5
<1>3. CASE g = << >>
  <2>1. b \in Seq(LeadKinds) /\ c \in Seq(LeadKinds)
    BY LeadParts
  <2>2. PICK w \in Seq(LeadKinds) : w = b \o c
    BY <2>1, Concatenation
  <2>3. k = b \o c
    BY <1>1, <1>3, <2>2
  <2>b. b = << >> \/ b = <<" ">>
    BY Zenon DEF Blanks
  <2>c. c = << >> \/ c = <<"rp">> \/ c = <<"rp", ".">> \/ c = <<"rp", " ">> \/ c = <<"rp", ".", " ">>
    BY Zenon DEF Currency
  <2>4. c # << >>
    <3> SUFFICES ASSUME c = << >> PROVE FALSE
      OBVIOUS
    <3>1. k = b
      BY <2>1, <2>3
    <3>2. b = <<" ">>
      BY <2>b, <3>1, Zenon
    <3>3. k[Len(k)] = " "
      BY ONLY <3>1, <3>2
    <3> QED BY <3>3
  <2>5. k[Len(k)] = c[Len(c)]
    BY <2>1, <2>3, <2>4
  <2>6. c[Len(c)] = "."
    BY <2>5
  <2>7. c = <<"rp", ".">>
    <3>1. Len(<<"rp">>) = 1 /\ <<"rp">>[1] = "rp"
      OBVIOUS
    <3>2. Len(<<"rp", " ">>) = 2 /\ <<"rp", " ">>[2] = " "
      OBVIOUS
    <3>3. Len(<<"rp", ".", " ">>) = 3 /\ <<"rp", ".", " ">>[3] = " "
      OBVIOUS
    <3>4. "rp" # "." /\ " " # "."
      OBVIOUS
    <3> QED BY <2>4, <2>6, <2>c, <3>1, <3>2, <3>3, <3>4, Zenon
  <2>8. Len(c) = 2 /\ c[1] = "rp"
    BY <2>7
  <2>9. CASE b = << >>
    <3>1. k = c
      BY <2>1, <2>3, <2>9
    <3> QED BY <2>8, <3>1
  <2>10. CASE b = <<" ">>
    <3>1. Len(b) = 1 /\ b[1] = " "
      BY <2>10
    <3>2. Len(b \o c) = 3 /\ (b \o c)[1] = b[1] /\ (b \o c)[2] = c[1]
      BY <2>1, <2>8, <3>1, OneThenTwo
    <3> QED BY <2>3, <2>8, <3>1, <3>2, Zenon
  <2> QED BY <2>9, <2>10, <2>b, Zenon
<1>4. g = << >> \/ g = <<"-">> \/ g = <<"+">>
  BY Zenon DEF Sign
<1> QED BY <1>2, <1>3, <1>4, Zenon

\* The kinds of what stands between p and i.
LEMMA KindsBetween ==
  ASSUME NEW s \in Seq(Token), NEW p \in DOMAIN s, NEW i \in DOMAIN s, p <= i
  PROVE  /\ Len(Kinds(SubSeq(s, p, i - 1))) = i - p
         /\ \A k \in 1 .. i - p : Kinds(SubSeq(s, p, i - 1))[k] = s[p + k - 1].t
<1>1. PICK n \in Nat : n = Len(s) /\ DOMAIN s = 1 .. n
  OBVIOUS
<1>2. p \in 1 .. n /\ i \in 1 .. n
  BY <1>1
<1>3. PICK u : u = SubSeq(s, p, i - 1)
  OBVIOUS
<1>4. DOMAIN u = 1 .. i - p /\ \A k \in 1 .. i - p : u[k] = s[p + k - 1]
  BY <1>1, <1>2, <1>3
<1>5. Kinds(u) = [k \in 1 .. i - p |-> u[k].t] /\ i - p \in Nat
  BY <1>2, <1>4 DEF Kinds
<1>6. Len(Kinds(u)) = i - p /\ \A k \in 1 .. i - p : Kinds(u)[k] = u[k].t
  BY <1>5
<1> QED BY <1>3, <1>4, <1>6, Zenon

\* Reach, seen from the run: nothing bars it, or "rp." is before it.
Open(s, i) ==
  \/ Free(s, i)
  \/ i >= 3 /\ s[i - 1].t = "." /\ s[i - 2].t = "rp" /\ Free(s, i - 2)

\* A match takes its first digits only at an open run,
LEMMA ReachIsOpen ==
  ASSUME NEW s \in Seq(Token), NEW i \in Reach(s)
  PROVE  i \in DOMAIN s /\ s[i].t = "run" /\ Open(s, i)
<1>1. PICK n \in Nat : n = Len(s) /\ DOMAIN s = 1 .. n
  OBVIOUS
<1>2. PICK p \in DOMAIN s : MatchesFrom(s, p, i)
  BY DEF Reach
<1>3. i \in DOMAIN s /\ s[i].t = "run" /\ p <= i
  BY <1>2, MatchGap
<1>4. p \in 1 .. n /\ i \in 1 .. n
  BY <1>1, <1>3
<1>5. PICK k : k = Kinds(SubSeq(s, p, i - 1))
  OBVIOUS
<1>6. k \in Lead /\ Free(s, p)
  BY <1>2, <1>5 DEF MatchesFrom, Free, Barred
<1>7. Len(k) = i - p /\ \A q \in 1 .. i - p : k[q] = s[p + q - 1].t
  BY <1>3, <1>5, KindsBetween
<1>8. Open(s, i)
  <2>1. CASE i = p
    BY <1>6, <2>1, Zenon DEF Open
  <2>2. CASE i # p
    <3>1. i - p \in 1 .. i - p /\ p + (i - p) - 1 = i - 1 /\ i - 1 \in p .. i - 1
      BY <1>3, <1>4, <2>2
    <3>2. k[Len(k)] = s[i - 1].t
      BY <1>7, <3>1
    <3>3. s[i - 1].t \in LeadKinds
      BY <1>2, <3>1, MatchGap
    <3>4. CASE s[i - 1].t # "."
      BY <3>3, <3>4 DEF Open, Free, Barred, LeadKinds
    <3>5. CASE s[i - 1].t = "."
      <4>0. k[Len(k)] = "."
        BY <3>2, <3>5
      <4>1. \/ Len(k) = 2 /\ k[1] = "rp"
            \/ Len(k) = 3 /\ k[1] = " " /\ k[2] = "rp"
        <5>1. i - p # 0
          BY <1>4, <2>2
        <5>2. k # << >>
          <6> SUFFICES ASSUME k = << >> PROVE FALSE
            OBVIOUS
          <6>1. Len(<< >>) = 0
            OBVIOUS
          <6> QED BY <1>7, <5>1, <6>1, Zenon
        <5> QED BY <1>6, <4>0, <5>2, LeadWithPoint, Zenon
      <4>2. CASE Len(k) = 2 /\ k[1] = "rp"
        <5>0. i - p = 2
          BY <1>7, <4>2, Zenon
        <5>1. p = i - 2 /\ 1 \in 1 .. i - p /\ i >= 3 /\ p + 1 - 1 = i - 2
          BY ONLY <1>4, <5>0, n \in Nat
        <5>2. s[i - 2].t = "rp"
          BY <1>7, <4>2, <5>1
        <5> QED BY <1>6, <3>5, <5>1, <5>2, Zenon DEF Open
      <4>3. CASE Len(k) = 3 /\ k[1] = " " /\ k[2] = "rp"
        <5>0. i - p = 3
          BY <1>7, <4>3, Zenon
        <5>1. /\ p = i - 3 /\ 1 \in 1 .. i - p /\ 2 \in 1 .. i - p /\ i >= 3
              /\ p + 1 - 1 = i - 2 - 1 /\ p + 2 - 1 = i - 2
          BY ONLY <1>4, <5>0, n \in Nat
        <5>2. s[i - 2].t = "rp" /\ s[i - 2 - 1].t = " "
          BY <1>7, <4>3, <5>1
        <5>3. Free(s, i - 2)
          BY <5>2 DEF Free, Barred
        <5> QED BY <3>5, <5>1, <5>2, <5>3, Zenon DEF Open
      <4> QED BY <4>1, <4>2, <4>3
    <3> QED BY <3>4, <3>5
  <2> QED BY <2>1, <2>2
<1> QED BY <1>3, <1>8

\* Two of the ways to start a match.
LEMMA LeadHas ==
  << >> \in Lead /\ <<"rp", ".">> \in Lead
<1>1. << >> \in Blanks /\ << >> \in Sign /\ << >> \in Currency /\ <<"rp", ".">> \in Currency
  BY DEF Blanks, Sign, Currency
<1>2. << >> \in Seq(LeadKinds) /\ <<"rp", ".">> \in Seq(LeadKinds)
  BY <1>1, LeadParts, Zenon
<1>3. \A x \in Seq(LeadKinds) : (<< >> \o x) \o << >> = x
  OBVIOUS
<1>4. \A x \in Currency : (<< >> \o x) \o << >> \in Lead
  <2>1. \A b \in Blanks, c \in Currency, g \in Sign : (b \o c) \o g \in Lead
    BY DEF Lead
  <2> QED BY <1>1, <2>1, Zenon
<1> QED BY <1>1, <1>2, <1>3, <1>4, Zenon

\* and an open run may be where it does.
LEMMA OpenIsReached ==
  ASSUME NEW s \in Seq(Token), NEW i \in DOMAIN s, s[i].t = "run", Open(s, i)
  PROVE  i \in Reach(s)
<1>1. PICK n \in Nat : n = Len(s) /\ DOMAIN s = 1 .. n
  OBVIOUS
<1>2. IsRun(s, i) /\ i \in 1 .. n
  BY <1>1 DEF IsRun
<1>3. CASE Free(s, i)
  <2>1. Kinds(SubSeq(s, i, i - 1)) = << >>
    <3>1. SubSeq(s, i, i - 1) = << >>
      BY <1>1, <1>2
    <3>2. Kinds(<< >>) = << >>
      BY DEF Kinds
    <3> QED BY <3>1, <3>2, Zenon
  <2>2. MatchesFrom(s, i, i)
    <3>1. i <= i
      BY <1>2
    <3> QED BY <1>2, <1>3, <2>1, <3>1, LeadHas, Zenon DEF MatchesFrom, Free, Barred
  <2> QED BY <2>2 DEF Reach
<1>4. CASE i >= 3 /\ s[i - 1].t = "." /\ s[i - 2].t = "rp" /\ Free(s, i - 2)
  <2>1. PICK p \in 1 .. n : p = i - 2 /\ p <= i /\ p \in DOMAIN s
    BY <1>1, <1>2, <1>4
  <2>2. PICK k : k = Kinds(SubSeq(s, p, i - 1))
    OBVIOUS
  <2>3. Len(k) = i - p /\ \A q \in 1 .. i - p : k[q] = s[p + q - 1].t
    BY <2>1, <2>2, KindsBetween
  <2>4. Len(k) = 2 /\ 1 \in 1 .. i - p /\ 2 \in 1 .. i - p /\ p + 1 - 1 = i - 2 /\ p + 2 - 1 = i - 1
    <3>1. i - p = 2
      BY ONLY <1>2, <2>1, n \in Nat
    <3>2. Len(k) = 2
      BY <2>3, <3>1, Zenon
    <3>3. i \in Int /\ p \in Int /\ p = i - 2
      BY ONLY <1>2, <2>1, n \in Nat
    <3>4. 1 \in 1 .. i - p /\ 2 \in 1 .. i - p /\ p + 1 - 1 = i - 2 /\ p + 2 - 1 = i - 1
      <4>1. \A x, y \in Int : y = x - 2 => /\ 1 \in 1 .. x - y /\ 2 \in 1 .. x - y
                                           /\ y + 1 - 1 = x - 2 /\ y + 2 - 1 = x - 1
        OBVIOUS
      <4> QED BY <3>3, <4>1, Zenon
    <3> QED BY <3>2, <3>4, Zenon
  <2>5. k[1] = "rp" /\ k[2] = "."
    BY <1>4, <2>3, <2>4
  <2>6. k = <<"rp", ".">>
    <3>1. k = [q \in 1 .. 2 |-> k[q]]
      <4>1. DOMAIN SubSeq(s, p, i - 1) = 1 .. 2
        BY <1>1, <1>2, <2>1
      <4> QED BY <2>2, <4>1 DEF Kinds
    <3> QED BY <2>5, <3>1
  <2>7. MatchesFrom(s, p, i)
    BY <1>2, <1>4, <2>1, <2>2, <2>6, LeadHas DEF MatchesFrom, Free, Barred
  <2> QED BY <2>1, <2>7 DEF Reach
<1> QED BY <1>3, <1>4 DEF Open

-----------------------------------------------------------------------------
(* A number is the same whatever words, blanks and signs stand before it *)

Skipped == {"x", " ", ":", "=", "-"}

\* u is s without its first a tokens, which are such.
Rest(u, a, s) ==
  Within(u, a, s) /\ a + Len(u) = Len(s) /\ \A k \in 1 .. a : s[k].t \in Skipped

\* Where the rest of a text is in the text.
LEMMA RestPlaces ==
  ASSUME NEW s, NEW u, NEW a, Rest(u, a, s)
  PROVE  /\ u \in Seq(Token) /\ s \in Seq(Token) /\ a \in Nat
         /\ DOMAIN u = 1 .. Len(u) /\ DOMAIN s = 1 .. a + Len(u) /\ Len(u) \in Nat
         /\ Len(s) = a + Len(u)
         /\ \A k \in 1 .. Len(u) : u[k] = s[a + k]
         /\ \A k \in 1 .. a : s[k].t \in Skipped
<1>1. /\ u \in Seq(Token) /\ s \in Seq(Token) /\ a \in Nat
      /\ \A k \in 1 .. Len(u) : u[k] = s[a + k]
  BY DEF Rest, Within
<1>2. a + Len(u) = Len(s) /\ \A k \in 1 .. a : s[k].t \in Skipped
  BY DEF Rest
<1>3. DOMAIN u = 1 .. Len(u) /\ DOMAIN s = 1 .. Len(s) /\ Len(u) \in Nat
  BY <1>1
<1> QED BY <1>1, <1>2, <1>3, Zenon

\* What is dropped leaves untouched whether a place may start a match,
LEMMA RestFree ==
  ASSUME NEW s, NEW u, NEW a, Rest(u, a, s), NEW i \in 1 .. Len(u)
  PROVE  Free(u, i) <=> Free(s, a + i)
<1>1. PICK n \in Nat : n = Len(u)
  BY RestPlaces
<1>2. a \in Nat /\ (\A k \in 1 .. n : u[k] = s[a + k]) /\ \A k \in 1 .. a : s[k].t \in Skipped
  BY <1>1, RestPlaces
<1>3. \A k \in 1 .. a : s[k].t \notin Barred
  BY <1>2 DEF Skipped, Barred
<1>4. CASE i = 1
  <2>1. a + i - 1 = a /\ (a = 0 \/ a \in 1 .. a) /\ (a = 0 => a + i = 1)
    BY <1>2, <1>4
  <2>2. Free(s, a + i)
    BY <1>3, <2>1 DEF Free
  <2> QED BY <1>4, <2>2 DEF Free
<1>5. CASE i # 1
  <2>1. i - 1 \in 1 .. n /\ a + (i - 1) = (a + i) - 1 /\ a + i # 1
    BY <1>1, <1>2, <1>5
  <2>2. u[i - 1] = s[(a + i) - 1]
    BY <1>2, <2>1
  <2>3. Free(u, i) <=> u[i - 1].t \notin Barred
    BY ONLY <1>5, Zenon DEF Free
  <2>4. Free(s, a + i) <=> s[(a + i) - 1].t \notin Barred
    BY ONLY <2>1, Zenon DEF Free
  <2> QED BY ONLY <2>2, <2>3, <2>4, Zenon
<1> QED BY <1>4, <1>5

\* which runs are open,
LEMMA RestOpen ==
  ASSUME NEW s, NEW u, NEW a, Rest(u, a, s), NEW i \in 1 .. Len(u)
  PROVE  Open(u, i) <=> Open(s, a + i)
<1>1. PICK n \in Nat : n = Len(u)
  BY RestPlaces
<1>2. a \in Nat /\ (\A k \in 1 .. n : u[k] = s[a + k]) /\ \A k \in 1 .. a : s[k].t \in Skipped
  BY <1>1, RestPlaces
<1>a. a \in Nat /\ n \in Nat /\ i \in 1 .. n
  BY <1>1, <1>2, Zenon
<1>3. Free(u, i) <=> Free(s, a + i)
  BY RestFree
<1> DEFINE P(v, j) == j >= 3 /\ v[j - 1].t = "." /\ v[j - 2].t = "rp" /\ Free(v, j - 2)
<1>4. P(u, i) <=> P(s, a + i)
  <2>1. CASE i >= 3
    <3>1. /\ i - 1 \in 1 .. n /\ i - 2 \in 1 .. n /\ a + i >= 3
          /\ a + (i - 1) = (a + i) - 1 /\ a + (i - 2) = (a + i) - 2
      BY ONLY <1>a, <2>1
    <3>2. u[i - 1] = s[(a + i) - 1] /\ u[i - 2] = s[(a + i) - 2]
      BY <1>2, <3>1
    <3>3. Free(u, i - 2) <=> Free(s, (a + i) - 2)
      BY <1>1, <3>1, RestFree
    <3>4. P(u, i) <=> u[i - 1].t = "." /\ u[i - 2].t = "rp" /\ Free(u, i - 2)
      BY ONLY <2>1, Zenon
    <3>5. P(s, a + i) <=> /\ s[(a + i) - 1].t = "." /\ s[(a + i) - 2].t = "rp"
                          /\ Free(s, (a + i) - 2)
      BY ONLY <3>1, Zenon
    <3> HIDE DEF P
    <3> QED BY ONLY <3>2, <3>3, <3>4, <3>5, Zenon
  <2>2. CASE i = 1
    <3>1. ~P(u, i)
      BY <2>2
    <3>2. ~P(s, a + i)
      <4> SUFFICES ASSUME P(s, a + i) PROVE FALSE
        OBVIOUS
      <4>1. a + i - 1 \in 1 .. a
        BY <1>2, <2>2
      <4>2. s[a + i - 1].t = "." /\ s[a + i - 1].t \in Skipped
        BY <1>2, <4>1
      <4> QED BY <4>2 DEF Skipped
    <3> QED BY <3>1, <3>2
  <2>3. CASE i = 2
    <3>1. ~P(u, i)
      BY <2>3
    <3>2. ~P(s, a + i)
      <4> SUFFICES ASSUME P(s, a + i) PROVE FALSE
        OBVIOUS
      <4>1. a + i - 2 \in 1 .. a
        BY <1>2, <2>3
      <4>2. s[a + i - 2].t = "rp" /\ s[a + i - 2].t \in Skipped
        BY <1>2, <4>1
      <4> QED BY <4>2 DEF Skipped
    <3> QED BY <3>1, <3>2
  <2> QED BY <1>1, <2>1, <2>2, <2>3
<1> QED BY <1>3, <1>4 DEF Open

\* which runs a match may start with,
LEMMA RestReach ==
  ASSUME NEW s, NEW u, NEW a, Rest(u, a, s)
  PROVE  /\ \A i \in Reach(u) : a + i \in Reach(s)
         /\ \A j \in Reach(s) : j - a \in Reach(u)
<1>0. PICK n \in Nat : n = Len(u)
  BY RestPlaces
<1>1. /\ u \in Seq(Token) /\ s \in Seq(Token) /\ a \in Nat
      /\ DOMAIN u = 1 .. n /\ DOMAIN s = 1 .. a + n
      /\ \A k \in 1 .. n : u[k] = s[a + k]
      /\ \A k \in 1 .. a : s[k].t \in Skipped
  BY <1>0, RestPlaces
<1>2. ASSUME NEW i \in Reach(u) PROVE a + i \in Reach(s)
  <2>1. i \in 1 .. n /\ u[i].t = "run" /\ Open(u, i)
    BY <1>1, ReachIsOpen
  <2>2. a + i \in DOMAIN s /\ s[a + i].t = "run"
    BY <1>1, <2>1
  <2>3. Open(s, a + i)
    BY <1>0, <2>1, RestOpen
  <2> QED BY <1>1, <2>2, <2>3, OpenIsReached
<1>3. ASSUME NEW j \in Reach(s) PROVE j - a \in Reach(u)
  <2>1. j \in 1 .. a + n /\ s[j].t = "run" /\ Open(s, j)
    BY <1>1, ReachIsOpen
  <2>2. ~(j \in 1 .. a)
    BY <1>1, <2>1 DEF Skipped
  <2>3. PICK i \in 1 .. n : i = j - a /\ a + i = j
    BY <1>1, <2>1, <2>2
  <2>4. i \in DOMAIN u /\ u[i].t = "run"
    BY <1>1, <2>1, <2>3
  <2>5. Open(s, a + i)
    BY <2>1, <2>3, Zenon
  <2>6. Open(u, i)
    BY <1>0, <2>5, RestOpen
  <2> QED BY <1>1, <2>3, <2>4, <2>6, OpenIsReached
<1> QED BY <1>2, <1>3

\* Where the digits end, and what they are.
LEMMA RestGrouped ==
  ASSUME NEW s, NEW u, NEW a, Rest(u, a, s), NEW i \in 1 .. Len(u), NEW j \in i .. Len(u)
  PROVE  Grouped(u, i, j) <=> Grouped(s, a + i, a + j)
<1>0. PICK n \in Nat : n = Len(u)
  BY RestPlaces
<1>1. /\ a \in Nat /\ DOMAIN u = 1 .. n /\ DOMAIN s = 1 .. a + n
      /\ \A k \in 1 .. n : u[k] = s[a + k]
  BY <1>0, RestPlaces
<1>2. i \in 1 .. n /\ j \in i .. n /\ j - i = (a + j) - (a + i)
  BY <1>0, <1>1
<1> DEFINE P(v, x, q) == IF (q - x) % 2 = 0 THEN IsRun(v, q) /\ Len(v[q].d) <= 3
                                             ELSE v[q].t \in Separator
<1>3. ASSUME NEW q \in i .. j PROVE P(u, i, q) <=> P(s, a + i, a + q)
  <2>1. q \in 1 .. n /\ a + q \in 1 .. a + n /\ (a + q) - (a + i) = q - i
    BY <1>1, <1>2
  <2>2. u[q] = s[a + q]
    BY <1>1, <2>1
  <2>3. IsRun(u, q) <=> IsRun(s, a + q)
    BY <1>1, <2>1, <2>2 DEF IsRun
  <2> QED BY <2>1, <2>2, <2>3, Zenon
<1>4. (\A q \in i .. j : P(u, i, q)) <=> (\A q \in a + i .. a + j : P(s, a + i, q))
  <2> HIDE DEF P
  <2>1. ASSUME \A q \in i .. j : P(u, i, q), NEW q \in a + i .. a + j PROVE P(s, a + i, q)
    <3>1. PICK k \in i .. j : q = a + k
      <4>1. q - a \in i .. j /\ q = a + (q - a)
        BY <1>1, <1>2
      <4> QED BY <4>1
    <3> QED BY <1>3, <2>1, <3>1, Zenon
  <2>2. ASSUME \A q \in a + i .. a + j : P(s, a + i, q), NEW q \in i .. j PROVE P(u, i, q)
    <3>1. a + q \in a + i .. a + j
      BY <1>1, <1>2
    <3> QED BY <1>3, <2>2, <3>1, Zenon
  <2> QED BY <2>1, <2>2, Zenon
<1> QED BY <1>2, <1>4, Zenon DEF Grouped

\* where the digits of a match end,
LEMMA RestDigitsEnd ==
  ASSUME NEW s, NEW u, NEW a, Rest(u, a, s), NEW i \in 1 .. Len(u)
  PROVE  DigitsEnd(s, a + i) = a + DigitsEnd(u, i)
<1>0. PICK n \in Nat : n = Len(u)
  BY RestPlaces
<1>1. /\ u \in Seq(Token) /\ s \in Seq(Token) /\ a \in Nat /\ Len(s) = a + n
      /\ DOMAIN u = 1 .. n /\ DOMAIN s = 1 .. a + n
      /\ \A k \in 1 .. n : u[k] = s[a + k]
  BY <1>0, RestPlaces
<1>2. i \in 1 .. n /\ i \in DOMAIN u /\ a + i \in DOMAIN s
  BY <1>0, <1>1
<1>3. PICK x, y : x = DigitsEnd(u, i) /\ y = DigitsEnd(s, a + i)
  OBVIOUS
<1>4. \A j \in i .. n : Grouped(u, i, j) <=> Grouped(s, a + i, a + j)
  BY <1>0, RestGrouped
<1>5. /\ x \in i .. n
      /\ (\E j \in i + 1 .. n : Grouped(u, i, j)) =>
           x \in i + 1 .. n /\ Grouped(u, i, x) /\ \A k \in x + 1 .. n : ~Grouped(u, i, k)
  BY <1>0, <1>1, <1>2, <1>3, DigitsEndInside, Zenon
<1>6. /\ y \in a + i .. a + n
      /\ (\E j \in a + i + 1 .. a + n : Grouped(s, a + i, j)) =>
           /\ y \in a + i + 1 .. a + n /\ Grouped(s, a + i, y)
           /\ \A k \in y + 1 .. a + n : ~Grouped(s, a + i, k)
  BY <1>1, <1>2, <1>3, DigitsEndInside, Zenon
<1>7. CASE \E j \in i + 1 .. n : Grouped(u, i, j)
  <2>1. x \in i + 1 .. n /\ Grouped(u, i, x) /\ \A k \in x + 1 .. n : ~Grouped(u, i, k)
    BY <1>5, <1>7
  <2>2. a + x \in a + i + 1 .. a + n /\ Grouped(s, a + i, a + x)
    <3>1. a + x \in a + i + 1 .. a + n /\ x \in i .. n
      BY <1>1, <1>2, <2>1
    <3> QED BY <1>4, <2>1, <3>1, Zenon
  <2>3. /\ y \in a + i + 1 .. a + n /\ Grouped(s, a + i, y)
        /\ \A k \in y + 1 .. a + n : ~Grouped(s, a + i, k)
    BY <1>6, <2>2, Zenon
  <2>4. PICK z \in i + 1 .. n : y = a + z
    <3>1. y - a \in i + 1 .. n /\ y = a + (y - a)
      BY <1>1, <1>2, <2>3
    <3> QED BY <3>1
  <2>5. Grouped(u, i, z)
    <3>1. z \in i .. n
      BY <1>2
    <3> QED BY <1>4, <2>3, <2>4, <3>1, Zenon
  <2>6. ~(z \in x + 1 .. n) /\ ~(a + x \in y + 1 .. a + n)
    BY <2>1, <2>2, <2>3, <2>5, Zenon
  <2>7. z = x
    BY <1>1, <1>2, <2>1, <2>4, <2>6
  <2> QED BY <1>3, <2>4, <2>7, Zenon
<1>8. CASE ~(\E j \in i + 1 .. n : Grouped(u, i, j))
  <2>1. ~(\E j \in a + i + 1 .. a + n : Grouped(s, a + i, j))
    <3> SUFFICES ASSUME NEW j \in a + i + 1 .. a + n, Grouped(s, a + i, j) PROVE FALSE
      OBVIOUS
    <3>1. PICK z \in i + 1 .. n : j = a + z
      <4>1. j - a \in i + 1 .. n /\ j = a + (j - a)
        BY <1>1, <1>2
      <4> QED BY <4>1
    <3>2. z \in i .. n
      BY <1>2
    <3> QED BY <1>4, <1>8, <3>1, <3>2, Zenon
  <2>2. x = IF IsRun(u, i + 2) /\ u[i + 1].t \in {".", ","} /\ Len(u[i + 2].d) = 2 THEN i + 2 ELSE i
    BY <1>0, <1>3, <1>8, Zenon DEF DigitsEnd
  <2>3. y = IF IsRun(s, a + i + 2) /\ s[a + i + 1].t \in {".", ","} /\ Len(s[a + i + 2].d) = 2
            THEN a + i + 2 ELSE a + i
    BY <1>1, <1>3, <2>1, Zenon DEF DigitsEnd
  <2>4. CASE i + 2 \in 1 .. n
    <3>1. /\ a + i + 2 \in 1 .. a + n /\ i + 1 \in 1 .. n
          /\ a + (i + 2) = a + i + 2 /\ a + (i + 1) = a + i + 1
      BY <1>1, <1>2, <2>4
    <3>2. u[i + 2] = s[a + i + 2] /\ u[i + 1] = s[a + i + 1]
      <4>1. u[i + 2] = s[a + (i + 2)]
        BY ONLY <1>1, <2>4, Zenon
      <4>2. u[i + 1] = s[a + (i + 1)]
        BY ONLY <1>1, <3>1, Zenon
      <4> QED BY ONLY <3>1, <4>1, <4>2, Zenon
    <3>3. IsRun(u, i + 2) <=> IsRun(s, a + i + 2)
      BY <1>1, <2>4, <3>1, <3>2 DEF IsRun
    <3>4. y = a + x
      BY <2>2, <2>3, <3>1, <3>2, <3>3, Zenon
    <3> QED BY <1>3, <3>4, Zenon
  <2>5. CASE ~(i + 2 \in 1 .. n)
    <3>1. ~(a + i + 2 \in 1 .. a + n)
      BY <1>1, <1>2, <2>5
    <3>2. ~IsRun(u, i + 2) /\ ~IsRun(s, a + i + 2)
      BY <1>1, <2>5, <3>1, Zenon DEF IsRun
    <3> QED BY <1>3, <2>2, <2>3, <3>2, Zenon
  <2> QED BY <2>4, <2>5
<1> QED BY <1>7, <1>8

\* and so the number that is read.
LEMMA RestAmount ==
  ASSUME NEW s, NEW u, NEW a, Rest(u, a, s), NEW i \in 1 .. Len(u)
  PROVE  Amount(s, a + i) = Amount(u, i) /\ (Long(s, a + i) <=> Long(u, i))
<1>0. PICK n \in Nat : n = Len(u)
  BY RestPlaces
<1>1. /\ u \in Seq(Token) /\ s \in Seq(Token) /\ a \in Nat /\ Len(s) = a + n
      /\ DOMAIN u = 1 .. n /\ \A k \in 1 .. n : u[k] = s[a + k]
  BY <1>0, RestPlaces
<1>2. PICK x \in i .. n : x = DigitsEnd(u, i)
  BY <1>0, <1>1, DigitsEndInside
<1>3. DigitsEnd(s, a + i) = a + x
  BY <1>2, RestDigitsEnd
<1>4. SubSeq(s, a + i, a + x) = SubSeq(u, i, x)
  <2>1. i \in 1 .. n
    BY <1>0
  <2> DEFINE v == SubSeq(s, a + i, a + x)
             w == SubSeq(u, i, x)
  <2>2. /\ v \in Seq(Token) /\ Len(v) = x - i + 1
        /\ \A k \in 1 .. x - i + 1 : v[k] = s[a + i + k - 1]
    BY <1>1, <2>1
  <2>3. w \in Seq(Token) /\ Len(w) = x - i + 1 /\ \A k \in 1 .. x - i + 1 : w[k] = u[i + k - 1]
    BY <1>0, <1>1, <2>1
  <2> HIDE DEF v, w
  <2>4. ASSUME NEW k \in 1 .. x - i + 1 PROVE v[k] = w[k]
    <3>1. i + k - 1 \in 1 .. n /\ a + (i + k - 1) = a + i + k - 1
      BY <1>1, <2>1
    <3> QED BY <1>1, <2>2, <2>3, <3>1
  <2>5. v = w
    BY <2>2, <2>3, <2>4
  <2> QED BY <2>5 DEF v, w
<1> QED BY <1>2, <1>3, <1>4, Zenon DEF Amount, Long

\* What is read behind such tokens is what is read with them, but for a sign.
LEMMA Dropped ==
  ASSUME NEW s, NEW u, NEW a, Rest(u, a, s), parse_money(u) # << >>
  PROVE  parse_money(s) # << >> /\ Magnitude(parse_money(s)[1]) = Magnitude(parse_money(u)[1])
<1>0. PICK n \in Nat : n = Len(u)
  BY RestPlaces
<1>1. /\ u \in Seq(Token) /\ s \in Seq(Token) /\ a \in Nat
      /\ DOMAIN u = 1 .. n /\ DOMAIN s = 1 .. a + n
  BY <1>0, RestPlaces
<1>2. Reach(u) # {} /\ Reach(u) \subseteq 1 .. n /\ Reach(s) \subseteq 1 .. a + n
  BY <1>1, ParseReads DEF Reach
<1>3. PICK i \in Reach(u) : \A k \in Reach(u) : i <= k
  <2>1. Reach(u) \subseteq Nat
    BY <1>2
  <2> QED BY <1>2, <2>1, Least
<1>4. i \in 1 .. n /\ a + i \in Reach(s)
  BY <1>2, <1>3, RestReach
<1>5. \A k \in Reach(s) : a + i <= k
  <2> SUFFICES ASSUME NEW k \in Reach(s) PROVE a + i <= k
    OBVIOUS
  <2>1. k - a \in Reach(u)
    BY RestReach
  <2>2. i <= k - a /\ k \in 1 .. a + n
    BY <1>2, <1>3, <2>1
  <2> QED BY <1>1, <1>4, <2>2
<1>6. PICK x \in Nat : x = Amount(u, i) /\ x = Amount(s, a + i)
  BY <1>0, <1>1, <1>4, AmountIsNat, RestAmount
<1>b. ~Long(u, i) /\ ~Long(s, a + i)
  <2>1. ~Long(u, i)
    BY <1>1, <1>3, ParseReads, Zenon
  <2> QED BY <1>0, <1>4, <2>1, RestAmount
<1>7. parse_money(u) \in {<<x>>, <<-x>>} /\ parse_money(s) \in {<<x>>, <<-x>>}
  BY <1>1, <1>3, <1>4, <1>5, <1>6, <1>b, ParseReads
<1> QED BY <1>7 DEF Magnitude

\* What is read is a number.
LEMMA ParseIsInt ==
  ASSUME NEW s \in Seq(Token), parse_money(s) # << >>
  PROVE  parse_money(s)[1] \in Int /\ \E x : parse_money(s) = <<x>>
<1>1. Reach(s) # {} /\ Reach(s) \subseteq Nat /\ Reach(s) \subseteq DOMAIN s
  <2>1. Reach(s) # {}
    BY ParseReads
  <2> QED BY <2>1 DEF Reach
<1>2. PICK i \in Reach(s) : \A k \in Reach(s) : i <= k
  BY <1>1, Least
<1>3. PICK a \in Nat : a = Amount(s, i)
  BY <1>1, AmountIsNat
<1>4. parse_money(s) \in {<<a>>, <<-a>>}
  BY <1>2, <1>3, ParseReads
<1> QED BY <1>4

\* Without runs there is nothing to read.
LEMMA NothingToRead ==
  ASSUME NEW s \in Seq(Token), \A k \in DOMAIN s : s[k].t # "run"
  PROVE  parse_money(s) = << >>
<1>1. Reach(s) = {}
  BY DEF Reach, MatchesFrom, IsRun
<1> QED BY <1>1, ParseReads

-----------------------------------------------------------------------------
(* The digits of a number *)

\* Decimal is the function that its equation describes.
LEMMA DecimalSteps ==
  /\ Decimal \in [Nat -> Seq(Digit)]
  /\ \A n \in Nat : Decimal[n] = IF n < 10 THEN <<n>> ELSE Append(Decimal[n \div 10], n % 10)
<1>1. PICK D : D = Seq(Digit)
  OBVIOUS
<1> DEFINE base == [n \in Nat |-> IF n < 10 THEN <<n>> ELSE << >>]
           h == [n \in Nat |-> n \div 10]
           f == [x \in D \X Nat |-> Append(x[1], x[2] % 10)]
           P(d) == d = [n \in Nat |-> IF n < 10 THEN <<n>> ELSE Append(d[n \div 10], n % 10)]
<1>2. \A n \in Nat : n < 10 => n \in Digit
  BY DEF Digit
<1>3. \A n \in Nat : n % 10 \in Digit /\ n \div 10 \in Nat /\ (n >= 10 => n \div 10 < n)
  BY DEF Digit
<1>4. /\ \A d \in Digit : <<d>> \in D
      /\ << >> \in D
      /\ \A a \in D, d \in Digit : Append(a, d) \in D
  <2> HIDE DEF Digit
  <2> QED BY <1>1
<1>5. base \in [Nat -> D]
  BY <1>2, <1>4
<1>6. Descends(h, 10)
  BY <1>3 DEF Descends
<1>7. f \in [D \X Nat -> D]
  <2>1. ASSUME NEW x \in D \X Nat PROVE Append(x[1], x[2] % 10) \in D
    <3>1. x[1] \in D /\ x[2] \in Nat
      OBVIOUS
    <3> QED BY <1>3, <1>4, <3>1
  <2> QED BY <2>1
<1>8. /\ \A n \in Nat : h[n] = n \div 10 /\ (n < 10 => base[n] = <<n>>)
      /\ \A a \in D, n \in Nat : f[<<a, n>>] = Append(a, n % 10)
  OBVIOUS
<1>9. PICK g \in [Nat -> D] : \A n \in Nat : g[n] = IF n < 10 THEN base[n] ELSE f[<<g[h[n]], n>>]
  <2> HIDE DEF base, h, f, P
  <2>1. PICK b \in Nat \ {0} : b = 10
    OBVIOUS
  <2>2. Descends(h, b)
    BY <1>6, <2>1, Zenon
  <2>3. base \in Bases(D) /\ f \in FromOne(D)
    BY <1>5, <1>7, Zenon DEF Bases, FromOne
  <2>4. \E g : Defined(g, D, b, base, h, f)
    BY <2>2, <2>3, CourseOfValues, Zenon
  <2> QED BY <2>1, <2>4, Zenon DEF Defined
<1> HIDE DEF base, h, f
<1>10. ASSUME NEW n \in Nat
       PROVE  g[n] = IF n < 10 THEN <<n>> ELSE Append(g[n \div 10], n % 10)
  <2>1. n \div 10 \in Nat /\ g[n \div 10] \in D
    BY <1>3, <1>9
  <2> QED BY <1>8, <1>9, <2>1, Zenon
<1>11. P(g)
  BY <1>9, <1>10
<1>12. P(Decimal)
  BY <1>11, Zenon DEF Decimal
<1>13. ASSUME NEW n \in Nat
       PROVE  Decimal[n] = IF n < 10 THEN <<n>> ELSE Append(Decimal[n \div 10], n % 10)
  BY <1>12
<1>14. \A n \in Nat : Decimal[n] \in D
  <2> DEFINE T == {n \in Nat : Decimal[n] \in D}
  <2>1. ASSUME NEW n \in Nat, \A k \in 0 .. n - 1 : k \in T PROVE n \in T
    <3>1. CASE n < 10
      <4>1. <<n>> \in D
        BY <1>2, <1>4, <3>1, Zenon
      <4> QED BY <1>13, <3>1, <4>1, Zenon
    <3>2. CASE ~(n < 10)
      <4>1. n \div 10 \in 0 .. n - 1 /\ n % 10 \in Digit
        BY <1>3, <3>2
      <4>2. Decimal[n \div 10] \in D
        BY <2>1, <4>1
      <4> QED BY <1>4, <1>13, <3>2, <4>1, <4>2, Zenon
    <3> QED BY <3>1, <3>2
  <2> HIDE DEF T
  <2>2. Nat \subseteq T
    BY <2>1, StrongInduction
  <2> QED BY <2>2 DEF T
<1>15. DOMAIN Decimal = Nat /\ Decimal = [n \in Nat |-> Decimal[n]]
  BY <1>12
<1> HIDE DEF P
<1> QED BY <1>1, <1>13, <1>14, <1>15

\* A sequence that is not empty has a last element.
LEMMA LastDigit ==
  ASSUME NEW ds \in Seq(Digit), ds # << >>
  PROVE  \E es \in Seq(Digit), d \in Digit : ds = Append(es, d) /\ Len(ds) = Len(es) + 1
<1> HIDE DEF Digit
<1>1. PICK n \in Nat : n = Len(ds) /\ n # 0
  OBVIOUS
<1>2. ds[n] \in Digit
  BY <1>1
<1>3. PICK es : es = SubSeq(ds, 1, n - 1)
  OBVIOUS
<1>4. es \in Seq(Digit) /\ Len(es) = n - 1 /\ \A k \in 1 .. n - 1 : es[k] = ds[k]
  BY <1>1, <1>3
<1>5. ds = Append(es, ds[n])
  BY <1>1, <1>2, <1>4
<1> QED BY <1>1, <1>2, <1>4, <1>5

\* Fewer digits than a number has make a smaller one, and so do no digits.
LEMMA FewerDigits ==
  ASSUME NEW n \in Nat, NEW ds \in Seq(Digit), Len(ds) < Len(Decimal[n])
  PROVE  Value(ds) <= n /\ (n # 0 => Value(ds) < n)
<1> DEFINE Less(m) == \A x \in Seq(Digit) : Len(x) < Len(Decimal[m]) => Value(x) < m
           T == {m \in Nat : m = 0 \/ Less(m)}
<1>0. \A m \in Nat : Decimal[m] \in Seq(Digit) /\ Len(Decimal[m]) \in Nat
  <2>1. \A x \in Seq(Digit) : Len(x) \in Nat
    <3> HIDE DEF Digit
    <3> QED OBVIOUS
  <2> QED BY <2>1, DecimalSteps
<1>1. ASSUME NEW m \in Nat, m < 10 PROVE Len(Decimal[m]) = 1
  BY <1>1, DecimalSteps
<1>2. ASSUME NEW x \in Seq(Digit), Len(x) = 0 PROVE Value(x) = 0
  <2>1. x = << >>
    BY <1>2
  <2> QED BY <2>1, ValueAppend
<1>3. ASSUME NEW m \in Nat, \A k \in 0 .. m - 1 : k \in T PROVE m \in T
  <2> SUFFICES ASSUME m # 0, NEW x \in Seq(Digit), Len(x) < Len(Decimal[m]) PROVE Value(x) < m
    OBVIOUS
  <2>1. Len(x) \in Nat
    <3> HIDE DEF Digit
    <3> QED OBVIOUS
  <2>2. CASE Len(x) = 0
    <3>1. Value(x) = 0
      BY <1>2, <2>2, Zenon
    <3>2. 0 < m
      OBVIOUS
    <3> QED BY <3>1, <3>2, Zenon
  <2>3. CASE Len(x) # 0
    <3>1. ~(m < 10)
      <4> SUFFICES ASSUME m < 10 PROVE FALSE
        OBVIOUS
      <4>1. Len(x) < 1
        BY <1>1, Zenon
      <4> QED BY <2>1, <2>3, <4>1
    <3>2. PICK k \in Nat : k = m \div 10 /\ k \in 0 .. m - 1 /\ k # 0 /\ 10 * k <= m
      BY <3>1
    <3>3. Decimal[m] = Append(Decimal[k], m % 10) /\ Decimal[k] \in Seq(Digit)
      BY <3>1, <3>2, DecimalSteps, <1>0
    <3>4. Len(Decimal[m]) = Len(Decimal[k]) + 1
      BY <3>3
    <3>5. PICK es \in Seq(Digit), d \in Digit : x = Append(es, d) /\ Len(x) = Len(es) + 1
      <4>1. x # << >>
        BY <2>3
      <4> QED BY <4>1, LastDigit
    <3>6. Len(es) \in Nat /\ Len(Decimal[k]) \in Nat
      <4> HIDE DEF Digit
      <4> QED BY <1>0
    <3>7. Len(es) < Len(Decimal[k])
      BY <3>4, <3>5, <3>6
    <3>8. Value(es) < k
      BY <1>3, <3>2, <3>7
    <3>9. es \in Seq(Nat) /\ d \in Nat /\ d <= 9
      BY DigitsAreNumbers DEF Digit
    <3>10. Value(es) \in Nat /\ Value(x) = 10 * Value(es) + d
      BY <3>5, <3>9, ValueAppend
    <3>11. 10 * Value(es) + d < 10 * k
      BY <3>8, <3>9, <3>10
    <3> QED BY <3>2, <3>9, <3>10, <3>11
  <2> QED BY <2>2, <2>3
<1> HIDE DEF T
<1>4. n \in T
  BY <1>3, StrongInduction
<1>5. CASE n = 0
  <2>1. Len(ds) = 0
    <3>1. Len(ds) \in Nat
      <4> HIDE DEF Digit
      <4> QED OBVIOUS
    <3>2. n < 10
      BY <1>5
    <3>3. Len(ds) < 1
      BY <1>1, <3>2, Zenon
    <3> QED BY <3>1, <3>3
  <2>2. Value(ds) = 0
    BY <1>2, <2>1, Zenon
  <2>3. 0 <= n
    OBVIOUS
  <2> QED BY <1>5, <2>2, <2>3, Zenon
<1>6. CASE n # 0
  <2>1. Value(ds) < n
    BY <1>4, <1>6 DEF T
  <2>2. Value(ds) \in Nat
    BY DigitsAreNumbers, ValueAppend
  <2> QED BY <2>1, <2>2
<1> QED BY <1>5, <1>6

\* A text with fewer digits than n has is read as an amount from -n to n.
LEMMA ReadsFewDigits ==
  ASSUME NEW s \in Seq(Token), NEW n \in Nat, Len(DigitsIn(s)) < Len(Decimal[n]),
         parse_money(s) # << >>
  PROVE  parse_money(s)[1] \in -n .. n
<1>1. Reach(s) # {} /\ Reach(s) \subseteq Nat /\ Reach(s) \subseteq DOMAIN s
  <2>1. Reach(s) # {}
    BY ParseReads
  <2> QED BY <2>1 DEF Reach
<1>2. PICK i \in Reach(s) : \A k \in Reach(s) : i <= k
  BY <1>1, Least
<1>3. parse_money(s) \in {<<Amount(s, i)>>, <<-Amount(s, i)>>}
  BY <1>2, ParseReads
<1>4. PICK u : u = SubSeq(s, i, DigitsEnd(s, i))
  OBVIOUS
<1>5. Within(u, i - 1, s) /\ Amount(s, i) \in Nat /\ Amount(s, i) = Value(DigitsIn(u))
  BY <1>1, <1>2, <1>4, AmountIsNat DEF Amount
<1>6. PICK l \in Seq(Digit), r \in Seq(Digit) : DigitsIn(s) = (l \o DigitsIn(u)) \o r
  <2>1. PICK a : Within(u, a, s)
    BY <1>5, Zenon
  <2>2. /\ DigitsIn(u) \in Seq(Digit) /\ DigitsIn(s) \in Seq(Digit)
        /\ \E l, r \in Seq(Digit) :
             /\ DigitsIn(s) = (l \o DigitsIn(u)) \o r
             /\ NoRuns(s, 1, a) => l = << >>
             /\ NoRuns(s, a + Len(u) + 1, Len(s)) => r = << >>
    BY ONLY <2>1, DigitsPart, Zenon
  <2> QED BY ONLY <2>2, Zenon
<1>7. PICK ds \in Seq(Digit) : ds = DigitsIn(u)
  BY <1>5, DigitsPart, Zenon
<1>8. Len(ds) <= Len(DigitsIn(s))
  <2> HIDE DEF Digit
  <2>1. Len((l \o ds) \o r) = Len(l) + Len(ds) + Len(r)
    OBVIOUS
  <2>2. Len(l) \in Nat /\ Len(r) \in Nat /\ Len(ds) \in Nat
    OBVIOUS
  <2>3. DigitsIn(s) = (l \o ds) \o r
    BY <1>6, <1>7, Zenon
  <2>4. Len(ds) <= Len(l) + Len(ds) + Len(r)
    BY <2>2
  <2> QED BY <2>1, <2>3, <2>4, Zenon
<1>9. Len(ds) < Len(Decimal[n])
  <2>1. Len(ds) \in Nat /\ Len(DigitsIn(s)) \in Nat /\ Len(Decimal[n]) \in Nat
    <3>1. DigitsIn(s) \in Seq(Digit) /\ Decimal[n] \in Seq(Digit)
      BY <1>5, DigitsPart, DecimalSteps
    <3> HIDE DEF Digit
    <3> QED BY <3>1
  <2> QED BY <1>8, <2>1
<1>10. Value(ds) <= n
  BY <1>9, FewerDigits
<1>11. PICK a \in Nat : a = Amount(s, i) /\ a <= n
  BY <1>5, <1>7, <1>10, Zenon
<1>12. parse_money(s) \in {<<a>>, <<-a>>}
  BY <1>3, <1>11, Zenon
<1> QED BY <1>11, <1>12

\* What is read has no more digits than int() takes.
LEMMA ReadIsShort ==
  ASSUME NEW s \in Seq(Token), parse_money(s) # << >>
  PROVE  Len(Decimal[Magnitude(parse_money(s)[1])]) <= MaxDigits
<1>1. Reach(s) # {} /\ Reach(s) \subseteq Nat /\ Reach(s) \subseteq DOMAIN s
  <2>1. Reach(s) # {}
    BY ParseReads
  <2> QED BY <2>1 DEF Reach
<1>2. PICK i \in Reach(s) : \A k \in Reach(s) : i <= k
  BY <1>1, Least
<1>3. ~Long(s, i) /\ parse_money(s) \in {<<Amount(s, i)>>, <<-Amount(s, i)>>}
  BY <1>2, ParseReads, Zenon
<1>4. PICK ds \in Seq(Digit) : ds = DigitsIn(SubSeq(s, i, DigitsEnd(s, i)))
  BY <1>1, <1>2, AmountIsNat
<1>5. PICK a \in Nat : a = Amount(s, i) /\ a = Value(ds)
  BY <1>1, <1>2, <1>4, AmountIsNat DEF Amount
<1>6. PICK d \in Nat, e \in Nat : d = Len(ds) /\ e = Len(Decimal[a])
  <2>1. Decimal[a] \in Seq(Digit)
    BY DecimalSteps
  <2> HIDE DEF Digit
  <2> QED BY <2>1
<1>7. d <= MaxDigits
  <2>1. ~(d > MaxDigits)
    BY <1>3, <1>4, <1>6, Zenon DEF Long
  <2> QED BY <2>1, MaxDigitsAssumption
<1>8. CASE a = 0
  <2>1. a < 10
    BY <1>8
  <2>2. Decimal[a] = <<a>>
    BY <2>1, DecimalSteps, Zenon
  <2>3. e = 1
    BY <1>6, <2>2
  <2>4. e <= MaxDigits
    BY <2>3, MaxDigitsAssumption
  <2>5. Magnitude(parse_money(s)[1]) = a
    BY <1>3, <1>5 DEF Magnitude
  <2> QED BY <1>6, <2>4, <2>5, Zenon
<1>9. CASE a # 0
  <2>1. ~(d < e)
    <3> SUFFICES ASSUME d < e PROVE FALSE
      OBVIOUS
    <3>1. Value(ds) < a
      BY <1>6, <1>9, FewerDigits, Zenon
    <3> QED BY <1>5, <3>1
  <2>2. e <= MaxDigits
    BY <1>7, <2>1, MaxDigitsAssumption
  <2>3. Magnitude(parse_money(s)[1]) = a
    BY <1>3, <1>5 DEF Magnitude
  <2> QED BY <1>6, <2>2, <2>3, Zenon
<1> QED BY <1>8, <1>9

\* The digits of a number are its digits.
LEMMA DecimalValue ==
  \A n \in Nat : Value(Decimal[n]) = n
<1> DEFINE T == {n \in Nat : Value(Decimal[n]) = n}
<1>1. ASSUME NEW n \in Nat, \A k \in 0 .. n - 1 : k \in T PROVE n \in T
  <2>0. << >> \in Seq(Nat) /\ Append(<< >>, n) = <<n>>
    OBVIOUS
  <2>1. CASE n < 10
    <3>1. Decimal[n] = <<n>>
      BY <2>1, DecimalSteps
    <3>2. Value(Append(<< >>, n)) = 10 * 0 + n
      BY <2>0, ValueAppend
    <3>3. 10 * 0 + n = n
      OBVIOUS
    <3> QED BY <2>0, <3>1, <3>2, <3>3, Zenon
  <2>2. CASE ~(n < 10)
    <3>1. PICK m \in Nat, d \in Nat :
            m = n \div 10 /\ d = n % 10 /\ m \in 0 .. n - 1 /\ 10 * m + d = n
      BY <2>2
    <3>2. Decimal[n] = Append(Decimal[m], d)
      BY <2>2, <3>1, DecimalSteps
    <3>3. Decimal[m] \in Seq(Nat)
      BY DecimalSteps, DigitsAreNumbers
    <3>4. Value(Decimal[m]) = m
      BY <1>1, <3>1
    <3>5. Value(Append(Decimal[m], d)) = 10 * Value(Decimal[m]) + d
      BY <3>3, ValueAppend
    <3> QED BY <3>1, <3>2, <3>4, <3>5, Zenon
  <2> QED BY <2>1, <2>2
<1> HIDE DEF T
<1>2. Nat \subseteq T
  BY <1>1, StrongInduction
<1> QED BY <1>2 DEF T

\* The number of digits of n.
LEMMA DecimalLength ==
  ASSUME NEW n \in Nat
  PROVE  /\ n < 10 => Len(Decimal[n]) = 1
         /\ n >= 10 => Len(Decimal[n]) = Len(Decimal[n \div 10]) + 1
<1>1. CASE n < 10
  <2>1. Decimal[n] = <<n>>
    BY <1>1, DecimalSteps
  <2> QED BY <1>1, <2>1
<1>2. CASE n >= 10
  <2>1. PICK m \in Nat, d \in Digit : m = n \div 10 /\ d = n % 10
    BY DEF Digit
  <2>2. Decimal[n] = Append(Decimal[m], d) /\ Decimal[m] \in Seq(Digit)
    <3>1. ~(n < 10)
      BY <1>2
    <3>2. Decimal[n] = Append(Decimal[n \div 10], n % 10)
      BY <3>1, DecimalSteps, Zenon
    <3>3. Decimal[m] \in Seq(Digit)
      BY DecimalSteps
    <3> QED BY <2>1, <3>2, <3>3, Zenon
  <2>3. Len(Decimal[n]) = Len(Decimal[m]) + 1
    BY <2>2
  <2> QED BY <1>2, <2>1, <2>3
<1> QED BY <1>1, <1>2

\* A number below a thousand has at most three digits.
LEMMA DecimalIsShort ==
  ASSUME NEW n \in Nat, n < 1000
  PROVE  Decimal[n] # << >> /\ Len(Decimal[n]) <= 3
<1>1. PICK m \in Nat : m = n \div 10 /\ m < 100
  OBVIOUS
<1>2. PICK k \in Nat : k = m \div 10 /\ k < 10
  BY <1>1
<1>3. /\ Len(Decimal[k]) = 1
      /\ Len(Decimal[m]) = 1 \/ Len(Decimal[m]) = Len(Decimal[k]) + 1
      /\ Len(Decimal[n]) = 1 \/ Len(Decimal[n]) = Len(Decimal[m]) + 1
  BY <1>1, <1>2, DecimalLength
<1>4. Len(Decimal[n]) \in {1, 2, 3}
  <2>1. 1 + 1 = 2 /\ 2 + 1 = 3
    OBVIOUS
  <2>2. Len(Decimal[m]) = 1 \/ Len(Decimal[m]) = 2
    BY <1>3, <2>1, Zenon
  <2>3. Len(Decimal[n]) = 1 \/ Len(Decimal[n]) = 2 \/ Len(Decimal[n]) = 3
    BY <1>3, <2>1, <2>2, Zenon
  <2> QED BY <2>3, Zenon
<1>5. PICK a \in {1, 2, 3} : a = Len(Decimal[n])
  BY <1>4, Zenon
<1>6. a <= 3 /\ a # 0
  OBVIOUS
<1>7. Decimal[n] # << >>
  <2>1. Len(<< >>) = 0
    OBVIOUS
  <2> QED BY <1>5, <1>6, <2>1, Zenon
<1> QED BY <1>5, <1>6, <1>7, Zenon

-----------------------------------------------------------------------------
(* An amount as a text *)

\* A run of digits is a token.
LEMMA RunIsToken ==
  ASSUME NEW ds \in Seq(Digit), ds # << >>
  PROVE  Run(ds) \in Token /\ Run(ds).t = "run" /\ Run(ds).d = ds
<1>1. PICK D : D = Seq(0 .. 9)
  OBVIOUS
<1>2. ds \in D
  BY <1>1, Zenon DEF Digit
<1>3. "run" \in Kind
  BY DEF Kind
<1>4. [t |-> "run", d |-> ds] \in [t : Kind, d : D]
  BY <1>2, <1>3
<1>5. [t |-> "run", d |-> ds].t = "run" /\ [t |-> "run", d |-> ds].d = ds
  OBVIOUS
<1> QED BY <1>1, <1>4, <1>5, Zenon DEF Token, Run

\* The digits of one more token come last.
LEMMA DigitsAppend ==
  ASSUME NEW s \in Seq(Token), NEW x \in Token
  PROVE  /\ DigitsIn(s) \in Seq(Digit)
         /\ DigitsIn(Append(s, x)) = DigitsIn(s) \o x.d
<1>1. PICK D : D = Seq(Digit)
  OBVIOUS
<1>2. x.d \in D /\ \A k \in DOMAIN s : s[k].d \in D
  BY <1>1, TokenDigits
<1>3. PICK ss : ss = [k \in DOMAIN s |-> s[k].d]
  OBVIOUS
<1>4. ss \in Seq(D) /\ Len(ss) = Len(s)
  BY <1>2, <1>3
<1>5. PICK tt : tt = [k \in DOMAIN Append(s, x) |-> Append(s, x)[k].d]
  OBVIOUS
<1>6. tt = Append(ss, x.d)
  <2>1. PICK n \in Nat : n = Len(s) /\ DOMAIN s = 1 .. n
    OBVIOUS
  <2>2. DOMAIN Append(s, x) = 1 .. n + 1
    BY <2>1
  <2>3. \A k \in 1 .. n : Append(s, x)[k] = s[k]
    BY <2>1
  <2>4. Append(s, x)[n + 1] = x
    BY <2>1
  <2>5. \A k \in 1 .. n + 1 : tt[k] = IF k = n + 1 THEN x.d ELSE s[k].d
    BY <1>5, <2>2, <2>3, <2>4
  <2>6. tt = [k \in 1 .. n + 1 |-> IF k = n + 1 THEN x.d ELSE s[k].d]
    BY <1>5, <2>2, <2>5
  <2>7. Append(ss, x.d) = [k \in 1 .. n + 1 |-> IF k = n + 1 THEN x.d ELSE s[k].d]
    BY <1>2, <1>3, <1>4, <2>1
  <2> QED BY <2>6, <2>7, Zenon
<1>7. DigitsIn(s) = FlattenSeq(ss) /\ DigitsIn(Append(s, x)) = FlattenSeq(tt)
  BY <1>3, <1>5, Zenon DEF DigitsIn
<1>8. ss \in Seq(Seq(Digit)) /\ x.d \in Seq(Digit)
  BY <1>1, <1>2, <1>4, Zenon
<1>9. FlattenSeq(Append(ss, x.d)) = FlattenSeq(ss) \o x.d
  BY <1>8, FlattenAppend, Zenon
<1>10. FlattenSeq(ss) \in Seq(Digit)
  BY <1>8, FlattenElements
<1> QED BY <1>6, <1>7, <1>9, <1>10, Zenon

\* So many digits has one more token in front.
LEMMA DigitsInFront ==
  ASSUME NEW x \in Token, NEW r \in Seq(Token)
  PROVE  Len(DigitsIn(<<x>> \o r)) = Len(x.d) + Len(DigitsIn(r))
<1>0. \A ds \in Seq(Digit) : Len(ds) \in Nat
  <2> HIDE DEF Digit
  <2> QED OBVIOUS
<1>1. << >> \in Seq(Token) /\ <<x>> \in Seq(Token) /\ <<x>> = Append(<< >>, x)
  OBVIOUS
<1>2. DigitsIn(<< >>) = << >>
  <2>1. [k \in DOMAIN << >> |-> << >>[k].d] = << >>
    OBVIOUS
  <2> QED BY <2>1, FlattenNothing, Zenon DEF DigitsIn
<1>3. \A s \in Seq(Token) : \A y \in Token :
        Len(DigitsIn(Append(s, y))) = Len(DigitsIn(s)) + Len(y.d)
  <2> SUFFICES ASSUME NEW s \in Seq(Token), NEW y \in Token
               PROVE  Len(DigitsIn(Append(s, y))) = Len(DigitsIn(s)) + Len(y.d)
    OBVIOUS
  <2>1. DigitsIn(s) \in Seq(Digit) /\ DigitsIn(Append(s, y)) = DigitsIn(s) \o y.d
    BY DigitsAppend
  <2>2. y.d \in Seq(Digit)
    BY TokenDigits
  <2> QED BY <2>1, <2>2, Concatenation
<1>4. Len(x.d) \in Nat /\ \A s \in Seq(Token) : Len(DigitsIn(s)) \in Nat
  <2>1. x.d \in Seq(Digit)
    BY TokenDigits
  <2>2. \A s \in Seq(Token) : DigitsIn(s) \in Seq(Digit)
    BY DigitsAppend
  <2> QED BY <1>0, <2>1, <2>2, Zenon
<1> DEFINE Good(s) == Len(DigitsIn(<<x>> \o s)) = Len(x.d) + Len(DigitsIn(s))
           T == {m \in 0 .. Len(r) : Good(SubSeq(r, 1, m))}
<1>5. 0 \in T
  <2>1. SubSeq(r, 1, 0) = << >> /\ <<x>> \o << >> = <<x>> /\ 0 \in 0 .. Len(r)
    OBVIOUS
  <2>2. Len(DigitsIn(<< >>)) = 0
    BY <1>2
  <2>3. Len(DigitsIn(<<x>>)) = 0 + Len(x.d)
    BY <1>1, <1>3, <2>2, Zenon
  <2>4. 0 + Len(x.d) = Len(x.d) + 0
    BY <1>4
  <2> QED BY <2>1, <2>2, <2>3, <2>4
<1>6. ASSUME NEW m \in 1 .. Len(r), m - 1 \in T PROVE m \in T
  <2>1. PICK u \in Seq(Token), y \in Token : /\ u = SubSeq(r, 1, m - 1)
                                          /\ SubSeq(r, 1, m) = Append(u, y)
    <3>1. SubSeq(r, 1, m - 1) \in Seq(Token) /\ r[m] \in Token
      OBVIOUS
    <3>2. SubSeq(r, 1, m) = Append(SubSeq(r, 1, m - 1), r[m])
      OBVIOUS
    <3> QED BY <3>1, <3>2
  <2>2. <<x>> \o Append(u, y) = Append(<<x>> \o u, y) /\ <<x>> \o u \in Seq(Token)
    OBVIOUS
  <2>3. Len(DigitsIn(<<x>> \o u)) = Len(x.d) + Len(DigitsIn(u))
    BY <1>6, <2>1
  <2>4. Len(DigitsIn(Append(<<x>> \o u, y))) = Len(DigitsIn(<<x>> \o u)) + Len(y.d)
    BY <1>3, <2>2, Zenon
  <2>5. Len(DigitsIn(Append(u, y))) = Len(DigitsIn(u)) + Len(y.d)
    BY <1>3, Zenon
  <2>6. Len(y.d) \in Nat
    BY <1>0, TokenDigits, Zenon
  <2>7. Len(DigitsIn(<<x>> \o Append(u, y))) = Len(x.d) + Len(DigitsIn(Append(u, y)))
    <3>1. PICK a \in Nat, b \in Nat, c \in Nat :
            a = Len(x.d) /\ b = Len(DigitsIn(u)) /\ c = Len(y.d)
      BY <1>4, <2>6, Zenon
    <3>2. (a + b) + c = a + (b + c)
      OBVIOUS
    <3> QED BY <2>2, <2>3, <2>4, <2>5, <3>1, <3>2, Zenon
  <2>8. Good(SubSeq(r, 1, m))
    BY <2>1, <2>7, Zenon
  <2>9. m \in 0 .. Len(r)
    OBVIOUS
  <2> QED BY <2>8, <2>9, Zenon
<1> HIDE DEF T
<1>7. 0 .. Len(r) \subseteq T
  <2>1. Len(r) \in Nat
    OBVIOUS
  <2> QED BY <1>5, <1>6, <2>1, Induction
<1>8. Good(SubSeq(r, 1, Len(r))) /\ SubSeq(r, 1, Len(r)) = r
  <2>1. Len(r) \in 0 .. Len(r) /\ SubSeq(r, 1, Len(r)) = r
    OBVIOUS
  <2> QED BY <1>7, <2>1 DEF T
<1> QED BY <1>8

\* The steps of Thousands: a number below a thousand, and one more group.
Low(n)    == n < 1000
Higher(n) == n \div 1000
First(n)  == <<Run(Decimal[n])>>
LastThree(n) == <<(n \div 100) % 10, (n \div 10) % 10, n % 10>>
Put(t, n) == t \o <<Sym("."), Run(LastThree(n))>>

\* The first group of a printed number is one run.
LEMMA FirstIsText ==
  ASSUME NEW n \in Nat, Low(n)
  PROVE  /\ First(n) \in Seq(Token) /\ Len(First(n)) = 1
         /\ First(n)[1].t = "run" /\ First(n)[1].d = Decimal[n]
<1>1. Decimal[n] \in Seq(Digit) /\ Decimal[n] # << >>
  BY DecimalSteps, DecimalIsShort DEF Low
<1>2. PICK x \in Token : x = Run(Decimal[n]) /\ x.t = "run" /\ x.d = Decimal[n]
  BY <1>1, RunIsToken
<1>3. <<x>> \in Seq(Token) /\ Len(<<x>>) = 1 /\ <<x>>[1] = x
  OBVIOUS
<1> QED BY <1>2, <1>3, Zenon DEF First

\* A further group is a point and a run of three digits.
LEMMA PutIsText ==
  ASSUME NEW n \in Nat, NEW t \in Seq(Token)
  PROVE  \E x, y \in Token : /\ x.t = "." /\ x.d = << >>
                             /\ y.t = "run" /\ y.d = LastThree(n) /\ y.d \in Seq(Digit)
                             /\ Put(t, n) = Append(Append(t, x), y)
<1>1. (n \div 100) % 10 \in Digit /\ (n \div 10) % 10 \in Digit /\ n % 10 \in Digit
  BY DEF Digit
<1>2. LastThree(n) \in Seq(Digit) /\ LastThree(n) # << >>
  <2>1. \A x, y, z \in Digit : <<x, y, z>> \in Seq(Digit) /\ <<x, y, z>> # << >>
    <3> HIDE DEF Digit
    <3> QED OBVIOUS
  <2> QED BY <1>1, <2>1, Zenon DEF LastThree
<1>3. PICK x \in Token : x = Sym(".") /\ x.t = "." /\ x.d = << >>
  <2>1. "." \in Kind /\ "." # "run"
    BY DEF Kind
  <2> QED BY <2>1, SymIsToken
<1>4. PICK y \in Token : y = Run(LastThree(n)) /\ y.t = "run" /\ y.d = LastThree(n)
  BY <1>2, RunIsToken
<1>5. t \o <<x, y>> = Append(Append(t, x), y)
  OBVIOUS
<1> QED BY <1>2, <1>3, <1>4, <1>5, Zenon DEF Put

\* Thousands is the function that its equation describes.
LEMMA ThousandsSteps ==
  /\ Thousands \in [Nat -> Seq(Token)]
  /\ \A n \in Nat : Thousands[n] = IF Low(n) THEN First(n) ELSE Put(Thousands[Higher(n)], n)
<1>1. PICK D : D = Seq(Token)
  OBVIOUS
<1> DEFINE base == [n \in Nat |-> IF Low(n) THEN First(n) ELSE << >>]
           h == [n \in Nat |-> Higher(n)]
           f == [x \in D \X Nat |-> Put(x[1], x[2])]
           P(t) == t = [n \in Nat |-> IF Low(n) THEN First(n) ELSE Put(t[Higher(n)], n)]
<1>2. \A n \in Nat : Low(n) => First(n) \in D
  BY <1>1, FirstIsText, Zenon
<1>3. \A n \in Nat : Higher(n) \in Nat /\ (~Low(n) => Higher(n) \in 0 .. n - 1)
  BY DEF Low, Higher
<1>4. ASSUME NEW n \in Nat, NEW a \in D PROVE Put(a, n) \in D
  <2>1. PICK x \in Token, y \in Token : Put(a, n) = Append(Append(a, x), y)
    BY <1>1, PutIsText
  <2>2. Append(Append(a, x), y) \in Seq(Token)
    BY <1>1
  <2> QED BY <1>1, <2>1, <2>2, Zenon
<1>5. base \in [Nat -> D]
  <2>1. << >> \in D
    BY <1>1
  <2> QED BY <1>2, <2>1
<1>6. f \in [D \X Nat -> D]
  <2>1. ASSUME NEW x \in D \X Nat PROVE Put(x[1], x[2]) \in D
    <3>1. x[1] \in D /\ x[2] \in Nat
      OBVIOUS
    <3> QED BY <1>4, <3>1, Zenon
  <2> QED BY <2>1
<1>7. \A a \in D, n \in Nat : f[<<a, n>>] = Put(a, n)
  OBVIOUS
<1>8. \A n \in Nat : h[n] = Higher(n) /\ (Low(n) => base[n] = First(n))
  OBVIOUS
<1>9. PICK b \in Nat \ {0} : \A n \in Nat : n < b <=> Low(n)
  <2>1. \A n \in Nat : n < 1000 <=> Low(n)
    BY DEF Low
  <2> WITNESS 1000 \in Nat \ {0}
  <2> QED BY <2>1
<1>10. Descends(h, b)
  <2>1. h \in [Nat -> Nat]
    BY <1>3
  <2>2. ASSUME NEW n \in Nat, n >= b PROVE h[n] < n
    <3>1. ~(n < b)
      BY <2>2
    <3>2. Higher(n) \in 0 .. n - 1 /\ h[n] = Higher(n)
      BY <1>3, <1>8, <1>9, <3>1, Zenon
    <3> HIDE DEF h
    <3> QED BY <3>2
  <2> QED BY <2>1, <2>2, Zenon DEF Descends
<1> HIDE DEF base, h, f
<1>11. PICK g : Defined(g, D, b, base, h, f)
  <2>1. base \in Bases(D) /\ f \in FromOne(D)
    BY <1>5, <1>6, Zenon DEF Bases, FromOne
  <2> QED BY <1>10, <2>1, CourseOfValues, Zenon
<1>12. /\ g \in [Nat -> D]
       /\ \A n \in Nat : g[n] = IF n < b THEN base[n] ELSE f[<<g[h[n]], n>>]
  BY <1>11 DEF Defined
<1>13. ASSUME NEW n \in Nat
       PROVE  g[n] = IF Low(n) THEN First(n) ELSE Put(g[Higher(n)], n)
  <2>1. Higher(n) \in Nat /\ g[Higher(n)] \in D
    BY <1>3, <1>12
  <2>2. CASE Low(n)
    BY <1>8, <1>9, <1>12, <2>2, Zenon
  <2>3. CASE ~Low(n)
    <3>1. g[n] = f[<<g[Higher(n)], n>>]
      BY <1>8, <1>9, <1>12, <2>3, Zenon
    <3> QED BY <1>7, <2>1, <2>3, <3>1, Zenon
  <2> QED BY <2>2, <2>3
<1>14. P(g)
  BY <1>12, <1>13
<1>15. P(Thousands)
  <2>1. Thousands = CHOOSE t : P(t)
    BY Zenon DEF Thousands, Low, Higher, First, Put, LastThree
  <2> HIDE DEF P
  <2> QED BY <1>14, <2>1, Zenon
<1>16. PICK t : t = Thousands /\ P(t)
  BY <1>15, Zenon
<1>17. ASSUME NEW n \in Nat PROVE t[n] = IF Low(n) THEN First(n) ELSE Put(t[Higher(n)], n)
  BY <1>16
<1>18. DOMAIN t = Nat /\ t = [n \in Nat |-> t[n]]
  BY <1>16
<1> HIDE DEF P
<1>19. \A n \in Nat : t[n] \in D
  <2> DEFINE T == {n \in Nat : t[n] \in D}
  <2>1. ASSUME NEW n \in Nat, \A k \in 0 .. n - 1 : k \in T PROVE n \in T
    <3>1. CASE Low(n)
      BY <1>2, <1>17, <3>1, Zenon
    <3>2. CASE ~Low(n)
      <4>1. t[Higher(n)] \in D
        BY <1>3, <2>1, <3>2, Zenon
      <4> QED BY <1>4, <1>17, <3>2, <4>1, Zenon
    <3> QED BY <3>1, <3>2
  <2> HIDE DEF T
  <2>2. Nat \subseteq T
    BY <2>1, StrongInduction
  <2> QED BY <2>2 DEF T
<1>20. t \in [Nat -> D]
  BY <1>18, <1>19
<1> QED BY <1>1, <1>16, <1>17, <1>20, Zenon

\* Runs of at most three digits with points between them, which make n.
Points(t, n) ==
  /\ t \in Seq(Token) /\ Len(t) % 2 = 1
  /\ \A q \in 1 .. Len(t) : IF q % 2 = 1 THEN t[q].t = "run" /\ Len(t[q].d) <= 3
                                         ELSE t[q].t = "."
  /\ DigitsIn(t) = Decimal[n]

\* The first group of a printed number has its digits in place,
LEMMA FirstPoints ==
  ASSUME NEW n \in Nat, Low(n)
  PROVE  Points(First(n), n)
<1>1. PICK t \in Seq(Token) : t = First(n) /\ Len(t) = 1 /\ t[1].t = "run" /\ t[1].d = Decimal[n]
  BY FirstIsText
<1>2. Len(t[1].d) <= 3 /\ Decimal[n] \in Seq(Digit)
  BY <1>1, DecimalIsShort, DecimalSteps DEF Low
<1>3. DigitsIn(t) = Decimal[n]
  <2>0. t[1] \in Token
    <3>1. 1 \in 1 .. Len(t)
      BY ONLY <1>1
    <3> QED BY ONLY <1>1, <3>1, ElementOf, Zenon
  <2>1. PICK x \in Token : x = t[1] /\ x.d = Decimal[n]
    BY <1>1, <2>0, Zenon
  <2>2. << >> \in Seq(Token) /\ t = Append(<< >>, x)
    BY <1>1, <2>1
  <2>3. DigitsIn(t) = DigitsIn(<< >>) \o Decimal[n]
    BY <2>1, <2>2, DigitsAppend, Zenon
  <2>4. DigitsIn(<< >>) = << >>
    <3>1. [k \in DOMAIN << >> |-> << >>[k].d] = << >>
      OBVIOUS
    <3> QED BY <3>1, FlattenNothing, Zenon DEF DigitsIn
  <2>5. << >> \o Decimal[n] = Decimal[n]
    <3> HIDE DEF Digit
    <3> QED BY <1>2
  <2> QED BY <2>3, <2>4, <2>5, Zenon
<1>5. Len(t) % 2 = 1
  BY <1>1
<1>6. \A q \in 1 .. Len(t) : q = 1
  BY <1>1
<1>7. \A q \in 1 .. Len(t) : IF q % 2 = 1 THEN t[q].t = "run" /\ Len(t[q].d) <= 3 ELSE t[q].t = "."
  <2>1. 1 % 2 = 1
    OBVIOUS
  <2> QED BY <1>1, <1>2, <1>6, <2>1, Zenon
<1> QED BY <1>1, <1>3, <1>5, <1>7, Zenon DEF Points

\* Three digits more.
LEMMA ThreeMore ==
  ASSUME NEW n \in Nat, ~Low(n)
  PROVE  Decimal[n] = Decimal[Higher(n)] \o LastThree(n)
<1>1. PICK x \in Nat, y \in Nat, z \in Nat :
        x = (n \div 100) % 10 /\ y = (n \div 10) % 10 /\ z = n % 10
  OBVIOUS
<1>2. PICK k \in Nat : k = n \div 10 /\ n >= 10 /\ k >= 100
  BY DEF Low
<1>3. PICK l \in Nat : l = k \div 10 /\ k >= 10 /\ l >= 10 /\ k % 10 = y
  BY <1>1, <1>2
<1>4. PICK m \in Nat : m = l \div 10 /\ m = Higher(n) /\ l % 10 = x
  <2>1. PICK m \in Nat, w \in 0 .. 9 : m = l \div 10 /\ w = l % 10 /\ l = 10 * m + w
    BY <1>3
  <2>2. n = 10 * k + z /\ z \in 0 .. 9 /\ k = 10 * l + y /\ y \in 0 .. 9
    BY <1>1, <1>2, <1>3
  <2>3. n \div 1000 = m
    <3>1. n = 1000 * m + (100 * w + 10 * y + z) /\ 100 * w + 10 * y + z \in 0 .. 999
      BY <2>1, <2>2
    <3> QED BY <3>1
  <2>4. n \div 100 = l
    <3>1. n = 100 * l + (10 * y + z) /\ 10 * y + z \in 0 .. 99
      BY <2>2
    <3> QED BY <3>1
  <2> QED BY <1>1, <2>1, <2>3, <2>4 DEF Higher
<1>5. PICK ds \in Seq(Nat) : ds = Decimal[m]
  BY DecimalSteps, DigitsAreNumbers
<1>6. /\ ~(n < 10) /\ ~(k < 10) /\ ~(l < 10)
  BY <1>2, <1>3
<1>7. Decimal[l] = Append(ds, x)
  BY <1>4, <1>5, <1>6, DecimalSteps, Zenon
<1>8. Decimal[k] = Append(Append(ds, x), y)
  BY <1>3, <1>6, <1>7, DecimalSteps, Zenon
<1>9. Decimal[n] = Append(Append(Append(ds, x), y), z)
  BY <1>1, <1>2, <1>6, <1>8, DecimalSteps, Zenon
<1>10. ds \o <<x, y, z>> = Append(Append(Append(ds, x), y), z)
  OBVIOUS
<1> QED BY <1>1, <1>4, <1>5, <1>9, <1>10, Zenon DEF LastThree

\* a further group keeps them in place,
LEMMA PutPoints ==
  ASSUME NEW n \in Nat, ~Low(n), NEW t, Points(t, Higher(n))
  PROVE  Points(Put(t, n), n)
<1>1. /\ t \in Seq(Token) /\ Len(t) % 2 = 1 /\ DigitsIn(t) = Decimal[Higher(n)]
      /\ \A q \in 1 .. Len(t) : IF q % 2 = 1 THEN t[q].t = "run" /\ Len(t[q].d) <= 3
                                             ELSE t[q].t = "."
  BY DEF Points
<1>2. PICK x \in Token, y \in Token :
        /\ x.t = "." /\ x.d = << >>
        /\ y.t = "run" /\ y.d = LastThree(n) /\ y.d \in Seq(Digit)
        /\ Put(t, n) = Append(Append(t, x), y)
  BY <1>1, PutIsText
<1>3. PICK m \in Nat : m = Len(t)
  BY <1>1
<1>a. PICK u \in Seq(Token) : u = Append(t, x)
  BY <1>1, OneMore, Zenon
<1>b. PICK v \in Seq(Token) : v = Append(u, y)
  BY OneMore, Zenon
<1>4. u = Append(t, x) /\ v = Append(u, y)
  BY <1>a, <1>b
<1>5. /\ Len(v) = m + 2 /\ v[m + 1] = x /\ v[m + 2] = y
      /\ \A q \in 1 .. m : v[q] = t[q]
  <2>1. Len(u) = m + 1 /\ u[m + 1] = x /\ \A q \in 1 .. m : u[q] = t[q]
    BY <1>1, <1>3, <1>4
  <2>2. Len(v) = m + 2 /\ v[m + 2] = y /\ \A q \in 1 .. m + 1 : v[q] = u[q]
    BY <1>4, <2>1
  <2> QED BY <2>1, <2>2
<1>6. m % 2 = 1 /\ (m + 1) % 2 = 0 /\ (m + 2) % 2 = 1
  <2>1. m % 2 = 1
    BY <1>1, <1>3, Zenon
  <2> QED BY ONLY <2>1, m \in Nat
<1>7. Len(y.d) <= 3
  <2>1. \A a, b, c : Len(<<a, b, c>>) = 3
    OBVIOUS
  <2>2. Len(y.d) = 3
    BY <1>2, <2>1, Zenon DEF LastThree
  <2>3. 3 <= 3
    OBVIOUS
  <2> QED BY <2>2, <2>3, Zenon
<1>8. ASSUME NEW q \in 1 .. Len(v)
      PROVE  IF q % 2 = 1 THEN v[q].t = "run" /\ Len(v[q].d) <= 3 ELSE v[q].t = "."
  <2>1. q \in 1 .. m \/ q = m + 1 \/ q = m + 2
    BY <1>5
  <2>2. CASE q \in 1 .. m
    BY <1>1, <1>3, <1>5, <2>2, Zenon
  <2>3. CASE q = m + 1
    <3>1. (m + 1) % 2 # 1
      BY <1>6
    <3> QED BY <1>2, <1>5, <2>3, <3>1, Zenon
  <2>4. CASE q = m + 2
    BY <1>2, <1>5, <1>6, <1>7, <2>4, Zenon
  <2> QED BY <2>1, <2>2, <2>3, <2>4
<1>9. DigitsIn(v) = DigitsIn(t) \o LastThree(n) /\ DigitsIn(t) \in Seq(Digit)
  <2>1. DigitsIn(t) \in Seq(Digit) /\ DigitsIn(u) = DigitsIn(t) \o << >>
    BY <1>1, <1>2, <1>4, DigitsAppend, Zenon
  <2>2. \A a \in Seq(Digit) : a \o << >> = a
    <3> HIDE DEF Digit
    <3> QED OBVIOUS
  <2>3. DigitsIn(v) = DigitsIn(u) \o LastThree(n)
    BY <1>2, <1>4, DigitsAppend, Zenon
  <2> QED BY <2>1, <2>2, <2>3, Zenon
<1>10. DigitsIn(v) = Decimal[n]
  BY <1>1, <1>9, ThreeMore, Zenon
<1>11. Len(v) % 2 = 1
  BY <1>5, <1>6
<1>12. Points(v, n)
  BY <1>8, <1>10, <1>11, Zenon DEF Points
<1> QED BY <1>2, <1>4, <1>12, Zenon

\* and so they are in the whole number.
LEMMA ThousandsPoints ==
  \A n \in Nat : Points(Thousands[n], n)
<1> DEFINE T == {n \in Nat : Points(Thousands[n], n)}
<1>1. ASSUME NEW n \in Nat, \A k \in 0 .. n - 1 : k \in T PROVE n \in T
  <2>1. CASE Low(n)
    BY <2>1, FirstPoints, ThousandsSteps, Zenon
  <2>2. CASE ~Low(n)
    <3>1. Higher(n) \in 0 .. n - 1
      BY <2>2 DEF Low, Higher
    <3>2. Points(Thousands[Higher(n)], Higher(n))
      BY <1>1, <3>1, Zenon
    <3> QED BY <2>2, <3>2, PutPoints, ThousandsSteps, Zenon
  <2> QED BY <2>1, <2>2
<1> HIDE DEF T
<1>2. Nat \subseteq T
  BY <1>1, StrongInduction
<1> QED BY <1>2 DEF T

\* What is printed is one number.
LEMMA PointsAreOneNumber ==
  ASSUME NEW n \in Nat, NEW t, Points(t, n)
  PROVE  OneNumber(t)
<1>1. /\ t \in Seq(Token) /\ Len(t) % 2 = 1
      /\ \A q \in 1 .. Len(t) : IF q % 2 = 1 THEN t[q].t = "run" /\ Len(t[q].d) <= 3
                                             ELSE t[q].t = "."
  BY DEF Points
<1>2. PICK m \in Nat : m = Len(t) /\ DOMAIN t = 1 .. m /\ m % 2 = 1
  BY <1>1
<1> DEFINE runs == {i \in DOMAIN t : IsRun(t, i)}
<1>3. ASSUME NEW q \in 1 .. m PROVE q \in runs <=> q % 2 = 1
  <2>1. q \in runs <=> t[q].t = "run"
    BY <1>2 DEF IsRun
  <2>2. "run" # "."
    OBVIOUS
  <2> HIDE DEF runs
  <2> QED BY <1>1, <1>2, <2>1, <2>2, Zenon
<1>4. 1 \in runs /\ m \in runs
  <2>1. 1 \in 1 .. m /\ m \in 1 .. m /\ 1 % 2 = 1
    BY <1>2
  <2> HIDE DEF runs
  <2> QED BY <1>2, <1>3, <2>1, Zenon
<1>5. \A k \in runs : 1 <= k /\ k <= m
  BY <1>2
<1>6. ASSUME NEW k \in runs PROVE Len(t[k].d) <= 3 /\ (k - 1) % 2 = 0
  <2>1. k \in 1 .. m
    BY <1>2
  <2> HIDE DEF runs
  <2>2. k % 2 = 1
    BY <1>3, <2>1, Zenon
  <2>3. (k - 1) % 2 = 0
    BY ONLY <2>1, <2>2, m \in Nat
  <2> QED BY <1>1, <1>2, <2>1, <2>2, <2>3, Zenon
<1>7. ASSUME NEW k \in (1 .. m) \ runs PROVE t[k].t \in {".", ",", " "} /\ (k - 1) % 2 = 1
  <2> HIDE DEF runs
  <2>1. k \in 1 .. m /\ k % 2 # 1
    BY <1>3, Zenon
  <2>2. (k - 1) % 2 = 1
    BY ONLY <2>1, m \in Nat
  <2>3. t[k].t = "."
    BY <1>1, <1>2, <2>1, Zenon
  <2> QED BY <2>2, <2>3, Zenon
<1> HIDE DEF runs
<1>8. \E i, j \in runs :
        /\ \A k \in runs : i <= k /\ k <= j
        /\ i = 1 \/ t[i - 1].t \notin {".", ","}
        /\ \/ /\ \A k \in runs : Len(t[k].d) <= 3 /\ (k - i) % 2 = 0
              /\ \A k \in (i .. j) \ runs : t[k].t \in {".", ",", " "} /\ (k - i) % 2 = 1
           \/ i = j
           \/ j = i + 2 /\ t[i + 1].t \in {".", ","} /\ Len(t[j].d) = 2
  BY ONLY <1>4, <1>5, <1>6, <1>7, Zenon
<1> QED BY <1>8, Zenon DEF OneNumber, runs

\* A minus that is not before digits is not read.
LEMMA NoMinus ==
  ASSUME NEW s \in Seq(Token), parse_money(s) # << >>,
         \A k \in DOMAIN s : k # 1 /\ s[k].t = "run" => s[k - 1].t # "-"
  PROVE  parse_money(s)[1] \in Nat
<1>1. Reach(s) # {} /\ Reach(s) \subseteq Nat /\ Reach(s) \subseteq DOMAIN s
  <2>1. Reach(s) # {}
    BY ParseReads
  <2> QED BY <2>1 DEF Reach
<1>2. PICK i \in Reach(s) : \A k \in Reach(s) : i <= k
  BY <1>1, Least
<1>3. PICK a \in Nat : a = Amount(s, i)
  BY <1>1, AmountIsNat
<1>4. i = 1 \/ s[i - 1].t # "-"
  <2>1. i \in DOMAIN s /\ s[i].t = "run"
    BY DEF Reach, MatchesFrom, IsRun
  <2> QED BY <2>1, Zenon
<1>5. parse_money(s) = <<a>>
  BY <1>2, <1>3, <1>4, ParseReads, Zenon
<1> QED BY <1>5

\* The sign and the currency, before the number.
Printed(amount) == (IF amount < 0 THEN <<Sym("-")>> ELSE << >>) \o <<Sym("x"), Sym(" ")>>

\* What format_money prints before the number holds no digit and no point.
LEMMA PrintedParts ==
  ASSUME NEW amount \in Int
  PROVE  /\ Printed(amount) \in Seq(Token)
         /\ Len(Printed(amount)) \in {2, 3}
         /\ \A k \in 1 .. Len(Printed(amount)) : Printed(amount)[k].t \in {"-", "x", " "}
         /\ Printed(amount)[Len(Printed(amount))].t = " "
<1>1. PICK a \in Token : a = Sym("-") /\ a.t = "-"
  <2>1. "-" \in Kind /\ "-" # "run"
    BY DEF Kind
  <2> QED BY <2>1, SymIsToken
<1>2. PICK b \in Token : b = Sym("x") /\ b.t = "x"
  <2>1. "x" \in Kind /\ "x" # "run"
    BY DEF Kind
  <2> QED BY <2>1, SymIsToken
<1>3. PICK c \in Token : c = Sym(" ") /\ c.t = " "
  <2>1. " " \in Kind /\ " " # "run"
    BY DEF Kind
  <2> QED BY <2>1, SymIsToken
<1>4. PICK w : w = Printed(amount)
  OBVIOUS
<1>5. PICK p \in Seq(Token) : p = IF amount < 0 THEN <<Sym("-")>> ELSE << >>
  <2>1. <<a>> \in Seq(Token) /\ << >> \in Seq(Token)
    OBVIOUS
  <2> QED BY <1>1, <2>1, Zenon
<1>a. PICK l \in {0, 1} : l = Len(p) /\ (l = 1 => p[1] = a)
  <2>1. Len(<<a>>) = 1 /\ Len(<< >>) = 0 /\ <<a>>[1] = a /\ 0 # 1
    OBVIOUS
  <2> QED BY <1>1, <1>5, <2>1, Zenon
<1>b. PICK r \in Seq(Token) : r = <<b, c>> /\ Len(r) = 2 /\ r[1] = b /\ r[2] = c
  <2>1. <<b, c>> \in Seq(Token) /\ Len(<<b, c>>) = 2 /\ <<b, c>>[1] = b /\ <<b, c>>[2] = c
    OBVIOUS
  <2> QED BY <2>1, Zenon
<1>c. w = p \o r
  BY <1>2, <1>3, <1>4, <1>5, <1>b, Zenon DEF Printed
<1>d. /\ w \in Seq(Token) /\ Len(w) = l + 2
      /\ \A i \in 1 .. l : w[i] = p[i]
      /\ \A i \in 1 .. 2 : w[l + i] = r[i]
  <2>1. w \in Seq(Token) /\ Len(w) = Len(p) + Len(r)
    BY <1>c, Concatenation, Zenon
  <2>2. /\ \A i \in 1 .. Len(p) : (p \o r)[i] = p[i]
        /\ \A i \in 1 .. Len(r) : (p \o r)[Len(p) + i] = r[i]
    BY ConcatPlaces
  <2>3. Len(p) = l /\ Len(r) = 2
    BY <1>a, <1>b
  <2> QED BY ONLY <1>c, <2>1, <2>2, <2>3, Zenon
<1>6. w \in Seq(Token) /\ Len(w) \in {2, 3} /\ w[Len(w)] = c
  <2>1. l + 2 \in {2, 3} /\ 2 \in 1 .. 2
    OBVIOUS
  <2> QED BY <1>b, <1>d, <2>1, Zenon
<1>7. \A k \in 1 .. Len(w) : w[k] = a \/ w[k] = b \/ w[k] = c
  <2> SUFFICES ASSUME NEW k \in 1 .. l + 2 PROVE w[k] = a \/ w[k] = b \/ w[k] = c
    BY <1>d, Zenon
  <2>1. (l = 1 /\ k = 1) \/ k = l + 1 \/ k = l + 2
    OBVIOUS
  <2>2. 1 \in 1 .. 2 /\ 2 \in 1 .. 2 /\ 1 \in 1 .. 1
    OBVIOUS
  <2>3. CASE l = 1 /\ k = 1
    BY <1>a, <1>d, <2>2, <2>3, Zenon
  <2>4. CASE k = l + 1 \/ k = l + 2
    BY <1>b, <1>d, <2>2, <2>4, Zenon
  <2> QED BY <2>1, <2>3, <2>4
<1> QED BY <1>1, <1>2, <1>3, <1>4, <1>6, <1>7, Zenon

\* Whatever the amount, parse_money reads in what format_money prints all of
\* its digits, and never its sign; the digits are as many as int() takes.
THEOREM FormatIsRead ==
  \A amount \in Int : Len(Decimal[Magnitude(amount)]) <= MaxDigits =>
    parse_money(format_money(amount)) = <<Magnitude(amount)>>
<1> SUFFICES ASSUME NEW amount \in Int, Len(Decimal[Magnitude(amount)]) <= MaxDigits
             PROVE  parse_money(format_money(amount)) = <<Magnitude(amount)>>
  OBVIOUS
<1>1. PICK n \in Nat : n = Magnitude(amount)
  BY DEF Magnitude
<1>2. PICK t : t = Thousands[n] /\ Points(t, n)
  BY ThousandsPoints, Zenon
<1>3. PICK w \in Seq(Token) : w = Printed(amount)
  BY PrintedParts
<1>4. /\ Len(w) \in {2, 3} /\ w[Len(w)].t = " "
      /\ \A k \in 1 .. Len(w) : w[k].t \in {"-", "x", " "}
  BY <1>3, PrintedParts, Zenon
<1>5. t \in Seq(Token)
  BY <1>2 DEF Points
<1>6. PICK s \in Seq(Token) : s = w \o t
  BY <1>5, Concatenation, Zenon
<1>7. format_money(amount) = s
  BY <1>1, <1>2, <1>3, <1>6, Zenon DEF format_money, Printed
<1>8. PICK a \in Nat, m \in Nat : a = Len(w) /\ m = Len(t)
  BY <1>5
<1>9. /\ Len(s) = a + m /\ DOMAIN s = 1 .. a + m
      /\ \A k \in 1 .. a : s[k] = w[k]
      /\ \A k \in 1 .. m : s[a + k] = t[k]
  <2>1. /\ DOMAIN (w \o t) = 1 .. a + m
        /\ \A k \in 1 .. a : (w \o t)[k] = w[k]
        /\ \A k \in 1 .. m : (w \o t)[a + k] = t[k]
    <3>1. /\ DOMAIN (w \o t) = 1 .. Len(w) + Len(t)
          /\ \A k \in 1 .. Len(w) : (w \o t)[k] = w[k]
          /\ \A k \in 1 .. Len(t) : (w \o t)[Len(w) + k] = t[k]
      BY <1>5, ConcatPlaces
    <3> QED BY ONLY <1>8, <3>1, Zenon
  <2>2. Len(w \o t) = a + m
    BY <1>5, <1>8, Concatenation, Zenon
  <2> QED BY <1>6, <2>1, <2>2, Zenon
<1>10. Rest(t, a, s)
  <2>1. \A k \in 1 .. a : s[k].t \in Skipped
    BY <1>4, <1>8, <1>9 DEF Skipped
  <2>2. a + Len(t) <= Len(s) /\ a + Len(t) = Len(s)
    BY <1>8, <1>9
  <2> QED BY <1>5, <1>8, <1>9, <2>1, <2>2, Zenon DEF Rest, Within
<1>11. parse_money(t) # << >> /\ Magnitude(parse_money(t)[1]) = n
  <2>1. DigitsIn(t) = Decimal[n] /\ OneNumber(t)
    BY <1>2, PointsAreOneNumber, Zenon DEF Points
  <2>2. ~(Len(DigitsIn(t)) > MaxDigits)
    <3>1. Len(Decimal[n]) \in Nat
      <4>1. Decimal[n] \in Seq(Digit)
        BY DecimalSteps
      <4> HIDE DEF Digit
      <4> QED BY <4>1
    <3> QED BY <1>1, <2>1, <3>1, MaxDigitsAssumption
  <2>3. Value(DigitsIn(t)) = n
    BY <2>1, DecimalValue, Zenon
  <2> QED BY <1>5, <2>1, <2>2, <2>3, NoDigitIsLost, Zenon
<1>12. PICK r : r = parse_money(s) /\ r # << >> /\ Magnitude(r[1]) = n
  BY <1>10, <1>11, Dropped, Zenon
<1>13. ASSUME NEW k \in DOMAIN s, k # 1, s[k].t = "run" PROVE s[k - 1].t # "-"
  <2>1. k \in 1 .. a + m
    BY <1>9
  <2>2. ~(k \in 1 .. a)
    BY <1>4, <1>8, <1>9, <1>13
  <2>3. CASE k = a + 1
    <3>0. a \in {2, 3}
      BY <1>4, <1>8, Zenon
    <3>1. a \in 1 .. a /\ k - 1 = a
      BY <2>3, <3>0
    <3>2. s[k - 1].t = " "
      BY <1>4, <1>8, <1>9, <3>1, Zenon
    <3> QED BY <3>2
  <2>4. CASE k # a + 1
    <3>1. PICK q \in 1 .. m : k - 1 = a + q
      <4>1. k - 1 - a \in 1 .. m /\ k - 1 = a + (k - 1 - a)
        BY <2>1, <2>2, <2>4
      <4> QED BY <4>1
    <3>2. s[k - 1] = t[q]
      BY <1>9, <3>1, Zenon
    <3>3. t[q].t = "run" \/ t[q].t = "."
      BY <1>2, <1>8, Zenon DEF Points
    <3> QED BY <3>2, <3>3
  <2> QED BY <2>3, <2>4
<1>14. r[1] \in Nat
  BY <1>12, <1>13, NoMinus, Zenon
<1>15. r[1] = n
  BY <1>12, <1>14 DEF Magnitude
<1>16. r = <<n>>
  <2>1. PICK x : r = <<x>>
    BY <1>12, ParseIsInt, Zenon
  <2> QED BY <1>15, <2>1
<1> QED BY <1>1, <1>7, <1>12, <1>16, Zenon

=============================================================================
