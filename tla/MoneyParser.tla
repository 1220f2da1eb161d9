---------------------------- MODULE MoneyParser ----------------------------
(***************************************************************************)
(* extraction/money.py: the amount in a text, and an amount as a text.     *)
(*                                                                         *)
(* A text is a sequence of tokens, each a maximal run of digits or one     *)
(* character; "rp" is the two letters of the currency and "x" any stretch  *)
(* of characters the expression does not name.  Blanks come one at a time. *)
(* Runs being maximal, the (?![0-9]) that ends the expression only says    *)
(* that a run is taken whole or not at all, which leaves few of the ways   *)
(* to backtrack.                                                           *)
(***************************************************************************)
EXTENDS Integers, Sequences, SequencesExt

CONSTANT MaxDigits  \* int() takes no more: 4300, sys.set_int_max_str_digits

ASSUME MaxDigitsAssumption == MaxDigits \in Nat \ {0}

Kind  == {"run", ".", ",", " ", "-", "+", ":", "=", "rp", "x", "glyph", "date"}
Token == {x \in [t : Kind, d : Seq(0 .. 9)] : (x.t = "run") <=> (x.d # << >>)}

Run(ds) == [t |-> "run", d |-> ds]
Sym(c)  == [t |-> c, d |-> << >>]

Kinds(s)    == [i \in DOMAIN s |-> s[i].t]
IsRun(s, i) == i \in DOMAIN s /\ s[i].t = "run"
Value(ds)   ==
  LET v[k \in 0 .. Len(ds)] == IF k = 0 THEN 0 ELSE 10 * v[k - 1] + ds[k] IN v[Len(ds)]

\* The digits of the runs of s, side by side.
DigitsIn(s) == FlattenSeq([i \in DOMAIN s |-> s[i].d])

-----------------------------------------------------------------------------
(* _MONEY_RE *)

\* Mutant of Separator: no blank between groups.
SeparatorNoBlank == {".", ","}

Separator == {".", ",", " "}

\* \s*(?:rp\.?\s*)?([-+]?), what may stand before the digits.
Blanks   == {<< >>, <<" ">>}
Currency == {<< >>, <<"rp">>, <<"rp", ".">>, <<"rp", " ">>, <<"rp", ".", " ">>}
Sign     == {<< >>, <<"-">>, <<"+">>}
Lead     == {(b \o c) \o g : b \in Blanks, c \in Currency, g \in Sign}

\* The expression may match from p, with the run at i as its first digits.
MatchesFrom(s, p, i) ==
  /\ IsRun(s, i) /\ p <= i
  /\ Kinds(SubSeq(s, p, i - 1)) \in Lead
  /\ p = 1 \/ s[p - 1].t \notin {"run", ".", ","}

\* \d{1,3}(?:[.,\s]\d{1,3})*, from the run at i to the one at j.
Grouped(s, i, j) ==
  /\ (j - i) % 2 = 0
  /\ \A q \in i .. j : IF (q - i) % 2 = 0 THEN IsRun(s, q) /\ Len(s[q].d) <= 3
                                          ELSE s[q].t \in Separator

\* Where the digits that start at i end: at the last of several groups; else
\* at two decimals after a run of any length; else with the run.
DigitsEnd(s, i) ==
  IF \E j \in i + 1 .. Len(s) : Grouped(s, i, j)
  THEN CHOOSE j \in i + 1 .. Len(s) :
         Grouped(s, i, j) /\ \A k \in j + 1 .. Len(s) : ~Grouped(s, i, k)
  ELSE IF IsRun(s, i + 2) /\ s[i + 1].t \in {".", ","} /\ Len(s[i + 2].d) = 2
       THEN i + 2 ELSE i

\* Mutant of parse_money: a number without decimals is scaled to hundredths.
ParseHundredths(s) ==
  LET starts == {p \in DOMAIN s : \E i \in DOMAIN s : MatchesFrom(s, p, i)}
      p == CHOOSE q \in starts : \A r \in starts : q <= r
      i == CHOOSE k \in DOMAIN s : MatchesFrom(s, p, k)
      ds == DigitsIn(SubSeq(s, i, DigitsEnd(s, i)))
      n == Value(ds)
  IN  IF starts = {} \/ Len(ds) > MaxDigits THEN << >>
      ELSE <<(IF i > p /\ s[i - 1].t = "-" THEN -1 ELSE 1) *
             (IF DigitsEnd(s, i) = i THEN 100 * n ELSE n)>>

\* The leftmost match: all its digits as one number, decimals or not (the two
\* branches of the code are the same), and its sign; nothing if int() raises
\* ValueError.
parse_money(s) ==
  LET starts == {p \in DOMAIN s : \E i \in DOMAIN s : MatchesFrom(s, p, i)}
      p == CHOOSE q \in starts : \A r \in starts : q <= r
      i == CHOOSE k \in DOMAIN s : MatchesFrom(s, p, k)
      ds == DigitsIn(SubSeq(s, i, DigitsEnd(s, i)))
      n == Value(ds)
  IN  IF starts = {} \/ Len(ds) > MaxDigits THEN << >>
      ELSE <<IF i > p /\ s[i - 1].t = "-" THEN -n ELSE n>>

-----------------------------------------------------------------------------
(* format_money *)

Magnitude(n) == IF n < 0 THEN -n ELSE n

Decimal[n \in Nat] == IF n < 10 THEN <<n>> ELSE Append(Decimal[n \div 10], n % 10)

\* {abs(amount):,} with its commas turned into points.
Thousands[n \in Nat] ==
  IF n < 1000 THEN <<Run(Decimal[n])>>
  ELSE Thousands[n \div 1000] \o
       <<Sym("."), Run(<<(n \div 100) % 10, (n \div 10) % 10, n % 10>>)>>

\* Mutant of format_money: the groups are not padded with zeros.
FormatUnpadded(amount) ==
  LET n == Magnitude(amount)
  IN  (IF amount < 0 THEN <<Sym("-")>> ELSE << >>) \o <<Sym("x"), Sym(" ")>> \o
      (IF n < 1000 THEN <<Run(Decimal[n])>>
       ELSE <<Run(Decimal[n \div 1000]), Sym("."), Run(Decimal[n % 1000])>>)

\* The sign, the currency, the number.  (Of more than MaxDigits digits it
\* raises; no amount that parse_money reads has as many.)
format_money(amount) ==
  (IF amount < 0 THEN <<Sym("-")>> ELSE << >>) \o
  <<Sym("x"), Sym(" ")>> \o Thousands[Magnitude(amount)]

-----------------------------------------------------------------------------
(* The reference: the numbers that are read whole *)

\* All the runs of s stand in one number, which has no stray separator before
\* it, and whose groups have at most three digits; or which is one run, with
\* two decimals or without.  The docstring's "every other separator is
\* grouping" covers more, such as 1234.567 and 27,8001, of which the expression
\* takes 1234 and 27.
OneNumber(s) ==
  LET runs == {i \in DOMAIN s : IsRun(s, i)}
  IN  \E i, j \in runs :
        /\ \A k \in runs : i <= k /\ k <= j
        /\ i = 1 \/ s[i - 1].t \notin {".", ","}
        /\ \/ /\ \A k \in runs : Len(s[k].d) <= 3 /\ (k - i) % 2 = 0
              /\ \A k \in (i .. j) \ runs : s[k].t \in {".", ",", " "} /\ (k - i) % 2 = 1
           \/ i = j
           \/ j = i + 2 /\ s[i + 1].t \in {".", ","} /\ Len(s[j].d) = 2

=============================================================================
