------------------------- MODULE MCFieldExtraction -------------------------
(***************************************************************************)
(* FieldExtraction on four families of files: one line with many numbers;  *)
(* one line with a box out of range; three lines in many layouts; and      *)
(* files of two pages, with a text layer or as scans, whose lists are cut  *)
(* short or hold noise.                                                    *)
(***************************************************************************)
EXTENDS FieldExtraction

MCGrid      == 3
MCMaxScore  == 30
MCMaxAmount == 655
MCMaxInt    == 40
MCMaxDigits == 8

\* "subtotal" holds "total"; "TOTAL:" alone is close to "subtotal"; "misread"
\* is a total that the fuzzy match recognises and str.find does not.  "total due"
\* goes on behind the label; "subtot" has the six characters that are looked
\* for, and not the two that are cut with them.
MCSimilar == {<<"total", "total">>, <<"total", "subtotal">>, <<"total", "misread">>,
              <<"total", "total due">>, <<"subtotal", "subtotal">>, <<"subtotal", "total">>,
              <<"subtotal", "subtot">>}
MCOver == [match \in {<<"total", "total">>, <<"total", "subtotal">>, <<"subtotal", "subtotal">>,
                      <<"total", "total due">>, <<"subtotal", "subtot">>} |->
             CASE match[2] = "total due" -> -4
               [] match[2] = "subtot"    -> 2
               [] OTHER                  -> 0]

-----------------------------------------------------------------------------
(* Schemas *)

NoMatcher == [labels |-> << >>, pattern |-> NoPattern, near_right |-> FALSE,
             x_min_ratio |-> << >>, max_top_n |-> << >>]
With(r, s) == [x \in DOMAIN r \cup DOMAIN s |-> IF x \in DOMAIN s THEN s[x] ELSE r[x]]

Label(ls, near) == With(NoMatcher, [kind |-> "label", labels |-> ls, near_right |-> near])
Regex(c, g)     == With(NoMatcher, [kind |-> "regex", pattern |-> [caption |-> c, group |-> g]])
Top(n)          == With(NoMatcher, [kind |-> "positional", max_top_n |-> <<n>>])
FromX(percent)  == With(NoMatcher, [kind |-> "positional", x_min_ratio |-> <<percent>>])

Field(type, required, matchers) ==
  [type |-> type, required |-> required, threshold |-> 24, matchers |-> matchers]

\* receipt.yaml in small, and one with the other forms of matchers.
Receipt ==
  <<Field("text", FALSE, <<Top(1), Regex("toko", "all")>>),
    Field("money", TRUE, <<Label(<<"total">>, TRUE), Regex("total", "unset")>>),
    Field("money", FALSE, <<Label(<<"subtotal", "total">>, TRUE)>>)>>
Other ==
  <<Field("date", FALSE, <<Regex("none", "after")>>),
    Field("money", FALSE, <<Label(<<"total">>, FALSE), Regex("subtotal", "after")>>),
    Field("money", TRUE, <<FromX(50)>>)>>

MCSchemas == {Receipt, Other}

-----------------------------------------------------------------------------
(* Files *)

Written(c, tail) == [caption |-> c, tail |-> tail]

Digits == {<<5>>, <<0, 7>>, <<8, 0, 0>>, <<1, 2, 3, 4>>}
Runs   == {Run(ds) : ds \in Digits}
Seps   == {Sym(c) : c \in {".", ",", " "}}
Marks  == {Sym(c) : c \in {".", ",", " ", "-", "rp", "x"}}

NoRunsMeet(s)   == \A i \in 1 .. Len(s) - 1 : ~(s[i].t = "run" /\ s[i + 1].t = "run")
NoBlanksMeet(s) == \A i \in 1 .. Len(s) - 1 : ~(s[i].t = " " /\ s[i + 1].t = " ")

\* A blank at either end would have been stripped.
Numbers ==
  {s \in UNION {[1 .. n -> Runs \cup Marks] : n \in 1 .. 3} :
     NoRunsMeet(s) /\ NoBlanksMeet(s) /\ s[1].t # " " /\ s[Len(s)].t # " "}
  \cup {<<a, x, b, y, c>> : a, b, c \in Runs, x, y \in Seps}

Captions == {"none", "total", "misread", "total due", "subtot"}

Given(texts, scores, boxes) ==
  [rec_texts |-> texts, rec_scores |-> scores, rec_boxes |-> boxes, blocks |-> << >>]
Image(page) == [pdf |-> FALSE, pages |-> <<page>>]

OneLine == {Image(Given(<<Written(c, s)>>, <<25>>, << <<0, 0, 9, 9>> >>)) :
              c \in Captions, s \in Numbers}

\* Rows and columns that touch, overlap or not, and a box that is missing.
Boxes == {<<0, 0, 9, 9>>, <<10, 3, 19, 12>>, <<20, 0, 29, 9>>, <<10, 10, 19, 19>>, << >>}
Small == {Written("none", <<Run(<<5>>)>>), Written("none", <<Sym("-"), Run(<<8, 0, 0>>)>>)}
Three == {Image(Given(<<l, s, u>>, <<x, 28, 23>>, <<a, b, c>>)) :
            l \in {Written("total", << >>), Written("subtotal", <<Sym(":"), Run(<<5>>)>>)},
            s \in Small, u \in Small \cup {Written("total", <<Sym("-"), Run(<<1, 2, 3, 4>>)>>)},
            x \in {23, 30}, a, b, c \in Boxes}

\* A box beyond the integers of the contract.
Far == {Image(Given(<<Written("total", <<Sym(" "), Run(<<5>>)>>)>>, <<25>>, <<b>>)) :
          b \in {<<0, 0, 41, 9>>, <<-42, 0, 9, 9>>, <<-41, 0, 40, 9>>}}

Noise == {Written("none", <<Sym(" ")>>), Written("none", <<Sym("glyph")>>),
          Written("none", <<Sym("date")>>), Written("toko", << >>)}
Paragraph(t) == [text |-> t, box |-> <<0, 0, 9, 9>>]
Layer(ts) == [rec_texts |-> ts, rec_scores |-> <<30, 0, 26>>,
              rec_boxes |-> << <<0, 0, 9, 9>>, <<10, 0, 19, 9>> >>,
              blocks |-> [i \in DOMAIN ts |-> Paragraph(ts[i])]]
Bare(p)   == [p EXCEPT !.blocks = << >>]

TwoPages ==
  LET pages == {Layer(<<n, Written("total", << >>), s>>) : n \in Noise, s \in Small}
                 \cup {Layer(<<n, s>>) : n \in Noise, s \in Small}
  IN  {[pdf |-> TRUE, pages |-> <<p, q>>] : p, q \in pages}
        \cup {[pdf |-> TRUE, pages |-> <<p, Bare(q)>>] : p, q \in pages}
        \cup {[pdf |-> FALSE, pages |-> <<p, q>>] : p, q \in pages}

MCFiles == OneLine \cup Three \cup Far \cup TwoPages

=============================================================================
