-------------------------- MODULE FieldExtraction --------------------------
(***************************************************************************)
(* From the pages of a file to the fields a client reads: the lines of a   *)
(* text layer (pipeline/inspect_file.py) or of Baidu's answers             *)
(* (ocr/baidu.py), the matchers of a schema (extraction/extract.py,        *)
(* extraction/schema.py), the result and its status                        *)
(* (extraction/validate.py), and the answer of GetDocument                 *)
(* (api/servicer.py).  The stages follow one another on one file; what     *)
(* varies is the file and the schema.                                      *)
(*                                                                         *)
(* A text is a caption, words that a label may match, and the tokens of    *)
(* MoneyParser that follow it.  External: rapidfuzz, dateparser and the    *)
(* regular expressions of a schema, each seen by what it finds in a text.  *)
(* Scores and thresholds are integers, Grid of them to the fourth decimal  *)
(* that a result keeps.                                                    *)
(***************************************************************************)
EXTENDS MoneyParser, FiniteSets

CONSTANTS
  Files,      \* files that have passed the inspection, as they will be read
  Schemas,    \* schemas that load_schemas accepted
  Similar,    \* pairs <<label, caption>> with partial_ratio above the minimum
  Over,       \* by pair <<label, caption>> whose caption holds the label's first six
              \* characters: how many more the label has than the caption from there
  Grid,
  MaxScore,   \* the score 1.0
  MaxAmount,  \* largest amount of the contract, an int64
  MaxInt      \* largest coordinate and page, int32

VARIABLES
  stage,     \* what has been done
  file, schema,
  lines,     \* list[Line]
  fields,    \* list[ExtractedField]
  result,    \* what finish_document stores
  response   \* what GetDocument answers

vars == <<stage, file, schema, lines, fields, result, response>>

-----------------------------------------------------------------------------
(* schema.py: Matcher._validate and _parse_schema *)

NoPattern == [caption |-> "none", group |-> "none"]

Matcher ==
  [kind : {"label", "regex", "positional"}, labels : Seq(STRING),
   pattern : {NoPattern} \cup [caption : STRING, group : {"after", "unset", "all"}],
   near_right : BOOLEAN, x_min_ratio : Seq(Int), max_top_n : Seq(Int)]

FieldSchema ==
  [type : {"money", "text", "date"}, required : BOOLEAN, threshold : 0 .. MaxScore,
   matchers : Seq(Matcher)]

ValidMatcher(m) ==
  /\ m.kind = "label" => m.labels # << >>
  /\ m.kind = "regex" => m.pattern # NoPattern
  /\ m.kind = "positional" => m.x_min_ratio # << >> \/ m.max_top_n # << >>

ValidSchema(s) ==
  /\ s \in Seq(FieldSchema) /\ s # << >>
  /\ \A i \in DOMAIN s :
       /\ s[i].matchers # << >>
       /\ \A k \in DOMAIN s[i].matchers : ValidMatcher(s[i].matchers[k])

ASSUME SchemaAssumption == \A s \in Schemas : ValidSchema(s)
ASSUME ScaleAssumption ==
  Grid \in Nat \ {0} /\ MaxScore \in Nat \ {0} /\ MaxAmount \in Nat /\ MaxInt \in Nat

-----------------------------------------------------------------------------
(* What a file holds: of each page, the lists of the provider's answer and *)
(* the blocks of the text layer, one of which may be missing.              *)

Text  == [caption : STRING, tail : Seq(Token)]
Block == [text : Text, box : Seq(Int)]
Page  == [rec_texts : Seq(Text), rec_scores : Seq(Int), rec_boxes : Seq(Seq(Int)),
          blocks : Seq(Block)]

\* No score is above 1.0, and a label has no likeness to a text without words.
ASSUME FilesAssumption ==
  /\ Files \subseteq [pdf : BOOLEAN, pages : Seq(Page)]
  /\ \A f \in Files : \A m \in DOMAIN f.pages : \A k \in DOMAIN f.pages[m].rec_scores :
       f.pages[m].rec_scores[k] <= MaxScore
ASSUME WordsAssumption ==
  /\ \A match \in Similar \cup DOMAIN Over : match[2] # "none"
  /\ \A match \in DOMAIN Over : Over[match] \in Int

-----------------------------------------------------------------------------
(* Lines.  from is a history: the page and the place the line came from. *)

Blank(t)  == t.caption = "none" /\ \A i \in DOMAIN t.tail : t.tail[i].t = " "
Glyph(t)  == t.caption = "none" /\ Kinds(t.tail) = <<"glyph">>
Box(b)    == IF Len(b) >= 4 THEN [x1 |-> b[1], y1 |-> b[2], x2 |-> b[3], y2 |-> b[4]]
                            ELSE [x1 |-> 0, y1 |-> 0, x2 |-> 0, y2 |-> 0]
Line(t, score, b, page, from) ==
  [text |-> t, score |-> score, bbox |-> Box(b), page |-> page, from |-> from]

Shortest(p) == Min({Len(p.rec_texts), Len(p.rec_scores), Len(p.rec_boxes)})

\* The elements of s that pass a test, in order.
Passing(s, Test(_)) == FlattenSeq([k \in DOMAIN s |-> IF Test(s[k]) THEN <<s[k]>> ELSE << >>])

\* zip(texts, scores, boxes, strict=False), for page n of a response.
Zipped(p, n, m) ==
  [k \in 1 .. Shortest(p) |->
     Line(p.rec_texts[k], p.rec_scores[k], p.rec_boxes[k], n, <<m, k>>)]

Kept(l) == ~Blank(l.text) /\ l.score > 0 /\ ~Glyph(l.text)

\* Mutants of normalize_layout_parsing: texts are filtered before the zip;
\* enumerate starts from zero.
NormalizeFilteredTexts(pages, first) ==
  FlattenSeq([n \in DOMAIN pages |->
    LET p    == pages[n]
        kept == Passing([k \in 1 .. Shortest(p) |-> k], LAMBDA k : ~Blank(p.rec_texts[k]))
    IN  [k \in DOMAIN kept |->
           Line(p.rec_texts[kept[k]], p.rec_scores[k], p.rec_boxes[k], n, <<first + n, kept[k]>>)]])
NormalizeFromZero(pages, first) ==
  FlattenSeq([n \in DOMAIN pages |-> Passing(Zipped(pages[n], n - 1, first + n), Kept)])

\* Pages are numbered within one response (first, history: the pages of the
\* file that precede it).
normalize_layout_parsing(pages, first) ==
  FlattenSeq([n \in DOMAIN pages |-> Passing(Zipped(pages[n], n, first + n), Kept)])

\* _ocr_lines: one request per page of a PDF, one for an image.
ocr_lines(f) ==
  IF f.pdf THEN FlattenSeq([m \in DOMAIN f.pages |->
                              normalize_layout_parsing(<<f.pages[m]>>, m - 1)])
           ELSE normalize_layout_parsing(f.pages, 0)

TextBlocks(p) == Passing(p.blocks, LAMBDA b : ~Blank(b.text))

\* The lines of the text layer, page[m] being the number given to page m; none
\* when the file is no PDF, or has a page without text.
LayerLines(f, page) ==
  IF f.pdf /\ \A m \in DOMAIN f.pages : TextBlocks(f.pages[m]) # << >>
  THEN FlattenSeq([m \in DOMAIN f.pages |->
         LET bs == TextBlocks(f.pages[m])
         IN  [k \in DOMAIN bs |-> Line(bs[k].text, MaxScore, bs[k].box, page[m], <<m, k>>)]])
  ELSE << >>

\* Mutant of digitalborn_lines: every block is on page 1.
DigitalbornOnePage(f) == LayerLines(f, [m \in DOMAIN f.pages |-> 1])

digitalborn_lines(f) == LayerLines(f, [m \in DOMAIN f.pages |-> m])

-----------------------------------------------------------------------------
(* extract.py.  An option is a sequence of at most one element. *)

FirstOf(options) ==
  LET i == SelectInSeq(options, LAMBDA o : o # << >>)
  IN  IF i = 0 THEN << >> ELSE options[i]

\* dateparser: a text that is a date and nothing else.
parse_date(t) == IF t.caption = "none" /\ Kinds(t.tail) = <<"date">> THEN <<t>> ELSE << >>

\* The caption of a text is words to the money parser.
Tokens(t) == (IF t.caption = "none" THEN << >> ELSE <<Sym("x")>>) \o t.tail

parse_typed(type, t) ==
  IF Blank(t) THEN << >>
  ELSE CASE type = "money" -> parse_money(Tokens(t))
         [] type = "date"  -> parse_date(t)
         [] type = "text"  -> <<t>>

\* The text t, found on line l, as the value of a field.
Read(f, t, l) ==
  LET v == parse_typed(f.type, t)
  IN  IF v = << >> THEN << >> ELSE <<[value |-> v[1], line |-> l]>>

\* s without its first character, which may be a digit of a run.
CutOne(s) ==
  IF s = << >> THEN << >>
  ELSE IF Len(s[1].d) > 1 THEN <<Run(Tail(s[1].d))>> \o Tail(s)
  ELSE IF s[1].t \in {"rp", "date"} THEN <<Sym("x")>> \o Tail(s)
  ELSE Tail(s)

\* text[idx + len(label):], of a text that has s behind its caption: n more
\* characters are gone than the caption has, or a part of it is left.
Cut(s, n) ==
  LET c[k \in 0 .. n] == IF k = 0 THEN s ELSE CutOne(c[k - 1])
  IN  IF n < 0 THEN <<Sym("x")>> \o s ELSE c[n]

\* lstrip(" :=-"): a minus goes, too.
LStrip(s) ==
  LET lead == {n \in 0 .. Len(s) : \A i \in 1 .. n : s[i].t \in {" ", ":", "=", "-"}}
  IN  SubSeq(s, Max(lead) + 1, Len(s))

\* The label's first six characters are looked for, and its length is cut.
value_after_label(t, label) ==
  IF <<label, t.caption>> \in DOMAIN Over
  THEN [caption |-> "none", tail |-> LStrip(Cut(t.tail, Over[<<label, t.caption>>]))]
  ELSE t

vertically_overlaps(a, b) ==
  2 * b.bbox.y1 <= a.bbox.y1 + a.bbox.y2 /\ a.bbox.y1 + a.bbox.y2 <= 2 * b.bbox.y2

IsRight(l, other) ==
  other.from # l.from /\ other.bbox.x1 >= l.bbox.x2 /\ vertically_overlaps(l, other)

\* Mutant of line_to_the_right: the first one met.
FirstToTheRight(l, ranked) ==
  LET right == {i \in DOMAIN ranked : IsRight(l, ranked[i])}
  IN  IF right = {} THEN << >> ELSE <<ranked[Min(right)]>>

\* The leftmost of the lines to the right of l, on whatever page.
line_to_the_right(l, ranked) ==
  LET right   == {i \in DOMAIN ranked : IsRight(l, ranked[i])}
      nearest == {i \in right : \A j \in right : ranked[i].bbox.x1 <= ranked[j].bbox.x1}
  IN  IF right = {} THEN << >> ELSE <<ranked[Min(nearest)]>>

\* Mutant of NearRight: the line of the label is given as the source.
NearRightOfLabel(f, l, part, ranked) ==
  LET right == line_to_the_right(l, ranked)
  IN  FirstOf(<<Read(f, part, l),
                IF right = << >> THEN << >> ELSE Read(f, right[1].text, l)>>)

\* What follows the label on its own line, then the line to its right.
NearRight(f, l, part, ranked) ==
  LET right == line_to_the_right(l, ranked)
  IN  FirstOf(<<Read(f, part, l),
                IF right = << >> THEN << >> ELSE Read(f, right[1].text, right[1])>>)

LabelHit(f, m, l, ranked) ==
  FirstOf([k \in DOMAIN m.labels |->
    LET part == value_after_label(l.text, m.labels[k])
    IN  IF <<m.labels[k], l.text.caption>> \notin Similar THEN << >>
        ELSE IF m.near_right THEN NearRight(f, l, part, ranked) ELSE Read(f, part, l)])

\* A pattern finds its caption; group(1) is what follows it, or an optional
\* part that is not there (None); without groups, group(0) is the caption.
RegexHit(f, m, l) ==
  IF m.pattern.caption # l.text.caption THEN << >>
  ELSE CASE m.pattern.group = "after" -> Read(f, [caption |-> "none", tail |-> l.text.tail], l)
         [] m.pattern.group = "unset" -> << >>
         [] m.pattern.group = "all"   -> Read(f, [caption |-> l.text.caption, tail |-> << >>], l)

page_width(candidates) ==
  IF candidates = << >> THEN 1
  ELSE Max({candidates[i].bbox.x2 : i \in DOMAIN candidates})

\* x_min_ratio is in percent.
PositionalHit(f, m, l, candidates) ==
  IF m.x_min_ratio # << >> /\ 100 * l.bbox.x1 < m.x_min_ratio[1] * page_width(candidates)
  THEN << >> ELSE Read(f, l.text, l)

apply_matcher(f, m, ranked) ==
  LET n == IF m.max_top_n = << >> THEN Len(ranked) ELSE m.max_top_n[1]
      \* ranked_lines[:n], where a negative n counts from the end.
      candidates == SubSeq(ranked, 1, IF n < 0 THEN Len(ranked) + n ELSE Min({n, Len(ranked)}))
  IN  FirstOf([i \in DOMAIN candidates |->
        CASE m.kind = "label"      -> LabelHit(f, m, candidates[i], ranked)
          [] m.kind = "regex"      -> RegexHit(f, m, candidates[i])
          [] m.kind = "positional" -> PositionalHit(f, m, candidates[i], candidates)])

extract_one(f, ranked) ==
  FirstOf([k \in DOMAIN f.matchers |-> apply_matcher(f, f.matchers[k], ranked)])

\* Line i comes before line j.
Before(ls, i, j) ==
  \/ ls[i].bbox.y1 < ls[j].bbox.y1
  \/ ls[i].bbox.y1 = ls[j].bbox.y1 /\ ls[i].bbox.x1 < ls[j].bbox.x1
  \/ ls[i].bbox.y1 = ls[j].bbox.y1 /\ ls[i].bbox.x1 = ls[j].bbox.x1 /\ i < j

\* Mutant of extract_fields: the lines as the provider lists them.
ExtractUnsorted(s, ls) == [i \in DOMAIN s |-> extract_one(s[i], ls)]

\* sorted by (y1, x1), which is stable: lines are named by their place.
extract_fields(s, ls) ==
  LET place  == [i \in DOMAIN ls |-> Cardinality({j \in DOMAIN ls : Before(ls, j, i)}) + 1]
      ranked == [k \in DOMAIN ls |-> ls[CHOOSE i \in DOMAIN ls : place[i] = k]]
  IN  [i \in DOMAIN s |-> extract_one(s[i], ranked)]

-----------------------------------------------------------------------------
(* validate.py *)

\* round(confidence, 4).
Round(score) == ((2 * score + Grid) \div (2 * Grid)) * Grid

FieldStatus(f, found) ==
  IF found = << >> THEN "missing"
  ELSE IF found[1].line.score < f.threshold THEN "low_confidence" ELSE "extracted"

\* A missing field holds a placeholder, amount 0 or an empty value.
FieldEntry(f, found) ==
  IF found = << >>
  THEN [status |-> "missing", confidence |-> 0, value |-> << >>, bbox |-> << >>, page |-> << >>]
  ELSE [status |-> FieldStatus(f, found), confidence |-> Round(found[1].line.score),
        value |-> <<found[1].value>>, bbox |-> <<found[1].line.bbox>>,
        page |-> <<found[1].line.page>>]

\* Mutant of Issues: a missing field is not reported.
IssuesOfDoubt(s, found) == {i \in DOMAIN s : FieldStatus(s[i], found[i]) = "low_confidence"}

\* The indices of the fields an issue is reported for.
Issues(s, found) ==
  {i \in DOMAIN s : \/ FieldStatus(s[i], found[i]) = "low_confidence"
                    \/ FieldStatus(s[i], found[i]) = "missing" /\ s[i].required}

\* blocking or issues: every blocking field has an issue.
build_result(s, found) ==
  LET blocking == \E i \in DOMAIN s : s[i].required /\ FieldStatus(s[i], found[i]) # "extracted"
  IN  [status |-> IF blocking \/ Issues(s, found) # {} THEN "needs_review" ELSE "completed",
       fields |-> [i \in DOMAIN s |-> FieldEntry(s[i], found[i])],
       issues |-> Issues(s, found)]

-----------------------------------------------------------------------------
(* servicer.py: _response_for, _fill_result *)

Int32 == -MaxInt - 1 .. MaxInt

\* Protobuf refuses a number that does not fit; GetDocument then raises.
Fits(f, entry) ==
  /\ f.type = "money" /\ entry.value # << >> => entry.value[1] \in -MaxAmount - 1 .. MaxAmount
  /\ entry.bbox # << >> => \A c \in DOMAIN entry.bbox[1] : entry.bbox[1][c] \in Int32
  /\ entry.page # << >> => entry.page[1] \in Int32

fill_result(s, r) ==
  IF \A i \in DOMAIN s : Fits(s[i], r.fields[i])
  THEN [code |-> "OK", status |-> r.status,
        fields |-> [i \in DOMAIN s |->
          [r.fields[i] EXCEPT !.page = IF @ = << >> THEN <<1>> ELSE @]],
        issues |-> r.issues]
  ELSE [code |-> "UNKNOWN", status |-> "none", fields |-> << >>, issues |-> {}]

-----------------------------------------------------------------------------

NoResult   == [status |-> "none", fields |-> << >>, issues |-> {}]
NoResponse == [code |-> "none", status |-> "none", fields |-> << >>, issues |-> {}]

Init ==
  /\ stage = "inspected"
  /\ file \in Files /\ schema \in Schemas
  /\ lines = << >> /\ fields = << >> /\ result = NoResult /\ response = NoResponse

\* The text layer if there is one, or else the provider.
ReadLines ==
  /\ stage = "inspected"
  /\ lines' = IF digitalborn_lines(file) # << >> THEN digitalborn_lines(file) ELSE ocr_lines(file)
  /\ stage' = "read"
  /\ UNCHANGED <<file, schema, fields, result, response>>

ExtractFields ==
  /\ stage = "read"
  /\ fields' = extract_fields(schema, lines)
  /\ stage' = "extracted"
  /\ UNCHANGED <<file, schema, lines, result, response>>

BuildResult ==
  /\ stage = "extracted"
  /\ result' = build_result(schema, fields)
  /\ stage' = "stored"
  /\ UNCHANGED <<file, schema, lines, fields, response>>

GetDocument ==
  /\ stage = "stored"
  /\ response' = fill_result(schema, result)
  /\ stage' = "answered"
  /\ UNCHANGED <<file, schema, lines, fields, result>>

Next == ReadLines \/ ExtractFields \/ BuildResult \/ GetDocument

Spec == Init /\ [][Next]_vars

-----------------------------------------------------------------------------
(* Properties *)

LineType(l) ==
  /\ ~Blank(l.text)
  /\ l.score \in 1 .. MaxScore
  /\ l.page \in 1 .. Len(file.pages)
  /\ l.from[1] \in DOMAIN file.pages

\* The type invariant.
TypeOK ==
  /\ stage \in {"inspected", "read", "extracted", "stored", "answered"}
  /\ \A i \in DOMAIN lines : LineType(lines[i])
  /\ stage \in {"extracted", "stored", "answered"} => DOMAIN fields = DOMAIN schema
  /\ result.status \in {"none", "completed", "needs_review"}
  /\ response.code \in {"none", "OK", "UNKNOWN"}

\* baidu.py, the "only normalization point": whatever the provider leaves out
\* of its three lists, and whatever is filtered, a line has the score and the
\* box that were given with its text.
LinesStayTogether ==
  \A i \in DOMAIN lines :
    LET l == lines[i]
        p == file.pages[l.from[1]]
        k == l.from[2]
    IN  digitalborn_lines(file) = << >> =>
          /\ l.text = p.rec_texts[k] /\ l.score = p.rec_scores[k]
          /\ l.bbox = Box(p.rec_boxes[k])

\* document.proto, "source-line location": the page a client is shown is the
\* page of the file the value was read on, except in a scan of several pages,
\* whose pages all come back as page 1.
PageIsTheFiles ==
  response.code = "OK" =>
    \A i \in DOMAIN schema : fields[i] # << >> =>
      \/ response.fields[i].page = <<fields[i][1].line.from[1]>>
      \/ /\ file.pdf /\ Len(file.pages) > 1 /\ digitalborn_lines(file) = << >>
         /\ response.fields[i].page = <<1>>

\* No two lines start at one place, which is all the ranking looks at.
Placed(ls) ==
  \A i, j \in DOMAIN ls : ls[i].bbox.x1 = ls[j].bbox.x1 /\ ls[i].bbox.y1 = ls[j].bbox.y1 => i = j

\* What is extracted depends on where the lines are, not on the order in which
\* the provider lists them.
OrderDoesNotMatter ==
  stage = "extracted" /\ Placed(lines) =>
    \A order \in SetToSeqs(DOMAIN lines) :
      extract_fields(schema, [k \in DOMAIN lines |-> lines[order[k]]]) = fields

Labels(f) == UNION {ToSet(f.matchers[k].labels) : k \in DOMAIN f.matchers}

\* A label of f is found by its beginning in a caption shorter than itself.
Overlong(f, caption) ==
  \E label \in Labels(f) : <<label, caption>> \in DOMAIN Over /\ Over[<<label, caption>>] > 0

\* An amount is the amount of the line it is attributed to, so that its box
\* and its confidence are that line's; only its sign may be lost, and only
\* when it follows its label.  Not so when a label is longer than the caption
\* that value_after_label takes for it: the cut then reaches into the amount.
AmountIsTheLines ==
  \A i \in DOMAIN fields :
    /\ schema[i].type = "money" /\ fields[i] # << >>
    /\ ~Overlong(schema[i], fields[i][1].line.text.caption)
    => LET amount  == fields[i][1].value
           written == parse_money(Tokens(fields[i][1].line.text))
       IN  /\ written # << >> /\ Magnitude(written[1]) = Magnitude(amount)
           /\ written[1] # amount => fields[i][1].line.text.caption # "none"

\* A value read beside a label is the nearest line on the right: none that
\* overlaps the label's row starts between the two.
NothingBetween ==
  \A i \in DOMAIN fields :
    /\ fields[i] # << >>
    /\ \A k \in DOMAIN schema[i].matchers : schema[i].matchers[k].kind = "label"
    /\ fields[i][1].line.text.caption = "none"
    => \E l \in ToSet(lines) :
         /\ l.text.caption # "none" /\ IsRight(l, fields[i][1].line)
         /\ \A other \in ToSet(lines) :
              IsRight(l, other) => fields[i][1].line.bbox.x1 <= other.bbox.x1

\* build_result: a client told completed sees every required field extracted
\* and none in doubt; a client told needs_review is told why.  (README.md,
\* "Validate", counts required fields only; the code counts an optional field
\* in doubt as well.)  The confidences bear the statuses out although they are
\* rounded after the comparison: an extracted field is not shown below its
\* threshold, and one in doubt not above it, though it may be shown at it.
StatusIsExplained ==
  response.code = "OK" =>
    /\ (response.status = "needs_review") <=>
         (\E i \in DOMAIN schema :
            \/ response.fields[i].status = "low_confidence"
            \/ response.fields[i].status = "missing" /\ schema[i].required)
    /\ (response.status = "needs_review") <=> (response.issues # {})
    /\ \A i \in DOMAIN schema : schema[i].threshold % Grid = 0 =>
         /\ response.fields[i].status = "extracted"
              => response.fields[i].confidence >= schema[i].threshold
         /\ response.fields[i].status = "low_confidence"
              => response.fields[i].confidence <= schema[i].threshold

\* money.py, the "Rule": of a number with groups of up to three digits, or
\* with two decimals, no digit is lost, however it is separated and whatever
\* surrounds it; with more digits than int() takes it is not read at all.
MoneyIsWhole ==
  \A i \in DOMAIN lines :
    LET s == Tokens(lines[i].text)
    IN  OneNumber(s) => IF Len(DigitsIn(s)) > MaxDigits
                        THEN parse_money(s) = << >>
                        ELSE /\ parse_money(s) # << >>
                             /\ Magnitude(parse_money(s)[1]) = Value(DigitsIn(s))

\* format_money and parse_money agree on every amount but for its sign, which
\* is printed before the currency, where parse_money does not look for it.
FormatReadsBack ==
  \A i \in DOMAIN lines :
    LET a == parse_money(Tokens(lines[i].text))
    IN  a # << >> => parse_money(format_money(a[1])) = <<Magnitude(a[1])>>

\* GetDocument can answer what was stored, unless some line holds as many
\* digits as the largest amount of the contract, or has a coordinate or a page
\* beyond int32: with fewer digits, no way to separate or to cut them makes an
\* amount that does not fit.
ReadableUnlessHuge ==
  response.code = "UNKNOWN" =>
    \E i \in DOMAIN lines :
      \/ Len(DigitsIn(lines[i].text.tail)) >= Len(Decimal[MaxAmount])
      \/ \E c \in DOMAIN lines[i].bbox : lines[i].bbox[c] \notin Int32
      \/ lines[i].page \notin Int32

=============================================================================
