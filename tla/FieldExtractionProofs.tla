----------------------- MODULE FieldExtractionProofs -----------------------
(***************************************************************************)
(* What FieldExtraction keeps for all files, schemas, likenesses and       *)
(* scales.  One file goes through its stages in one order, so what each    *)
(* variable holds is known at every stage (IInv); the rest is about the    *)
(* operators.                                                              *)
(***************************************************************************)
EXTENDS FieldExtraction, MoneyParserProofs, FiniteSetTheorems

\* The lines a file is read as.
LinesOf(f) == IF digitalborn_lines(f) # << >> THEN digitalborn_lines(f) ELSE ocr_lines(f)

Extracted == {"extracted", "stored", "answered"}
Stored    == {"stored", "answered"}

IInv ==
  /\ stage \in {"inspected", "read"} \cup Extracted
  /\ file \in Files /\ schema \in Schemas
  /\ lines = IF stage = "inspected" THEN << >> ELSE LinesOf(file)
  /\ fields = IF stage \in Extracted THEN extract_fields(schema, lines) ELSE << >>
  /\ result = IF stage \in Stored THEN build_result(schema, fields) ELSE NoResult
  /\ response = IF stage = "answered" THEN fill_result(schema, result) ELSE NoResponse

\* The strengthening the invariants below rest on.
THEOREM StagesInOrder == Spec => []IInv
<1>1. Init => IInv
  BY DEF Init, IInv, Extracted, Stored
<1>2. IInv /\ [Next]_vars => IInv'
  <2> SUFFICES ASSUME IInv, [Next]_vars PROVE IInv'
    OBVIOUS
  <2>1. CASE ReadLines
    BY <2>1, Zenon DEF IInv, ReadLines, LinesOf, Extracted, Stored
  <2>2. CASE ExtractFields
    BY <2>2, Zenon DEF IInv, ExtractFields, Extracted, Stored
  <2>3. CASE BuildResult
    BY <2>3, Zenon DEF IInv, BuildResult, Extracted, Stored
  <2>4. CASE GetDocument
    BY <2>4, Zenon DEF IInv, GetDocument, Extracted, Stored
  <2>5. CASE UNCHANGED vars
    BY <2>5, Zenon DEF IInv, vars
  <2> QED BY <2>1, <2>2, <2>3, <2>4, <2>5 DEF Next
<1> QED BY <1>1, <1>2, PTL DEF Spec

-----------------------------------------------------------------------------
(* Lines *)

\* What is kept of a sequence is in it and passes the test, G being what does.
LEMMA KeptElements ==
  ASSUME NEW S, NEW G, NEW s \in Seq(S)
  PROVE  FlattenSeq([k \in DOMAIN s |-> IF s[k] \in G THEN <<s[k]>> ELSE << >>]) \in Seq(S \cap G)
<1> DEFINE ss == [k \in DOMAIN s |-> IF s[k] \in G THEN <<s[k]>> ELSE << >>]
<1>1. PICK T : T = S \cap G
  OBVIOUS
<1>2. PICK n \in Nat : n = Len(s) /\ DOMAIN s = 1 .. n
  OBVIOUS
<1>3. ASSUME NEW k \in 1 .. n PROVE (IF s[k] \in G THEN <<s[k]>> ELSE << >>) \in Seq(T)
  <2>1. s[k] \in S
    BY <1>2
  <2>2. CASE s[k] \in G
    <3>1. PICK x \in T : x = s[k]
      BY <1>1, <2>1, <2>2
    <3>2. <<x>> \in Seq(T)
      OBVIOUS
    <3> QED BY <2>2, <3>1, <3>2
  <2>3. CASE s[k] \notin G
    <3>1. << >> \in Seq(T)
      OBVIOUS
    <3> QED BY <2>3, <3>1, Zenon
  <2> QED BY <2>2, <2>3
<1>4. ss \in [1 .. n -> Seq(T)]
  BY <1>2, <1>3
<1>5. ss \in Seq(Seq(T))
  <2> HIDE DEF ss
  <2> QED BY <1>4
<1> HIDE DEF ss
<1>6. FlattenSeq(ss) \in Seq(T)
  BY <1>5, FlattenElements
<1> QED BY <1>1, <1>6 DEF ss

\* The least element of a set of numbers.
LEMMA MinIsLeast ==
  ASSUME NEW S \in SUBSET Nat, S # {}
  PROVE  Min(S) \in S /\ \A y \in S : Min(S) <= y
<1>1. \E x \in S : \A y \in S : x <= y
  BY Least
<1> QED BY <1>1, Zenon DEF Min

BBox    == [x1 : Int, y1 : Int, x2 : Int, y2 : Int]
AnyLine == [text : Text, score : Int, bbox : BBox, page : Nat, from : Nat \X Nat]

\* What Line makes of values of the right types is a line.
LEMMA LineIsALine ==
  ASSUME NEW t \in Text, NEW x \in Int, NEW b \in Seq(Int), NEW n \in Nat, NEW m \in Nat, NEW k \in Nat
  PROVE  Line(t, x, b, n, <<m, k>>) \in AnyLine
<1>1. Box(b) \in BBox
  BY DEF Box, BBox
<1>2. <<m, k>> \in Nat \X Nat
  OBVIOUS
<1> QED BY <1>1, <1>2 DEF Line, AnyLine

\* zip stops with the shortest of the three lists.
LEMMA ShortestIn ==
  ASSUME NEW p \in Page
  PROVE  /\ Shortest(p) \in Nat /\ Shortest(p) <= Len(p.rec_texts)
         /\ Shortest(p) <= Len(p.rec_scores) /\ Shortest(p) <= Len(p.rec_boxes)
<1>1. PICK a \in Nat, b \in Nat, c \in Nat :
        a = Len(p.rec_texts) /\ b = Len(p.rec_scores) /\ c = Len(p.rec_boxes)
  BY DEF Page
<1>2. {a, b, c} \in SUBSET Nat /\ {a, b, c} # {}
  OBVIOUS
<1>3. Min({a, b, c}) \in {a, b, c} /\ \A y \in {a, b, c} : Min({a, b, c}) <= y
  BY <1>2, MinIsLeast, Zenon
<1> QED BY <1>1, <1>3 DEF Shortest

\* The lines of page m of a file, when it is page n of its response.
ScanLines(p, n, m) ==
  {l \in AnyLine : \E k \in 1 .. Shortest(p) :
     l = Line(p.rec_texts[k], p.rec_scores[k], p.rec_boxes[k], n, <<m, k>>)}

\* Each element of the zip is the line at its place in the page.
LEMMA ZippedLines ==
  ASSUME NEW p \in Page, NEW n \in Nat, NEW m \in Nat
  PROVE  Zipped(p, n, m) \in Seq(ScanLines(p, n, m))
<1>1. PICK a \in Nat : a = Shortest(p)
  BY ShortestIn
<1>2. ASSUME NEW k \in 1 .. a
      PROVE  Line(p.rec_texts[k], p.rec_scores[k], p.rec_boxes[k], n, <<m, k>>) \in ScanLines(p, n, m)
  <2>1. p.rec_texts \in Seq(Text) /\ p.rec_scores \in Seq(Int) /\ p.rec_boxes \in Seq(Seq(Int))
    BY DEF Page
  <2>2. k \in DOMAIN p.rec_texts /\ k \in DOMAIN p.rec_scores /\ k \in DOMAIN p.rec_boxes
    <3>1. a <= Len(p.rec_texts) /\ a <= Len(p.rec_scores) /\ a <= Len(p.rec_boxes)
      BY <1>1, ShortestIn
    <3>2. \A S : \A s \in Seq(S) : a <= Len(s) => k \in DOMAIN s
      OBVIOUS
    <3> QED BY <2>1, <3>1, <3>2, Zenon
  <2>3. p.rec_texts[k] \in Text /\ p.rec_scores[k] \in Int /\ p.rec_boxes[k] \in Seq(Int)
    BY <2>1, <2>2
  <2>4. k \in Nat
    OBVIOUS
  <2>5. Line(p.rec_texts[k], p.rec_scores[k], p.rec_boxes[k], n, <<m, k>>) \in AnyLine
    BY <2>3, <2>4, LineIsALine
  <2> QED BY <1>1, <2>5 DEF ScanLines
<1>3. PICK S : S = ScanLines(p, n, m)
  OBVIOUS
<1>4. Zipped(p, n, m) \in [1 .. a -> S]
  BY <1>1, <1>2, <1>3 DEF Zipped
<1> QED BY <1>3, <1>4

\* What normalize_layout_parsing keeps of a page.
LEMMA PassingZipped ==
  ASSUME NEW p \in Page, NEW n \in Nat, NEW m \in Nat
  PROVE  Passing(Zipped(p, n, m), Kept) \in Seq({l \in ScanLines(p, n, m) : Kept(l)})
<1>1. PICK S : S = ScanLines(p, n, m)
  OBVIOUS
<1>2. PICK s \in Seq(S) : s = Zipped(p, n, m)
  BY <1>1, ZippedLines
<1> DEFINE G == {l \in S : Kept(l)}
<1>3. \A k \in DOMAIN s : Kept(s[k]) <=> s[k] \in G
  OBVIOUS
<1>4. [k \in DOMAIN s |-> IF Kept(s[k]) THEN <<s[k]>> ELSE << >>]
        = [k \in DOMAIN s |-> IF s[k] \in G THEN <<s[k]>> ELSE << >>]
  <2> HIDE DEF G
  <2> QED BY <1>3
<1>5. Passing(s, Kept) = FlattenSeq([k \in DOMAIN s |-> IF Kept(s[k]) THEN <<s[k]>> ELSE << >>])
  BY Zenon DEF Passing
<1>6. S \cap G = G
  OBVIOUS
<1> HIDE DEF G
<1>7. Passing(s, Kept) \in Seq(S \cap G)
  BY <1>4, <1>5, KeptElements, Zenon
<1> QED BY <1>1, <1>2, <1>6, <1>7, Zenon DEF G

\* A sequence over a set is one over every larger set.
LEMMA Wider ==
  ASSUME NEW S, NEW T, T \subseteq S, NEW s \in Seq(T)
  PROVE  s \in Seq(S)
OBVIOUS

\* What is put together from sequences over a set is a sequence over it.
LEMMA FlattenIn ==
  ASSUME NEW S, NEW n \in Nat, NEW ss, ss \in [1 .. n -> Seq(S)]
  PROVE  FlattenSeq(ss) \in Seq(S)
<1>1. ss \in Seq(Seq(S))
  OBVIOUS
<1> QED BY <1>1, FlattenElements

\* The lines of one response, first being the pages before it.
Normalized(pages, first) ==
  {l \in AnyLine : Kept(l) /\ \E n \in DOMAIN pages : l \in ScanLines(pages[n], n, first + n)}

\* Every line of a response is a kept line of one of its pages.
LEMMA NormalizedLines ==
  ASSUME NEW pages \in Seq(Page), NEW first \in Nat
  PROVE  normalize_layout_parsing(pages, first) \in Seq(Normalized(pages, first))
<1>1. PICK a \in Nat : a = Len(pages) /\ DOMAIN pages = 1 .. a
  OBVIOUS
<1>2. PICK S : S = Normalized(pages, first)
  OBVIOUS
<1>3. ASSUME NEW n \in 1 .. a
      PROVE  Passing(Zipped(pages[n], n, first + n), Kept) \in Seq(S)
  <2>1. pages[n] \in Page /\ n \in Nat /\ first + n \in Nat
    BY <1>1
  <2> DEFINE T == {l \in ScanLines(pages[n], n, first + n) : Kept(l)}
  <2>2. T \subseteq S
    BY <1>1, <1>2 DEF Normalized, ScanLines
  <2>3. Passing(Zipped(pages[n], n, first + n), Kept) \in Seq(T)
    BY <2>1, PassingZipped, Zenon
  <2> HIDE DEF T
  <2> QED BY <2>2, <2>3, Wider, Zenon
<1>4. [n \in DOMAIN pages |-> Passing(Zipped(pages[n], n, first + n), Kept)] \in [1 .. a -> Seq(S)]
  <2> DEFINE P(n) == Passing(Zipped(pages[n], n, first + n), Kept)
  <2>1. \A n \in 1 .. a : P(n) \in Seq(S)
    BY <1>3
  <2> HIDE DEF P
  <2>2. [n \in DOMAIN pages |-> P(n)] \in [1 .. a -> Seq(S)]
    BY <1>1, <2>1
  <2> QED BY <2>2, Zenon DEF P
<1> DEFINE ss == [n \in DOMAIN pages |-> Passing(Zipped(pages[n], n, first + n), Kept)]
<1>5. normalize_layout_parsing(pages, first) = FlattenSeq(ss)
  BY Zenon DEF normalize_layout_parsing
<1> HIDE DEF ss
<1>6. FlattenSeq(ss) \in Seq(S)
  BY <1>4, FlattenIn, Zenon DEF ss
<1> QED BY <1>2, <1>5, <1>6, Zenon

\* The pages of a file, and what its lines are when the provider reads it.
FileType(f) == f.pdf \in BOOLEAN /\ f.pages \in Seq(Page)

FromScan(f) ==
  {l \in AnyLine :
     Kept(l) /\ \E m \in DOMAIN f.pages : l \in ScanLines(f.pages[m], IF f.pdf THEN 1 ELSE m, m)}

\* Every line of a scan is a kept line of one of the pages of the file.
LEMMA ScannedLines ==
  ASSUME NEW f, FileType(f)
  PROVE  ocr_lines(f) \in Seq(FromScan(f))
<1>1. f.pages \in Seq(Page)
  BY DEF FileType
<1>2. PICK a \in Nat : a = Len(f.pages) /\ DOMAIN f.pages = 1 .. a
  BY <1>1
<1>3. PICK S : S = FromScan(f)
  OBVIOUS
<1>4. CASE f.pdf
  <2> DEFINE P(m) == normalize_layout_parsing(<<f.pages[m]>>, m - 1)
             ss == [m \in DOMAIN f.pages |-> P(m)]
  <2>1. ASSUME NEW m \in 1 .. a PROVE P(m) \in Seq(S)
    <3>1. m - 1 \in Nat
      OBVIOUS
    <3>2. PICK page \in Page : page = f.pages[m]
      BY <1>1, <1>2
    <3>3. PICK one : one = <<page>>
      OBVIOUS
    <3>4. one \in Seq(Page) /\ DOMAIN one = {1} /\ one[1] = page
      BY <3>3
    <3>5. P(m) \in Seq(Normalized(one, m - 1))
      BY <3>1, <3>2, <3>3, <3>4, NormalizedLines, Zenon
    <3>6. m - 1 + 1 = m
      OBVIOUS
    <3>7. Normalized(one, m - 1) \subseteq S
      <4> SUFFICES ASSUME NEW l \in AnyLine, Kept(l), NEW n \in DOMAIN one,
                          l \in ScanLines(one[n], n, m - 1 + n)
                   PROVE  l \in FromScan(f)
        BY <1>3, Zenon DEF Normalized
      <4>1. n = 1
        BY <3>4
      <4>2. l \in ScanLines(f.pages[m], 1, m)
        BY <3>2, <3>4, <3>6, <4>1, Zenon
      <4>3. m \in DOMAIN f.pages
        BY <1>2
      <4> QED BY <1>4, <4>2, <4>3, Zenon DEF FromScan
    <3> HIDE DEF P
    <3> QED BY <3>5, <3>7, Wider, Zenon
  <2>2. ocr_lines(f) = FlattenSeq(ss)
    BY <1>4, Zenon DEF ocr_lines
  <2> HIDE DEF P
  <2>3. ss \in [1 .. a -> Seq(S)]
    BY <1>2, <2>1
  <2> HIDE DEF ss
  <2> QED BY <1>3, <2>2, <2>3, FlattenIn, Zenon
<1>5. CASE ~f.pdf
  <2>1. ocr_lines(f) = normalize_layout_parsing(f.pages, 0)
    BY <1>5, Zenon DEF ocr_lines
  <2>2. ocr_lines(f) \in Seq(Normalized(f.pages, 0))
    BY <1>1, <2>1, NormalizedLines
  <2>3. Normalized(f.pages, 0) \subseteq S
    <3> SUFFICES ASSUME NEW l \in AnyLine, Kept(l), NEW n \in DOMAIN f.pages,
                        l \in ScanLines(f.pages[n], n, 0 + n)
                 PROVE  l \in FromScan(f)
      BY <1>3, Zenon DEF Normalized
    <3>1. 0 + n = n
      BY <1>2
    <3>2. l \in ScanLines(f.pages[n], n, n)
      BY <3>1, Zenon
    <3> QED BY <1>5, <3>2, Zenon DEF FromScan
  <2> QED BY <1>3, <2>2, <2>3, Wider, Zenon
<1> QED BY <1>4, <1>5

\* The blocks of a text layer that are not blank.
LEMMA PassingBlocks ==
  ASSUME NEW p \in Page
  PROVE  TextBlocks(p) \in Seq({b \in Block : ~Blank(b.text)})
<1>1. PICK s \in Seq(Block) : s = p.blocks
  BY DEF Page
<1> DEFINE G == {b \in Block : ~Blank(b.text)}
<1>2. \A k \in DOMAIN s : ~Blank(s[k].text) <=> s[k] \in G
  OBVIOUS
<1>3. [k \in DOMAIN s |-> IF ~Blank(s[k].text) THEN <<s[k]>> ELSE << >>]
        = [k \in DOMAIN s |-> IF s[k] \in G THEN <<s[k]>> ELSE << >>]
  <2> HIDE DEF G
  <2> QED BY <1>2
<1>4. TextBlocks(p) = FlattenSeq([k \in DOMAIN s |-> IF ~Blank(s[k].text) THEN <<s[k]>> ELSE << >>])
  BY <1>1, Zenon DEF TextBlocks, Passing
<1>5. Block \cap G = G
  OBVIOUS
<1> HIDE DEF G
<1>6. TextBlocks(p) \in Seq(Block \cap G)
  BY <1>3, <1>4, KeptElements, Zenon
<1> QED BY <1>5, <1>6, Zenon DEF G

\* What the lines of a text layer are.
FromLayer(f) ==
  {l \in AnyLine : /\ ~Blank(l.text) /\ l.score = MaxScore
                   /\ l.from[1] \in DOMAIN f.pages /\ l.page = l.from[1]}

\* The blocks of page m as lines of page m.
LEMMA BlockLines ==
  ASSUME NEW f, FileType(f), NEW m \in DOMAIN f.pages,
         NEW bs \in Seq({b \in Block : ~Blank(b.text)})
  PROVE  [k \in DOMAIN bs |-> Line(bs[k].text, MaxScore, bs[k].box, m, <<m, k>>)]
           \in Seq(FromLayer(f))
<1>1. PICK a \in Nat : a = Len(bs) /\ DOMAIN bs = 1 .. a
  OBVIOUS
<1>2. PICK S : S = FromLayer(f)
  OBVIOUS
<1> DEFINE P(k) == Line(bs[k].text, MaxScore, bs[k].box, m, <<m, k>>)
<1>3. ASSUME NEW k \in 1 .. a PROVE P(k) \in S
  <2>1. bs[k] \in Block /\ ~Blank(bs[k].text)
    BY <1>1
  <2>2. bs[k].text \in Text /\ bs[k].box \in Seq(Int)
    BY <2>1 DEF Block
  <2>3. m \in Nat /\ k \in Nat /\ MaxScore \in Int
    BY ScaleAssumption DEF FileType
  <2>4. P(k) \in AnyLine
    BY <2>2, <2>3, LineIsALine
  <2>5. P(k).text = bs[k].text /\ P(k).score = MaxScore /\ P(k).page = m /\ P(k).from = <<m, k>>
    BY DEF Line
  <2>6. P(k).from[1] = m
    BY <2>5
  <2> HIDE DEF P
  <2> QED BY <1>2, <2>1, <2>4, <2>5, <2>6 DEF FromLayer
<1> HIDE DEF P
<1>4. [k \in DOMAIN bs |-> P(k)] \in [1 .. a -> S]
  BY <1>1, <1>3
<1>5. [k \in DOMAIN bs |-> P(k)] \in Seq(S)
  BY <1>4
<1> QED BY <1>2, <1>5, Zenon DEF P

\* Every line of a text layer is a block of one of the pages of the file.
LEMMA TextLayerLines ==
  ASSUME NEW f, FileType(f)
  PROVE  digitalborn_lines(f) \in Seq(FromLayer(f))
<1>1. f.pages \in Seq(Page)
  BY DEF FileType
<1>2. PICK a \in Nat : a = Len(f.pages) /\ DOMAIN f.pages = 1 .. a
  BY <1>1
<1>3. PICK S : S = FromLayer(f)
  OBVIOUS
<1> DEFINE page == [m \in DOMAIN f.pages |-> m]
           P(m) == LET bs == TextBlocks(f.pages[m])
                   IN  [k \in DOMAIN bs |-> Line(bs[k].text, MaxScore, bs[k].box, page[m], <<m, k>>)]
           ss == [m \in DOMAIN f.pages |-> P(m)]
<1>4. digitalborn_lines(f) \in {<< >>, FlattenSeq(ss)}
  BY Zenon DEF digitalborn_lines, LayerLines
<1>5. ASSUME NEW m \in 1 .. a PROVE P(m) \in Seq(S)
  <2>1. page[m] = m
    BY <1>2
  <2> HIDE DEF page
  <2>2. f.pages[m] \in Page
    BY <1>1, <1>2
  <2>3. PICK bs \in Seq({b \in Block : ~Blank(b.text)}) : bs = TextBlocks(f.pages[m])
    BY <2>2, PassingBlocks
  <2>4. P(m) = [k \in DOMAIN bs |-> Line(bs[k].text, MaxScore, bs[k].box, m, <<m, k>>)]
    BY <2>1, <2>3, Zenon
  <2> HIDE DEF P
  <2>5. m \in DOMAIN f.pages
    BY <1>2
  <2> QED BY <1>3, <2>4, <2>5, BlockLines
<1> HIDE DEF P
<1>6. ss \in [1 .. a -> Seq(S)]
  BY <1>2, <1>5
<1> HIDE DEF ss
<1>7. FlattenSeq(ss) \in Seq(S)
  BY <1>6, FlattenIn
<1>8. << >> \in Seq(S)
  OBVIOUS
<1> QED BY <1>3, <1>4, <1>7, <1>8, Zenon

\* What FilesAssumption says of one file.
LEMMA FilesAreTyped ==
  ASSUME NEW f \in Files
  PROVE  FileType(f)
BY FilesAssumption DEF FileType

\* A line, as it is read: of the text layer or of a scan.
LEMMA LinesAreTheFiles ==
  ASSUME NEW f \in Files
  PROVE  /\ digitalborn_lines(f) # << >> => LinesOf(f) \in Seq(FromLayer(f))
         /\ digitalborn_lines(f) = << >> => LinesOf(f) \in Seq(FromScan(f))
BY FilesAreTyped, TextLayerLines, ScannedLines, Zenon DEF LinesOf

\* A line of a scan, seen from the line.
LEMMA ScanLine ==
  ASSUME NEW f \in Files, NEW l \in FromScan(f)
  PROVE  /\ l \in AnyLine /\ Kept(l) /\ l.score <= MaxScore
         /\ l.from[1] \in DOMAIN f.pages /\ l.page = IF f.pdf THEN 1 ELSE l.from[1]
         /\ l.text = f.pages[l.from[1]].rec_texts[l.from[2]]
         /\ l.score = f.pages[l.from[1]].rec_scores[l.from[2]]
         /\ l.bbox = Box(f.pages[l.from[1]].rec_boxes[l.from[2]])
<1>0. f.pages \in Seq(Page)
  BY FilesAreTyped DEF FileType
<1>1. PICK m \in DOMAIN f.pages : l \in ScanLines(f.pages[m], IF f.pdf THEN 1 ELSE m, m)
  BY DEF FromScan
<1>2. PICK p \in Page : p = f.pages[m]
  BY <1>0
<1>3. PICK k \in 1 .. Shortest(p) :
        l = Line(p.rec_texts[k], p.rec_scores[k], p.rec_boxes[k], IF f.pdf THEN 1 ELSE m, <<m, k>>)
  BY <1>1, <1>2, Zenon DEF ScanLines
<1>4. /\ l.text = p.rec_texts[k] /\ l.score = p.rec_scores[k] /\ l.bbox = Box(p.rec_boxes[k])
      /\ l.page = IF f.pdf THEN 1 ELSE m
      /\ l.from = <<m, k>>
  BY <1>3 DEF Line
<1>5. l.from[1] = m /\ l.from[2] = k
  BY <1>4
<1>6. k \in DOMAIN p.rec_scores
  <2>1. k \in 1 .. Len(p.rec_scores)
    BY <1>2, ShortestIn
  <2> QED BY <2>1 DEF Page
<1>7. p.rec_scores[k] <= MaxScore
  BY <1>2, <1>6, FilesAssumption, Zenon
<1> QED BY <1>2, <1>4, <1>5, <1>7, Zenon DEF FromScan

\* What is so of every line of every file.
LEMMA LinesAreTyped ==
  ASSUME NEW f \in Files, NEW i \in DOMAIN LinesOf(f)
  PROVE  /\ LinesOf(f)[i] \in AnyLine
         /\ ~Blank(LinesOf(f)[i].text) /\ LinesOf(f)[i].score \in 1 .. MaxScore
         /\ LinesOf(f)[i].page \in 1 .. Len(f.pages)
         /\ LinesOf(f)[i].from[1] \in DOMAIN f.pages
<1>0. f.pages \in Seq(Page)
  BY FilesAreTyped DEF FileType
<1>1. PICK n \in Nat : n = Len(f.pages) /\ DOMAIN f.pages = 1 .. n
  BY <1>0
<1>2. PICK l : l = LinesOf(f)[i]
  OBVIOUS
<1>3. CASE digitalborn_lines(f) # << >>
  <2>1. LinesOf(f) \in Seq(FromLayer(f))
    BY <1>3, LinesAreTheFiles, Zenon
  <2>2. l \in FromLayer(f)
    BY <1>2, <2>1
  <2>3. /\ l \in AnyLine /\ ~Blank(l.text) /\ l.score = MaxScore
        /\ l.from[1] \in DOMAIN f.pages /\ l.page = l.from[1]
    BY <2>2 DEF FromLayer
  <2>4. MaxScore \in 1 .. MaxScore
    BY ScaleAssumption
  <2> QED BY <1>1, <1>2, <2>3, <2>4, Zenon
<1>4. CASE digitalborn_lines(f) = << >>
  <2>1. LinesOf(f) \in Seq(FromScan(f))
    BY <1>4, LinesAreTheFiles, Zenon
  <2>2. l \in FromScan(f)
    BY <1>2, <2>1
  <2>3. /\ l \in AnyLine /\ Kept(l) /\ l.score <= MaxScore
        /\ l.from[1] \in DOMAIN f.pages /\ l.page = IF f.pdf THEN 1 ELSE l.from[1]
    BY <2>2, ScanLine, Zenon
  <2>4. l.score \in Int
    BY <2>3 DEF AnyLine
  <2>5. ~Blank(l.text) /\ l.score > 0
    BY <2>3 DEF Kept
  <2>6. l.score \in 1 .. MaxScore
    BY <2>3, <2>4, <2>5, ScaleAssumption
  <2>7. l.page \in 1 .. n
    BY <1>1, <2>3
  <2> QED BY <1>1, <1>2, <2>3, <2>5, <2>6, <2>7, Zenon
<1> QED BY <1>3, <1>4

\* The types of all that is read, extracted, stored and answered: no line is
\* blank, none has a score outside (0, 1], and none is on a page the file does
\* not have.
THEOREM TypeCorrect == Spec => []TypeOK
<1>1. IInv => TypeOK
  <2> SUFFICES ASSUME IInv PROVE TypeOK
    OBVIOUS
  <2>1. ASSUME NEW i \in DOMAIN lines PROVE LineType(lines[i])
    <3>1. CASE stage = "inspected"
      <4>1. lines = << >>
        BY <3>1 DEF IInv
      <4> QED BY <4>1
    <3>2. CASE stage # "inspected"
      <4>1. lines = LinesOf(file) /\ file \in Files
        BY <3>2 DEF IInv
      <4> QED BY <4>1, LinesAreTyped, Zenon DEF LineType
    <3> QED BY <3>1, <3>2
  <2>2. stage \in {"extracted", "stored", "answered"} => DOMAIN fields = DOMAIN schema
    <3> SUFFICES ASSUME stage \in Extracted PROVE DOMAIN fields = DOMAIN schema
      BY DEF Extracted
    <3>1. fields = extract_fields(schema, lines)
      BY DEF IInv
    <3> QED BY <3>1, Zenon DEF extract_fields
  <2>3. result.status \in {"none", "completed", "needs_review"}
    <3>1. NoResult.status = "none"
      BY DEF NoResult
    <3>2. build_result(schema, fields).status \in {"completed", "needs_review"}
      BY DEF build_result
    <3>3. result \in {NoResult, build_result(schema, fields)}
      BY DEF IInv
    <3> QED BY <3>1, <3>2, <3>3, Zenon
  <2>4. response.code \in {"none", "OK", "UNKNOWN"}
    <3>1. NoResponse.code = "none"
      BY DEF NoResponse
    <3>2. fill_result(schema, result).code \in {"OK", "UNKNOWN"}
      BY DEF fill_result
    <3>3. response \in {NoResponse, fill_result(schema, result)}
      BY DEF IInv
    <3> QED BY <3>1, <3>2, <3>3, Zenon
  <2>5. stage \in {"inspected", "read", "extracted", "stored", "answered"}
    BY DEF IInv, Extracted
  <2> QED BY <2>1, <2>2, <2>3, <2>4, <2>5 DEF TypeOK
<1> QED BY <1>1, StagesInOrder, PTL

\* Through the zip and the filters of normalize_layout_parsing, for any number
\* of pages and lists of any lengths, no line is given the score or the box of
\* another.
THEOREM TogetherCorrect == Spec => []LinesStayTogether
<1>1. IInv => LinesStayTogether
  <2> SUFFICES ASSUME IInv, NEW i \in DOMAIN lines, digitalborn_lines(file) = << >>
               PROVE  /\ lines[i].text = file.pages[lines[i].from[1]].rec_texts[lines[i].from[2]]
                      /\ lines[i].score = file.pages[lines[i].from[1]].rec_scores[lines[i].from[2]]
                      /\ lines[i].bbox = Box(file.pages[lines[i].from[1]].rec_boxes[lines[i].from[2]])
    BY Zenon DEF LinesStayTogether
  <2>1. stage # "inspected"
    <3> SUFFICES ASSUME stage = "inspected" PROVE FALSE
      OBVIOUS
    <3>1. lines = << >>
      BY DEF IInv
    <3> QED BY <3>1
  <2>2. lines = LinesOf(file) /\ file \in Files
    BY <2>1 DEF IInv
  <2>3. lines \in Seq(FromScan(file))
    BY <2>2, LinesAreTheFiles, Zenon
  <2>4. lines[i] \in FromScan(file)
    BY <2>3
  <2> QED BY <2>2, <2>4, ScanLine, Zenon
<1> QED BY <1>1, StagesInOrder, PTL

-----------------------------------------------------------------------------
(* The ranking *)

\* Numbers up to n that differ are all the numbers up to n.
LEMMA InjectiveIsOnto ==
  ASSUME NEW n \in Nat, NEW f \in [1 .. n -> 1 .. n], \A i, j \in 1 .. n : f[i] = f[j] => i = j
  PROVE  \A k \in 1 .. n : \E i \in 1 .. n : f[i] = k
<1>1. PICK S : S = 1 .. n
  OBVIOUS
<1>2. IsFiniteSet(S)
  BY <1>1, FS_Interval
<1>3. f \in [S -> S] /\ \A i, j \in S : f[i] = f[j] => i = j
  BY <1>1
<1>4. f \in Injection(S, S)
  BY <1>3 DEF Injection, IsInjective
<1>5. f \in Surjection(S, S)
  BY <1>2, <1>4, FS_Injection
<1> QED BY <1>1, <1>5 DEF Surjection

\* A relation that puts 1 .. n in an order, and the place of i in it.
Orders(R, n) ==
  /\ \A i \in 1 .. n : <<i, i>> \notin R
  /\ \A i, j, k \in 1 .. n : <<i, j>> \in R /\ <<j, k>> \in R => <<i, k>> \in R
  /\ \A i, j \in 1 .. n : i # j => <<i, j>> \in R \/ <<j, i>> \in R
Below(R, n, i)     == {j \in 1 .. n : <<j, i>> \in R}
Ranks(place, R, n) == place = [i \in 1 .. n |-> Cardinality(Below(R, n, i)) + 1]
OneEach(place, n)  ==
  /\ place \in [1 .. n -> 1 .. n]
  /\ \A i, j \in 1 .. n : place[i] = place[j] => i = j
  /\ \A k \in 1 .. n : \E i \in 1 .. n : place[i] = k

\* A set that lacks an element of a finite one has fewer elements.
LEMMA SmallerSet ==
  ASSUME NEW n \in Nat, NEW T \in SUBSET (1 .. n), NEW S \in SUBSET T, NEW x \in T, x \notin S
  PROVE  Cardinality(S) \in Nat /\ Cardinality(T) \in Nat /\ Cardinality(S) < Cardinality(T)
<1>1. IsFiniteSet(1 .. n)
  BY FS_Interval
<1>2. IsFiniteSet(T)
  BY <1>1, FS_Subset
<1>3. IsFiniteSet(S) /\ Cardinality(S) <= Cardinality(T) /\ (Cardinality(T) = Cardinality(S) => T = S)
  BY <1>2, FS_Subset
<1>4. Cardinality(S) \in Nat /\ Cardinality(T) \in Nat
  BY <1>2, <1>3, FS_CardinalityType
<1>5. T # S
  OBVIOUS
<1> QED BY <1>3, <1>4, <1>5

\* Each has a place of its own, and each place is taken.
LEMMA PlacesAreTaken ==
  ASSUME NEW n \in Nat, NEW R, Orders(R, n), NEW place, Ranks(place, R, n)
  PROVE  OneEach(place, n)
<1>0. place = [i \in 1 .. n |-> Cardinality(Below(R, n, i)) + 1]
  BY DEF Ranks
<1>1. ASSUME NEW i \in 1 .. n
      PROVE  Cardinality(Below(R, n, i)) \in Nat /\ Cardinality(Below(R, n, i)) < n
  <2>1. Below(R, n, i) \in SUBSET (1 .. n) /\ i \notin Below(R, n, i)
    BY DEF Below, Orders
  <2>2. Cardinality(1 .. n) = n
    BY FS_Interval
  <2>3. Cardinality(Below(R, n, i)) \in Nat /\ Cardinality(Below(R, n, i)) < Cardinality(1 .. n)
    BY <2>1, SmallerSet
  <2> QED BY <2>2, <2>3
<1>2. place \in [1 .. n -> 1 .. n]
  <2>1. \A i \in 1 .. n : Cardinality(Below(R, n, i)) + 1 \in 1 .. n
    BY <1>1
  <2> QED BY <1>0, <2>1
<1>3. ASSUME NEW i \in 1 .. n, NEW j \in 1 .. n, <<i, j>> \in R
      PROVE  place[i] < place[j]
  <2>1. /\ Below(R, n, j) \in SUBSET (1 .. n) /\ Below(R, n, i) \in SUBSET Below(R, n, j)
        /\ i \in Below(R, n, j) /\ i \notin Below(R, n, i)
    BY <1>3 DEF Below, Orders
  <2>2. Cardinality(Below(R, n, i)) < Cardinality(Below(R, n, j))
    BY <2>1, SmallerSet
  <2> QED BY <1>0, <1>1, <2>2
<1>4. ASSUME NEW i \in 1 .. n, NEW j \in 1 .. n, place[i] = place[j]
      PROVE  i = j
  <2> SUFFICES ASSUME i # j PROVE FALSE
    OBVIOUS
  <2>1. place[i] < place[j] \/ place[j] < place[i]
    BY <1>3 DEF Orders
  <2>2. place[i] \in 1 .. n /\ place[j] \in 1 .. n
    BY <1>2
  <2> QED BY <1>4, <2>1, <2>2
<1> QED BY <1>2, <1>4, InjectiveIsOnto DEF OneEach

\* The ranking of extract_fields.
BeforeIn(ls)  == {x \in (DOMAIN ls) \X (DOMAIN ls) : Before(ls, x[1], x[2])}
PlaceIn(ls)   == [i \in DOMAIN ls |-> Cardinality({j \in DOMAIN ls : Before(ls, j, i)}) + 1]
Ranked(ls)    == [k \in DOMAIN ls |-> ls[CHOOSE i \in DOMAIN ls : PlaceIn(ls)[i] = k]]

\* BeforeIn is the relation Before, as a set of pairs.
LEMMA PairIsBefore ==
  ASSUME NEW ls, NEW i \in DOMAIN ls, NEW j \in DOMAIN ls
  PROVE  <<i, j>> \in BeforeIn(ls) <=> Before(ls, i, j)
<1>1. PICK x : x = <<i, j>>
  OBVIOUS
<1>2. x \in (DOMAIN ls) \X (DOMAIN ls) /\ x[1] = i /\ x[2] = j
  BY <1>1
<1>3. x \in BeforeIn(ls) <=> Before(ls, x[1], x[2])
  BY <1>2 DEF BeforeIn
<1> QED BY <1>1, <1>2, <1>3, Zenon

\* The ranking is a strict total order, ties being broken by place.
LEMMA RankingOrders ==
  ASSUME NEW ls \in Seq(AnyLine), NEW n \in Nat, n = Len(ls)
  PROVE  Orders(BeforeIn(ls), n)
<1>1. DOMAIN ls = 1 .. n
  OBVIOUS
<1>2. \A i, j \in 1 .. n : <<i, j>> \in BeforeIn(ls) <=> Before(ls, i, j)
  BY <1>1, PairIsBefore, Zenon
<1>3. \A i \in 1 .. n : ls[i].bbox.x1 \in Int /\ ls[i].bbox.y1 \in Int
  <2>1. \A l \in AnyLine : l.bbox.x1 \in Int /\ l.bbox.y1 \in Int
    BY DEF AnyLine, BBox
  <2>2. \A i \in 1 .. n : ls[i] \in AnyLine
    BY <1>1
  <2> QED BY <2>1, <2>2, Zenon
<1>4. \A i \in 1 .. n : ~Before(ls, i, i)
  BY <1>3 DEF Before
<1>5. \A i, j, k \in 1 .. n : Before(ls, i, j) /\ Before(ls, j, k) => Before(ls, i, k)
  BY <1>3 DEF Before
<1>6. \A i, j \in 1 .. n : i # j => Before(ls, i, j) \/ Before(ls, j, i)
  BY <1>3 DEF Before
<1> QED BY <1>2, <1>4, <1>5, <1>6 DEF Orders

\* Ranked by counting predecessors, each line has a place of its own.
LEMMA PlacesIn ==
  ASSUME NEW ls \in Seq(AnyLine), NEW n \in Nat, n = Len(ls)
  PROVE  OneEach(PlaceIn(ls), n)
<1>1. DOMAIN ls = 1 .. n
  OBVIOUS
<1>2. \A i \in 1 .. n : {j \in DOMAIN ls : Before(ls, j, i)} = Below(BeforeIn(ls), n, i)
  BY <1>1, PairIsBefore, Zenon DEF Below
<1>3. PlaceIn(ls) = [i \in 1 .. n |-> Cardinality(Below(BeforeIn(ls), n, i)) + 1]
  BY <1>1, <1>2, Zenon DEF PlaceIn
<1>4. Orders(BeforeIn(ls), n)
  BY RankingOrders
<1> QED BY <1>3, <1>4, PlacesAreTaken, Zenon DEF Ranks

\* The ranked lines are the lines.
LEMMA RankedLines ==
  ASSUME NEW T, T \subseteq AnyLine, NEW ls \in Seq(T)
  PROVE  Ranked(ls) \in Seq(T) /\ ToSet(Ranked(ls)) = ToSet(ls)
<1>0. ls \in Seq(AnyLine)
  BY Wider
<1>1. PICK n \in Nat : n = Len(ls) /\ DOMAIN ls = 1 .. n
  OBVIOUS
<1>2. /\ PlaceIn(ls) \in [1 .. n -> 1 .. n]
      /\ \A i, j \in 1 .. n : PlaceIn(ls)[i] = PlaceIn(ls)[j] => i = j
      /\ \A k \in 1 .. n : \E i \in 1 .. n : PlaceIn(ls)[i] = k
  BY <1>0, <1>1, PlacesIn DEF OneEach
<1> DEFINE at(k) == CHOOSE i \in DOMAIN ls : PlaceIn(ls)[i] = k
<1>3. \A k \in 1 .. n : at(k) \in 1 .. n /\ PlaceIn(ls)[at(k)] = k
  BY <1>1, <1>2, Zenon
<1>4. Ranked(ls) = [k \in DOMAIN ls |-> ls[at(k)]]
  BY Zenon DEF Ranked
<1> HIDE DEF at
<1>5. \A i \in 1 .. n : PlaceIn(ls)[i] \in 1 .. n /\ at(PlaceIn(ls)[i]) = i
  BY <1>2, <1>3
<1>6. \A k \in 1 .. n : ls[at(k)] \in T
  BY <1>1, <1>3
<1>7. Ranked(ls) \in Seq(T) /\ DOMAIN Ranked(ls) = 1 .. n
  BY <1>1, <1>4, <1>6
<1>8. ASSUME NEW x PROVE x \in ToSet(Ranked(ls)) <=> x \in ToSet(ls)
  <2>1. x \in ToSet(Ranked(ls)) <=> \E k \in 1 .. n : x = ls[at(k)]
    BY <1>1, <1>4, <1>7 DEF ToSet
  <2>2. x \in ToSet(ls) <=> \E i \in 1 .. n : x = ls[i]
    BY <1>1 DEF ToSet
  <2> QED BY <1>3, <1>5, <2>1, <2>2, Zenon
<1> QED BY <1>7, <1>8

-----------------------------------------------------------------------------
(* What a matcher finds *)

\* FirstOf gives nothing, or one of the options that are something.
LEMMA FirstOfOptions ==
  ASSUME NEW n \in Nat, NEW o, o = [k \in 1 .. n |-> o[k]]
  PROVE  FirstOf(o) = << >> \/ \E k \in 1 .. n : o[k] # << >> /\ FirstOf(o) = o[k]
<1>1. Len(o) = n
  OBVIOUS
<1> DEFINE I == {i \in 1 .. Len(o) : o[i] # << >>}
<1>2. FirstOf(o) = IF (IF I # {} THEN Min(I) ELSE 0) = 0 THEN << >>
                   ELSE o[IF I # {} THEN Min(I) ELSE 0]
  BY Zenon DEF FirstOf, SelectInSeq
<1>3. CASE I = {}
  BY <1>2, <1>3
<1>4. CASE I # {}
  <2>1. I \in SUBSET Nat
    OBVIOUS
  <2>2. Min(I) \in I
    <3> HIDE DEF I
    <3> QED BY <1>4, <2>1, MinIsLeast
  <2>3. Min(I) \in 1 .. n /\ o[Min(I)] # << >> /\ Min(I) # 0
    BY <1>1, <2>2
  <2> HIDE DEF I
  <2> QED BY <1>2, <1>4, <2>3
<1> QED BY <1>3, <1>4

\* t is what is read on line l for field f.
Source(f, l, t) ==
  \/ t = l.text
  \/ l.text.caption # "none" /\ \E label \in Labels(f) : t = value_after_label(l.text, label)
  \/ t = [caption |-> "none", tail |-> l.text.tail]
  \/ t = [caption |-> l.text.caption, tail |-> << >>]

\* l is the nearest line on the right of one with words.
Beside(l, ranked) ==
  \E from \in ToSet(ranked) :
    /\ from.text.caption # "none" /\ IsRight(from, l)
    /\ \A other \in ToSet(ranked) : IsRight(from, other) => l.bbox.x1 <= other.bbox.x1

\* h is what field f has found on line l.
FoundOn(h, f, l, t) ==
  /\ parse_typed(f.type, t) # << >>
  /\ h = <<[value |-> parse_typed(f.type, t)[1], line |-> l]>>

\* h is nothing, or found on one of the ranked lines; if by a label, then on a
\* line with words or beside one.
Hit(h, f, ranked, label) ==
  h = << >> \/ \E l \in ToSet(ranked) : \E t :
                 /\ FoundOn(h, f, l, t) /\ Source(f, l, t)
                 /\ label => l.text.caption # "none" \/ Beside(l, ranked)

\* A value read from a part of line l is attributed to l.
LEMMA ReadHits ==
  ASSUME NEW f, NEW ranked, NEW l \in ToSet(ranked), NEW t, Source(f, l, t), NEW label,
         label => l.text.caption # "none" \/ Beside(l, ranked)
  PROVE  Hit(Read(f, t, l), f, ranked, label)
<1>1. CASE parse_typed(f.type, t) = << >>
  BY <1>1, Zenon DEF Read, Hit
<1>2. CASE parse_typed(f.type, t) # << >>
  <2>1. FoundOn(Read(f, t, l), f, l, t)
    BY <1>2, Zenon DEF Read, FoundOn
  <2> QED BY <2>1, Zenon DEF Hit
<1> QED BY <1>1, <1>2

\* FirstOf finds what one of its options found.
LEMMA FirstHits ==
  ASSUME NEW n \in Nat, NEW o, o = [k \in 1 .. n |-> o[k]], NEW f, NEW ranked, NEW label,
         \A k \in 1 .. n : Hit(o[k], f, ranked, label)
  PROVE  Hit(FirstOf(o), f, ranked, label)
<1>1. FirstOf(o) = << >> \/ \E k \in 1 .. n : o[k] # << >> /\ FirstOf(o) = o[k]
  BY FirstOfOptions
<1>2. Hit(<< >>, f, ranked, label)
  BY Zenon DEF Hit
<1> QED BY <1>1, <1>2, Zenon

\* A function on a stretch of the numbers has a least value on each part of it.
LEMMA LeastValue ==
  ASSUME NEW n \in Nat, NEW x \in [1 .. n -> Int], NEW T \in SUBSET (1 .. n), T # {}
  PROVE  \E i \in T : \A j \in T : x[i] <= x[j]
<1> DEFINE Q(m) == \A U \in SUBSET (1 .. m) : U # {} => \E i \in U : \A j \in U : x[i] <= x[j]
           Good == {m \in 0 .. n : Q(m)}
<1>1. 0 \in Good
  <2>1. \A U \in SUBSET (1 .. 0) : U = {}
    OBVIOUS
  <2>2. Q(0)
    BY <2>1, Zenon
  <2> QED BY <2>2
<1>2. ASSUME NEW m \in 1 .. n, m - 1 \in Good PROVE m \in Good
  <2> SUFFICES ASSUME NEW U \in SUBSET (1 .. m), U # {}
               PROVE  \E i \in U : \A j \in U : x[i] <= x[j]
    OBVIOUS
  <2>1. Q(m - 1)
    BY <1>2
  <2>2. PICK V : V = U \ {m}
    OBVIOUS
  <2>3. V \in SUBSET (1 .. m - 1)
    BY <2>2
  <2>4. \A j \in 1 .. m : x[j] \in Int
    OBVIOUS
  <2>5. CASE V = {}
    <3>1. U = {m}
      BY <2>2, <2>5
    <3> QED BY <2>4, <3>1
  <2>6. CASE V # {}
    <3>1. PICK i \in V : \A j \in V : x[i] <= x[j]
      BY <2>1, <2>3, <2>6
    <3>2. i \in U /\ \A j \in U : j \in V \/ j = m
      BY <2>2
    <3>3. CASE m \in U /\ x[m] < x[i]
      <4>1. \A j \in U : x[m] <= x[j]
        BY <2>4, <3>1, <3>2, <3>3
      <4> QED BY <3>3, <4>1
    <3>4. CASE ~(m \in U /\ x[m] < x[i])
      <4>1. \A j \in U : x[i] <= x[j]
        BY <2>4, <3>1, <3>2, <3>4
      <4> QED BY <3>2, <4>1
    <3> QED BY <3>3, <3>4
  <2> QED BY <2>5, <2>6
<1>3. n \in Good
  <2> HIDE DEF Good
  <2>1. 0 .. n \subseteq Good
    BY <1>1, <1>2, Induction
  <2> QED BY <2>1
<1> QED BY <1>3

\* line_to_the_right gives nothing, or the leftmost line on the right of l.
LEMMA RightIsNearest ==
  ASSUME NEW ranked \in Seq(AnyLine), NEW l
  PROVE  \/ line_to_the_right(l, ranked) = << >>
         \/ \E r \in ToSet(ranked) :
              /\ line_to_the_right(l, ranked) = <<r>> /\ IsRight(l, r)
              /\ \A other \in ToSet(ranked) : IsRight(l, other) => r.bbox.x1 <= other.bbox.x1
<1>1. PICK n \in Nat : n = Len(ranked) /\ DOMAIN ranked = 1 .. n
  OBVIOUS
<1> DEFINE right   == {i \in DOMAIN ranked : IsRight(l, ranked[i])}
           nearest == {i \in right : \A j \in right : ranked[i].bbox.x1 <= ranked[j].bbox.x1}
           x == [i \in 1 .. n |-> ranked[i].bbox.x1]
<1>2. line_to_the_right(l, ranked) = IF right = {} THEN << >> ELSE <<ranked[Min(nearest)]>>
  BY Zenon DEF line_to_the_right
<1>3. CASE right = {}
  BY <1>2, <1>3, Zenon
<1>4. CASE right # {}
  <2>1. right \in SUBSET (1 .. n)
    BY <1>1
  <2>2. \A i \in 1 .. n : ranked[i] \in AnyLine
    BY <1>1
  <2>3. \A i \in 1 .. n : ranked[i].bbox.x1 \in Int
    BY <2>2 DEF AnyLine, BBox
  <2>4. x \in [1 .. n -> Int]
    BY <2>3
  <2>5. \E i \in right : \A j \in right : x[i] <= x[j]
    <3> HIDE DEF x, right
    <3> QED BY <1>4, <2>1, <2>4, LeastValue
  <2>6. \A i \in right : x[i] = ranked[i].bbox.x1
    BY <2>1
  <2>7. nearest # {} /\ nearest \in SUBSET Nat
    <3> HIDE DEF x, right
    <3>1. nearest # {}
      BY <2>5, <2>6, Zenon
    <3>2. nearest \subseteq right
      BY Zenon
    <3>3. nearest \in SUBSET Nat
      <4> HIDE DEF nearest
      <4> QED BY <2>1, <3>2
    <3> QED BY <3>1, <3>3, Zenon
  <2>8. Min(nearest) \in nearest
    <3> HIDE DEF nearest
    <3> QED BY <2>7, MinIsLeast
  <2>9. PICK i \in nearest : i = Min(nearest)
    BY <2>8
  <2>10. /\ i \in DOMAIN ranked /\ IsRight(l, ranked[i])
         /\ \A j \in DOMAIN ranked : IsRight(l, ranked[j]) => ranked[i].bbox.x1 <= ranked[j].bbox.x1
    <3> HIDE DEF x
    <3> QED BY <2>9, Zenon
  <2>11. line_to_the_right(l, ranked) = <<ranked[i]>>
    BY <1>2, <1>4, <2>9, Zenon
  <2> HIDE DEF nearest, right
  <2>12. ranked[i] \in ToSet(ranked)
    BY <2>10, Zenon DEF ToSet
  <2>13. \A other \in ToSet(ranked) : IsRight(l, other) => ranked[i].bbox.x1 <= other.bbox.x1
    BY <2>10, Zenon DEF ToSet
  <2> QED BY <2>10, <2>11, <2>12, <2>13, Zenon
<1> QED BY <1>3, <1>4

\* The first of two hits is a hit.
LEMMA TwoOptions ==
  ASSUME NEW a, NEW b, NEW f, NEW ranked, NEW label, Hit(a, f, ranked, label), Hit(b, f, ranked, label)
  PROVE  Hit(FirstOf(<<a, b>>), f, ranked, label)
<1>1. PICK o : o = <<a, b>>
  OBVIOUS
<1>2. o = [k \in 1 .. 2 |-> o[k]] /\ o[1] = a /\ o[2] = b
  BY <1>1
<1>3. \A k \in 1 .. 2 : k = 1 \/ k = 2
  OBVIOUS
<1>4. \A k \in 1 .. 2 : Hit(o[k], f, ranked, label)
  BY <1>2, <1>3, Zenon
<1>5. 2 \in Nat
  OBVIOUS
<1> QED BY <1>1, <1>2, <1>4, <1>5, FirstHits, Zenon

\* Beside a label, or on its line.
LEMMA NearRightHits ==
  ASSUME NEW ranked \in Seq(AnyLine), NEW f, NEW l \in ToSet(ranked), NEW t, Source(f, l, t),
         l.text.caption # "none"
  PROVE  Hit(NearRight(f, l, t, ranked), f, ranked, TRUE)
<1>1. Hit(Read(f, t, l), f, ranked, TRUE)
  BY ReadHits, Zenon
<1>2. PICK right : right = line_to_the_right(l, ranked)
  OBVIOUS
<1> DEFINE second == IF right = << >> THEN << >> ELSE Read(f, right[1].text, right[1])
<1>3. NearRight(f, l, t, ranked) = FirstOf(<<Read(f, t, l), second>>)
  BY <1>2, Zenon DEF NearRight
<1>4. Hit(second, f, ranked, TRUE)
  <2>1. CASE right = << >>
    BY <2>1, Zenon DEF Hit
  <2>2. CASE right # << >>
    <3>1. PICK r \in ToSet(ranked) :
            /\ right = <<r>> /\ IsRight(l, r)
            /\ \A other \in ToSet(ranked) : IsRight(l, other) => r.bbox.x1 <= other.bbox.x1
      BY <1>2, <2>2, RightIsNearest, Zenon
    <3>2. Beside(r, ranked)
      BY <3>1, Zenon DEF Beside
    <3>3. right[1] = r
      BY <3>1
    <3>4. Source(f, r, r.text)
      BY Zenon DEF Source
    <3>5. Hit(Read(f, r.text, r), f, ranked, TRUE)
      BY <3>2, <3>4, ReadHits, Zenon
    <3> QED BY <2>2, <3>3, <3>5, Zenon
  <2> QED BY <2>1, <2>2
<1> HIDE DEF second
<1> QED BY <1>1, <1>3, <1>4, TwoOptions, Zenon

\* No value is attributed to no line.
LEMMA NothingHits ==
  ASSUME NEW f, NEW ranked, NEW label
  PROVE  Hit(<< >>, f, ranked, label)
BY Zenon DEF Hit

\* A label matcher finds a value on a line with words, or beside one.
LEMMA LabelHits ==
  ASSUME NEW ranked \in Seq(AnyLine), NEW f, NEW m \in Matcher, NEW l \in ToSet(ranked),
         ToSet(m.labels) \subseteq Labels(f)
  PROVE  Hit(LabelHit(f, m, l, ranked), f, ranked, TRUE)
<1>1. PICK n \in Nat : n = Len(m.labels) /\ DOMAIN m.labels = 1 .. n
  BY DEF Matcher
<1> DEFINE e(k) == LET part == value_after_label(l.text, m.labels[k])
                   IN  IF <<m.labels[k], l.text.caption>> \notin Similar THEN << >>
                       ELSE IF m.near_right THEN NearRight(f, l, part, ranked) ELSE Read(f, part, l)
           o == [k \in DOMAIN m.labels |-> e(k)]
<1>2. LabelHit(f, m, l, ranked) = FirstOf(o)
  BY Zenon DEF LabelHit
<1>3. ASSUME NEW k \in 1 .. n PROVE Hit(e(k), f, ranked, TRUE)
  <2>1. PICK t : t = value_after_label(l.text, m.labels[k])
    OBVIOUS
  <2>2. e(k) = IF <<m.labels[k], l.text.caption>> \notin Similar THEN << >>
               ELSE IF m.near_right THEN NearRight(f, l, t, ranked) ELSE Read(f, t, l)
    BY <2>1, Zenon
  <2> HIDE DEF e
  <2>3. CASE <<m.labels[k], l.text.caption>> \notin Similar
    BY <2>2, <2>3, NothingHits, Zenon
  <2>4. CASE <<m.labels[k], l.text.caption>> \in Similar
    <3>1. PICK x : x = <<m.labels[k], l.text.caption>>
      OBVIOUS
    <3>2. x \in Similar \cup DOMAIN Over /\ x[2] = l.text.caption
      BY <2>4, <3>1
    <3>3. l.text.caption # "none"
      BY <3>2, WordsAssumption, Zenon
    <3>4. Source(f, l, t)
      <4>1. m.labels[k] \in Labels(f)
        BY <1>1, Zenon DEF ToSet
      <4> QED BY <2>1, <3>3, <4>1, Zenon DEF Source
    <3>5. Hit(NearRight(f, l, t, ranked), f, ranked, TRUE)
      BY <3>3, <3>4, NearRightHits
    <3>6. Hit(Read(f, t, l), f, ranked, TRUE)
      BY <3>3, <3>4, ReadHits, Zenon
    <3> QED BY <2>2, <2>4, <3>5, <3>6, Zenon
  <2> QED BY <2>3, <2>4
<1> HIDE DEF e
<1>4. o = [k \in 1 .. n |-> o[k]] /\ \A k \in 1 .. n : o[k] = e(k)
  BY <1>1
<1> HIDE DEF o
<1>5. \A k \in 1 .. n : Hit(o[k], f, ranked, TRUE)
  BY <1>3, <1>4, Zenon
<1>6. Hit(FirstOf(o), f, ranked, TRUE)
  BY <1>4, <1>5, FirstHits
<1> QED BY <1>2, <1>6, Zenon

\* A pattern finds a value on the line it is tried on.
LEMMA RegexHits ==
  ASSUME NEW f, NEW m \in Matcher, NEW ranked, NEW l \in ToSet(ranked), ValidMatcher(m), m.kind = "regex"
  PROVE  Hit(RegexHit(f, m, l), f, ranked, FALSE)
<1>1. m.pattern.group \in {"after", "unset", "all"}
  BY DEF Matcher, ValidMatcher
<1>2. Hit(Read(f, [caption |-> "none", tail |-> l.text.tail], l), f, ranked, FALSE)
  <2>1. Source(f, l, [caption |-> "none", tail |-> l.text.tail])
    BY Zenon DEF Source
  <2> QED BY <2>1, ReadHits, Zenon
<1>3. Hit(Read(f, [caption |-> l.text.caption, tail |-> << >>], l), f, ranked, FALSE)
  <2>1. Source(f, l, [caption |-> l.text.caption, tail |-> << >>])
    BY Zenon DEF Source
  <2> QED BY <2>1, ReadHits, Zenon
<1>4. RegexHit(f, m, l) \in {<< >>, Read(f, [caption |-> "none", tail |-> l.text.tail], l),
                            Read(f, [caption |-> l.text.caption, tail |-> << >>], l)}
  BY <1>1 DEF RegexHit
<1> QED BY <1>2, <1>3, <1>4, NothingHits, Zenon

\* A positional matcher finds a value on the line it is tried on.
LEMMA PositionalHits ==
  ASSUME NEW f, NEW m, NEW ranked, NEW l \in ToSet(ranked), NEW candidates
  PROVE  Hit(PositionalHit(f, m, l, candidates), f, ranked, FALSE)
<1>1. Source(f, l, l.text)
  BY Zenon DEF Source
<1>2. Hit(Read(f, l.text, l), f, ranked, FALSE)
  BY <1>1, ReadHits, Zenon
<1>3. PositionalHit(f, m, l, candidates) \in {<< >>, Read(f, l.text, l)}
  BY Zenon DEF PositionalHit
<1> QED BY <1>2, <1>3, NothingHits, Zenon

\* The candidates of a matcher are ranked lines.
LEMMA CandidatesAreRanked ==
  ASSUME NEW ranked \in Seq(AnyLine), NEW e \in Int, e <= Len(ranked)
  PROVE  /\ \E n \in Nat : DOMAIN SubSeq(ranked, 1, e) = 1 .. n
         /\ \A i \in DOMAIN SubSeq(ranked, 1, e) : SubSeq(ranked, 1, e)[i] \in ToSet(ranked)
<1>1. CASE e < 1
  <2>1. SubSeq(ranked, 1, e) = << >>
    BY <1>1
  <2>2. DOMAIN << >> = 1 .. 0 /\ 0 \in Nat /\ 1 .. 0 = {}
    OBVIOUS
  <2> QED BY <2>1, <2>2, Zenon
<1>2. CASE e >= 1
  <2>1. e \in Nat /\ DOMAIN SubSeq(ranked, 1, e) = 1 .. e
    BY <1>2
  <2>2. \A i \in 1 .. e : SubSeq(ranked, 1, e)[i] = ranked[i] /\ i \in DOMAIN ranked
    BY <1>2
  <2> QED BY <2>1, <2>2, Zenon DEF ToSet
<1> QED BY <1>1, <1>2

\* What one matcher finds, by its kind.
LEMMA MatcherHits ==
  ASSUME NEW ranked \in Seq(AnyLine), NEW f, NEW m \in Matcher, ValidMatcher(m),
         ToSet(m.labels) \subseteq Labels(f)
  PROVE  Hit(apply_matcher(f, m, ranked), f, ranked, m.kind = "label")
<1> DEFINE n == IF m.max_top_n = << >> THEN Len(ranked) ELSE m.max_top_n[1]
           e == IF n < 0 THEN Len(ranked) + n ELSE Min({n, Len(ranked)})
           candidates == SubSeq(ranked, 1, e)
           hit(i) == CASE m.kind = "label"      -> LabelHit(f, m, candidates[i], ranked)
                       [] m.kind = "regex"      -> RegexHit(f, m, candidates[i])
                       [] m.kind = "positional" -> PositionalHit(f, m, candidates[i], candidates)
           o == [i \in DOMAIN candidates |-> hit(i)]
<1>1. apply_matcher(f, m, ranked) = FirstOf(o)
  BY Zenon DEF apply_matcher
<1>2. e \in Int /\ e <= Len(ranked)
  <2>1. n \in Int /\ Len(ranked) \in Nat
    BY DEF Matcher
  <2> HIDE DEF n
  <2>2. CASE n < 0
    BY <2>1, <2>2
  <2>3. CASE n >= 0
    <3>1. PICK T : T = {n, Len(ranked)}
      OBVIOUS
    <3>2. T \in SUBSET Nat /\ T # {} /\ Len(ranked) \in T
      BY <2>1, <2>3, <3>1
    <3>3. Min(T) \in T /\ \A y \in T : Min(T) <= y
      BY <3>2, MinIsLeast
    <3>4. Min(T) \in Int /\ Min(T) <= Len(ranked)
      <4>1. Min(T) \in Nat /\ Min(T) <= Len(ranked)
        BY <3>2, <3>3, Zenon
      <4> QED BY <4>1
    <3>5. e = Min(T)
      BY <2>1, <2>3, <3>1
    <3> QED BY <3>4, <3>5, Zenon
  <2> QED BY <2>1, <2>2, <2>3
<1> HIDE DEF e
<1>3. PICK a \in Nat : DOMAIN candidates = 1 .. a
  BY <1>2, CandidatesAreRanked, Zenon
<1>4. \A i \in DOMAIN candidates : candidates[i] \in ToSet(ranked)
  BY <1>2, CandidatesAreRanked, Zenon
<1> HIDE DEF candidates
<1>5. m.kind \in {"label", "regex", "positional"}
  BY DEF Matcher
<1>6. ASSUME NEW i \in 1 .. a PROVE Hit(hit(i), f, ranked, m.kind = "label")
  <2>1. PICK l \in ToSet(ranked) : l = candidates[i]
    BY <1>3, <1>4
  <2>2. CASE m.kind = "label"
    <3>1. hit(i) = LabelHit(f, m, l, ranked)
      BY <2>1, <2>2
    <3>2. (m.kind = "label") = TRUE
      BY <2>2
    <3> QED BY <3>1, <3>2, LabelHits, Zenon
  <2>3. CASE m.kind = "regex"
    <3>1. hit(i) = RegexHit(f, m, l)
      BY <2>1, <2>3
    <3>2. (m.kind = "label") = FALSE
      BY <2>3
    <3> QED BY <2>3, <3>1, <3>2, RegexHits, Zenon
  <2>4. CASE m.kind = "positional"
    <3>1. hit(i) = PositionalHit(f, m, l, candidates)
      BY <2>1, <2>4
    <3>2. (m.kind = "label") = FALSE
      BY <2>4
    <3> QED BY <3>1, <3>2, PositionalHits, Zenon
  <2> QED BY <1>5, <2>2, <2>3, <2>4, Zenon
<1> HIDE DEF hit
<1>7. o = [k \in 1 .. a |-> o[k]] /\ \A k \in 1 .. a : o[k] = hit(k)
  BY <1>3
<1> HIDE DEF o
<1>8. \A k \in 1 .. a : Hit(o[k], f, ranked, m.kind = "label")
  BY <1>6, <1>7, Zenon
<1>9. Hit(FirstOf(o), f, ranked, m.kind = "label")
  BY <1>7, <1>8, FirstHits, Zenon
<1> QED BY <1>1, <1>9, Zenon

\* What extract_one finds is found by one of its matchers.
LEMMA FieldHits ==
  ASSUME NEW ranked \in Seq(AnyLine), NEW f, f.matchers \in Seq(Matcher),
         \A k \in DOMAIN f.matchers : ValidMatcher(f.matchers[k])
  PROVE  Hit(extract_one(f, ranked), f, ranked,
             \A k \in DOMAIN f.matchers : f.matchers[k].kind = "label")
<1>1. PICK n \in Nat : n = Len(f.matchers) /\ DOMAIN f.matchers = 1 .. n
  OBVIOUS
<1>2. PICK label : label = (\A k \in DOMAIN f.matchers : f.matchers[k].kind = "label")
  OBVIOUS
<1> DEFINE o == [k \in DOMAIN f.matchers |-> apply_matcher(f, f.matchers[k], ranked)]
<1>3. extract_one(f, ranked) = FirstOf(o)
  BY Zenon DEF extract_one
<1>4. ASSUME NEW k \in 1 .. n PROVE Hit(apply_matcher(f, f.matchers[k], ranked), f, ranked, label)
  <2>1. PICK m \in Matcher : m = f.matchers[k]
    BY <1>1
  <2>2. ValidMatcher(m)
    BY <1>1, <2>1, Zenon
  <2>3. Hit(apply_matcher(f, m, ranked), f, ranked, m.kind = "label")
    <3>1. ToSet(m.labels) \subseteq Labels(f)
      BY <1>1, <2>1, Zenon DEF Labels
    <3> QED BY <2>2, <3>1, MatcherHits
  <2>4. label => m.kind = "label"
    BY <1>1, <1>2, <2>1, Zenon
  <2>5. Hit(apply_matcher(f, m, ranked), f, ranked, label)
    BY <2>3, <2>4, Zenon DEF Hit
  <2> QED BY <2>1, <2>5, Zenon
<1>5. o = [k \in 1 .. n |-> o[k]] /\ \A k \in 1 .. n : o[k] = apply_matcher(f, f.matchers[k], ranked)
  BY <1>1
<1> HIDE DEF o
<1>6. \A k \in 1 .. n : Hit(o[k], f, ranked, label)
  BY <1>4, <1>5, Zenon
<1>7. Hit(FirstOf(o), f, ranked, label)
  BY <1>5, <1>6, FirstHits, Zenon
<1> QED BY <1>2, <1>3, <1>7, Zenon

\* What SchemaAssumption says of one field.
LEMMA SchemasAreTyped ==
  ASSUME NEW s \in Schemas, NEW i \in DOMAIN s
  PROVE  /\ s[i] \in FieldSchema /\ s[i].matchers \in Seq(Matcher)
         /\ \A k \in DOMAIN s[i].matchers : ValidMatcher(s[i].matchers[k])
<1>1. ValidSchema(s)
  BY SchemaAssumption, Zenon
<1>2. s \in Seq(FieldSchema)
  BY <1>1 DEF ValidSchema
<1>3. s[i] \in FieldSchema
  BY <1>2
<1>4. s[i].matchers \in Seq(Matcher)
  BY <1>3 DEF FieldSchema
<1> QED BY <1>1, <1>3, <1>4, Zenon DEF ValidSchema

\* What a stage has found in the lines it has read.
LEMMA FieldsAreFound ==
  ASSUME IInv, NEW i \in DOMAIN fields
  PROVE  /\ i \in DOMAIN schema /\ stage \in Extracted
         /\ lines = LinesOf(file) /\ file \in Files /\ schema \in Schemas
         /\ \E ranked \in Seq(AnyLine) :
              /\ ToSet(ranked) = ToSet(lines)
              /\ Hit(fields[i], schema[i], ranked,
                     \A k \in DOMAIN schema[i].matchers : schema[i].matchers[k].kind = "label")
<1>1. stage \in Extracted
  <2> SUFFICES ASSUME stage \notin Extracted PROVE FALSE
    OBVIOUS
  <2>1. fields = << >>
    BY DEF IInv
  <2> QED BY <2>1
<1>2. fields = extract_fields(schema, lines) /\ file \in Files /\ schema \in Schemas
  BY <1>1, Zenon DEF IInv
<1>3. stage # "inspected"
  BY <1>1 DEF Extracted
<1>4. lines = LinesOf(file)
  BY <1>3 DEF IInv
<1>5. fields = [k \in DOMAIN schema |-> extract_one(schema[k], Ranked(lines))]
  BY <1>2, Zenon DEF extract_fields, Ranked, PlaceIn
<1>6. i \in DOMAIN schema
  BY <1>5, Zenon
<1>7. lines \in Seq(AnyLine)
  <2>1. FromLayer(file) \subseteq AnyLine /\ FromScan(file) \subseteq AnyLine
    BY DEF FromLayer, FromScan
  <2> QED BY <1>2, <1>4, <2>1, LinesAreTheFiles, Wider, Zenon
<1>8. PICK ranked \in Seq(AnyLine) : ranked = Ranked(lines) /\ ToSet(ranked) = ToSet(lines)
  <2>1. AnyLine \subseteq AnyLine
    OBVIOUS
  <2> QED BY <1>7, <2>1, RankedLines, Zenon
<1>9. fields[i] = extract_one(schema[i], ranked)
  BY <1>5, <1>6, <1>8
<1>10. Hit(extract_one(schema[i], ranked), schema[i], ranked,
           \A k \in DOMAIN schema[i].matchers : schema[i].matchers[k].kind = "label")
  <2>1. PICK f : f = schema[i]
    OBVIOUS
  <2>2. f.matchers \in Seq(Matcher) /\ \A k \in DOMAIN f.matchers : ValidMatcher(f.matchers[k])
    BY <1>2, <1>6, <2>1, SchemasAreTyped, Zenon
  <2>3. Hit(extract_one(f, ranked), f, ranked, \A k \in DOMAIN f.matchers : f.matchers[k].kind = "label")
    BY <2>2, FieldHits, Zenon
  <2> QED BY <2>1, <2>3, Zenon
<1> QED BY <1>1, <1>2, <1>4, <1>6, <1>8, <1>9, <1>10, Zenon

\* The line a field was found on is one of the lines.
LEMMA FoundOnALine ==
  ASSUME IInv, NEW i \in DOMAIN fields, fields[i] # << >>
  PROVE  \E l \in ToSet(lines) : \E t :
           /\ l \in AnyLine /\ fields[i][1].line = l
           /\ FoundOn(fields[i], schema[i], l, t) /\ Source(schema[i], l, t)
           /\ fields[i][1].value = parse_typed(schema[i].type, t)[1]
<1>1. PICK ranked \in Seq(AnyLine) :
        /\ ToSet(ranked) = ToSet(lines)
        /\ Hit(fields[i], schema[i], ranked,
               \A k \in DOMAIN schema[i].matchers : schema[i].matchers[k].kind = "label")
  BY FieldsAreFound, Zenon
<1>2. PICK l \in ToSet(ranked) : \E t : FoundOn(fields[i], schema[i], l, t) /\ Source(schema[i], l, t)
  BY <1>1, Zenon DEF Hit
<1>3. PICK t : FoundOn(fields[i], schema[i], l, t) /\ Source(schema[i], l, t)
  BY <1>2, Zenon
<1>4. fields[i][1].line = l /\ fields[i][1].value = parse_typed(schema[i].type, t)[1]
  <2>1. PICK h : h = fields[i]
    OBVIOUS
  <2>2. PICK v : v = parse_typed(schema[i].type, t)[1]
    OBVIOUS
  <2>3. h = <<[value |-> v, line |-> l]>>
    BY <1>3, <2>1, <2>2, Zenon DEF FoundOn
  <2>4. h[1].line = l /\ h[1].value = v
    BY ONLY <2>3
  <2> QED BY <2>1, <2>2, <2>4, Zenon
<1>5. l \in AnyLine
  BY DEF ToSet
<1> QED BY <1>1, <1>3, <1>4, <1>5, Zenon

\* Whatever the boxes and however many lines there are, a value that
\* line_to_the_right finds is the nearest one beside a label: every line is
\* among the ranked ones, and each has been looked at.
THEOREM NothingBetweenCorrect == Spec => []NothingBetween
<1>1. IInv => NothingBetween
  <2> SUFFICES ASSUME IInv, NEW i \in DOMAIN fields, fields[i] # << >>,
                      \A k \in DOMAIN schema[i].matchers : schema[i].matchers[k].kind = "label",
                      fields[i][1].line.text.caption = "none"
               PROVE  \E l \in ToSet(lines) :
                        /\ l.text.caption # "none" /\ IsRight(l, fields[i][1].line)
                        /\ \A other \in ToSet(lines) :
                             IsRight(l, other) => fields[i][1].line.bbox.x1 <= other.bbox.x1
    BY Zenon DEF NothingBetween
  <2>1. PICK ranked \in Seq(AnyLine) :
          /\ ToSet(ranked) = ToSet(lines)
          /\ Hit(fields[i], schema[i], ranked,
                 \A k \in DOMAIN schema[i].matchers : schema[i].matchers[k].kind = "label")
    BY FieldsAreFound, Zenon
  <2>2. PICK l \in ToSet(ranked) : \E t :
          FoundOn(fields[i], schema[i], l, t) /\ (l.text.caption # "none" \/ Beside(l, ranked))
    BY <2>1, Zenon DEF Hit
  <2>3. PICK t : FoundOn(fields[i], schema[i], l, t)
    BY <2>2, Zenon
  <2>4. fields[i][1].line = l
    <3>1. PICK h : h = fields[i]
      OBVIOUS
    <3>2. PICK v : v = parse_typed(schema[i].type, t)[1]
      OBVIOUS
    <3>3. h = <<[value |-> v, line |-> l]>>
      BY <2>3, <3>1, <3>2, Zenon DEF FoundOn
    <3>4. h[1].line = l
      BY ONLY <3>3
    <3> QED BY <3>1, <3>4, Zenon
  <2>5. Beside(l, ranked)
    BY <2>2, <2>4, Zenon
  <2> QED BY <2>1, <2>4, <2>5, Zenon DEF Beside
<1> QED BY <1>1, StagesInOrder, PTL

-----------------------------------------------------------------------------
(* Amounts *)

\* A text, caption included, is a sequence of tokens to parse_money.
LEMMA TextTokens ==
  ASSUME NEW t, t.tail \in Seq(Token)
  PROVE  Tokens(t) \in Seq(Token)
<1>1. Sym("x") \in Token
  <2>1. "x" \in Kind /\ "x" # "run"
    BY DEF Kind
  <2> QED BY <2>1, SymIsToken, Zenon
<1>2. <<Sym("x")>> \in Seq(Token) /\ << >> \in Seq(Token)
  BY <1>1
<1>3. PICK w \in Seq(Token) : w = IF t.caption = "none" THEN << >> ELSE <<Sym("x")>>
  BY <1>2, Zenon
<1>4. w \o t.tail \in Seq(Token)
  BY Concatenation
<1> QED BY <1>3, <1>4, Zenon DEF Tokens

\* So is the text of a line.
LEMMA LineTokens ==
  ASSUME NEW l \in AnyLine
  PROVE  l.text.tail \in Seq(Token) /\ Tokens(l.text) \in Seq(Token)
<1>1. l.text \in Text
  BY DEF AnyLine
<1>2. l.text.tail \in Seq(Token)
  BY <1>1 DEF Text
<1> QED BY <1>2, TextTokens

\* The lines of a reachable state are lines.
LEMMA LinesHere ==
  ASSUME IInv, NEW i \in DOMAIN lines
  PROVE  lines[i] \in AnyLine
<1>1. stage # "inspected"
  <2> SUFFICES ASSUME stage = "inspected" PROVE FALSE
    OBVIOUS
  <2>1. lines = << >>
    BY DEF IInv
  <2> QED BY <2>1
<1>2. lines = LinesOf(file) /\ file \in Files
  BY <1>1 DEF IInv
<1> QED BY <1>2, LinesAreTyped, Zenon

\* The "Rule" of money.py, for texts of every length with runs of any length.
THEOREM MoneyCorrect == Spec => []MoneyIsWhole
<1>1. IInv => MoneyIsWhole
  <2> SUFFICES ASSUME IInv, NEW i \in DOMAIN lines, OneNumber(Tokens(lines[i].text))
               PROVE  IF Len(DigitsIn(Tokens(lines[i].text))) > MaxDigits
                      THEN parse_money(Tokens(lines[i].text)) = << >>
                      ELSE /\ parse_money(Tokens(lines[i].text)) # << >>
                           /\ Magnitude(parse_money(Tokens(lines[i].text))[1])
                                = Value(DigitsIn(Tokens(lines[i].text)))
    BY Zenon DEF MoneyIsWhole
  <2>1. Tokens(lines[i].text) \in Seq(Token)
    BY LinesHere, LineTokens
  <2> QED BY <2>1, NoDigitIsLost, Zenon
<1> QED BY <1>1, StagesInOrder, PTL

\* A caption is one word before the rest of the text.
LEMMA CaptionTokens ==
  ASSUME NEW t, t.tail \in Seq(Token)
  PROVE  /\ t.caption = "none" => Tokens(t) = t.tail
         /\ t.caption # "none" =>
              /\ Len(Tokens(t)) = 1 + Len(t.tail) /\ Tokens(t)[1].t = "x"
              /\ \A k \in 1 .. Len(t.tail) : Tokens(t)[1 + k] = t.tail[k]
<1>1. PICK r \in Seq(Token) : r = t.tail
  OBVIOUS
<1>2. CASE t.caption = "none"
  <2>1. Tokens(t) = << >> \o r
    BY <1>1, <1>2, Zenon DEF Tokens
  <2>2. << >> \o r = r
    OBVIOUS
  <2> QED BY <1>1, <1>2, <2>1, <2>2, Zenon
<1>3. CASE t.caption # "none"
  <2>1. PICK x \in Token : x = Sym("x") /\ x.t = "x"
    <3>1. "x" \in Kind /\ "x" # "run"
      BY DEF Kind
    <3> QED BY <3>1, SymIsToken, Zenon
  <2>2. Tokens(t) = <<x>> \o r
    BY <1>1, <1>3, <2>1, Zenon DEF Tokens
  <2>3. /\ Len(<<x>> \o r) = 1 + Len(r) /\ (<<x>> \o r)[1] = x
        /\ \A k \in 1 .. Len(r) : (<<x>> \o r)[1 + k] = r[k]
    OBVIOUS
  <2> QED BY <1>1, <1>3, <2>1, <2>2, <2>3, Zenon
<1> QED BY <1>2, <1>3

\* What follows a caption, and the blanks and signs behind it.
LEMMA TailRest ==
  ASSUME NEW t, t.tail \in Seq(Token), t.caption # "none", NEW m \in 0 .. Len(t.tail),
         \A k \in 1 .. m : t.tail[k].t \in Skipped
  PROVE  Rest(SubSeq(t.tail, m + 1, Len(t.tail)), m + 1, Tokens(t))
<1>1. PICK r \in Seq(Token), n \in Nat : r = t.tail /\ n = Len(r)
  OBVIOUS
<1>2. PICK u : u = SubSeq(r, m + 1, n)
  OBVIOUS
<1>3. m \in 0 .. n
  BY <1>1
<1>4. u \in Seq(Token) /\ Len(u) = n - m /\ \A k \in 1 .. n - m : u[k] = r[m + k]
  BY <1>1, <1>2, <1>3
<1>5. PICK s \in Seq(Token) : s = Tokens(t)
  BY TextTokens
<1>6. Len(s) = 1 + n /\ s[1].t = "x" /\ \A k \in 1 .. n : s[1 + k] = r[k]
  BY <1>1, <1>5, CaptionTokens, Zenon
<1>7. \A k \in 1 .. Len(u) : u[k] = s[m + 1 + k]
  <2> SUFFICES ASSUME NEW k \in 1 .. n - m PROVE u[k] = s[m + 1 + k]
    BY <1>4
  <2>1. m + k \in 1 .. n /\ 1 + (m + k) = m + 1 + k
    BY <1>3
  <2> QED BY <1>4, <1>6, <2>1
<1>8. ASSUME NEW k \in 1 .. m + 1 PROVE s[k].t \in Skipped
  <2>1. CASE k = 1
    BY <1>6, <2>1 DEF Skipped
  <2>2. CASE k # 1
    <3>1. k - 1 \in 1 .. m /\ k - 1 \in 1 .. n /\ 1 + (k - 1) = k
      BY <1>3, <2>2
    <3>2. s[k] = r[k - 1]
      BY <1>6, <3>1
    <3> QED BY <1>1, <3>1, <3>2
  <2> QED BY <2>1, <2>2
<1>9. m + 1 \in Nat /\ m + 1 + Len(u) = Len(s)
  BY <1>3, <1>4, <1>6
<1>10. m + 1 + Len(u) <= Len(s)
  BY <1>6, <1>9
<1>11. Rest(u, m + 1, s)
  BY <1>4, <1>7, <1>8, <1>9, <1>10 DEF Rest, Within
<1> QED BY <1>1, <1>2, <1>5, <1>11, Zenon

\* Texts with no more digits than s.
Shorter(s) == {u \in Seq(Token) : Len(DigitsIn(u)) <= Len(DigitsIn(s))}

\* How many digits a text has.
LEMMA DigitCount ==
  ASSUME NEW s \in Seq(Token)
  PROVE  DigitsIn(s) \in Seq(Digit) /\ Len(DigitsIn(s)) \in Nat
<1>1. Within(s, 0, s)
  BY DEF Within
<1>2. DigitsIn(s) \in Seq(Digit)
  BY <1>1, DigitsPart, Zenon
<1> HIDE DEF Digit
<1> QED BY <1>2

\* The token of words.
LEMMA Words ==
  Sym("x") \in Token /\ Sym("x").t = "x" /\ Sym("x").d = << >>
<1>1. "x" \in Kind /\ "x" # "run"
  BY DEF Kind
<1> QED BY <1>1, SymIsToken DEF Sym

\* Without its first character a text has no more digits.
LEMMA CutOneShortens ==
  ASSUME NEW s \in Seq(Token)
  PROVE  CutOne(s) \in Shorter(s)
<1>1. CASE s = << >>
  <2>1. CutOne(s) = s
    BY <1>1, Zenon DEF CutOne
  <2>2. Len(DigitsIn(s)) <= Len(DigitsIn(s))
    BY DigitCount
  <2> QED BY <2>1, <2>2, Zenon DEF Shorter
<1>2. CASE s # << >>
  <2>1. PICK x \in Token, r \in Seq(Token) : x = s[1] /\ r = Tail(s) /\ s = <<x>> \o r
    <3>1. s[1] \in Token /\ Tail(s) \in Seq(Token) /\ s = <<s[1]>> \o Tail(s)
      BY <1>2
    <3> QED BY <3>1
  <2>2. PICK n \in Nat, m \in Nat : n = Len(x.d) /\ m = Len(DigitsIn(r)) /\ x.d \in Seq(Digit)
    <3>1. x.d \in Seq(Digit)
      BY TokenDigits, Zenon
    <3>2. Len(x.d) \in Nat
      <4> HIDE DEF Digit
      <4> QED BY <3>1
    <3> QED BY <3>1, <3>2, DigitCount
  <2>3. Len(DigitsIn(s)) = n + m
    BY <2>1, <2>2, DigitsInFront, Zenon
  <2>4. ASSUME NEW y \in Token, NEW k \in Nat, k = Len(y.d), k <= n, CutOne(s) = <<y>> \o r
        PROVE  CutOne(s) \in Shorter(s)
    <3>1. <<y>> \o r \in Seq(Token)
      OBVIOUS
    <3>2. Len(DigitsIn(<<y>> \o r)) = k + m
      BY <2>2, <2>4, DigitsInFront, Zenon
    <3>3. k + m <= n + m
      BY <2>4
    <3> QED BY <2>3, <2>4, <3>1, <3>2, <3>3, Zenon DEF Shorter
  <2>5. CASE n > 1
    <3>1. PICK y \in Token : y = Run(Tail(x.d)) /\ Len(y.d) = n - 1
      <4>1. Tail(x.d) \in Seq(Digit) /\ Tail(x.d) # << >> /\ Len(Tail(x.d)) = n - 1
        <5>1. PICK ds \in Seq(Digit) : ds = x.d /\ Len(ds) = n
          BY <2>2, Zenon
        <5> HIDE DEF Digit
        <5>2. ds # << >> /\ Tail(ds) \in Seq(Digit) /\ Len(Tail(ds)) = n - 1
          BY <2>5, <5>1
        <5>3. Tail(ds) # << >>
          <6>1. n - 1 # 0 /\ Len(<< >>) = 0
            BY <2>5
          <6> QED BY <5>2, <6>1, Zenon
        <5> QED BY <5>1, <5>2, <5>3, Zenon
      <4> QED BY <4>1, RunIsToken, Zenon
    <3>2. CutOne(s) = <<y>> \o r
      BY <1>2, <2>1, <2>2, <2>5, <3>1, Zenon DEF CutOne
    <3>3. n - 1 \in Nat /\ n - 1 <= n
      BY <2>5
    <3> QED BY <2>4, <3>1, <3>2, <3>3
  <2>6. CASE ~(n > 1) /\ x.t \in {"rp", "date"}
    <3>1. PICK y \in Token : y = Sym("x") /\ Len(y.d) = 0
      BY Words
    <3>2. CutOne(s) = <<y>> \o r
      BY <1>2, <2>1, <2>2, <2>6, <3>1, Zenon DEF CutOne
    <3>3. 0 \in Nat /\ 0 <= n
      OBVIOUS
    <3> QED BY <2>4, <3>1, <3>2, <3>3
  <2>7. CASE ~(n > 1) /\ x.t \notin {"rp", "date"}
    <3>1. CutOne(s) = r
      BY <1>2, <2>1, <2>2, <2>7, Zenon DEF CutOne
    <3>2. m <= n + m
      OBVIOUS
    <3> QED BY <2>2, <2>3, <3>1, <3>2, Zenon DEF Shorter
  <2> QED BY <2>5, <2>6, <2>7
<1> QED BY <1>1, <1>2

\* Nor has it without its first n characters, whatever they are.
LEMMA CutShortens ==
  ASSUME NEW s \in Seq(Token), NEW n \in Nat
  PROVE  Cut(s, n) \in Shorter(s) /\ (n = 0 => Cut(s, n) = s)
<1>1. PICK S : S = Shorter(s)
  OBVIOUS
<1>2. s \in S
  <2>1. Len(DigitsIn(s)) <= Len(DigitsIn(s))
    BY DigitCount
  <2> QED BY <1>1, <2>1, Zenon DEF Shorter
<1>3. \A u \in S : CutOne(u) \in S
  <2> SUFFICES ASSUME NEW u \in Seq(Token), Len(DigitsIn(u)) <= Len(DigitsIn(s))
               PROVE  CutOne(u) \in Shorter(s)
    BY <1>1 DEF Shorter
  <2>1. PICK v : v = CutOne(u)
    OBVIOUS
  <2>2. v \in Seq(Token) /\ Len(DigitsIn(v)) <= Len(DigitsIn(u))
    BY <2>1, CutOneShortens DEF Shorter
  <2>3. Len(DigitsIn(v)) <= Len(DigitsIn(s))
    <3>1. Len(DigitsIn(u)) \in Nat /\ Len(DigitsIn(v)) \in Nat /\ Len(DigitsIn(s)) \in Nat
      BY <2>2, DigitCount
    <3> QED BY <2>2, <3>1
  <2> QED BY <2>1, <2>2, <2>3, Zenon DEF Shorter
<1> DEFINE P(w) == w = [k \in 0 .. n |-> IF k = 0 THEN s ELSE CutOne(w[k - 1])]
           c == CHOOSE w : P(w)
           step == [x \in S \X (1 .. n) |-> CutOne(x[1])]
<1>4. step \in Steps(S, n) /\ \A u \in S : \A k \in 1 .. n : step[<<u, k>>] = CutOne(u)
  BY <1>3 DEF Steps
<1> HIDE DEF step
<1>5. PICK g : Follows(g, S, s, n, step)
  BY <1>2, <1>4, Recursion
<1>6. g \in [0 .. n -> S] /\ g[0] = s
  BY <1>5 DEF Follows
<1>7. ASSUME NEW k \in 1 .. n PROVE g[k] = CutOne(g[k - 1])
  <2>1. k - 1 \in 0 .. n
    OBVIOUS
  <2>2. g[k - 1] \in S
    BY <1>6, <2>1
  <2>3. g[k] = step[<<g[k - 1], k>>]
    BY <1>5 DEF Follows
  <2> QED BY <1>4, <2>2, <2>3
<1>8. P(g)
  <2>1. \A k \in 0 .. n : g[k] = IF k = 0 THEN s ELSE CutOne(g[k - 1])
    BY <1>6, <1>7
  <2> QED BY <1>6, <2>1
<1>9. P(c)
  BY <1>8, Zenon
<1>10. Cut(s, n) = c[n]
  BY DEF Cut
<1> HIDE DEF c
<1>11. \A k \in 0 .. n : c[k] = IF k = 0 THEN s ELSE CutOne(c[k - 1])
  BY <1>9
<1> HIDE DEF P
<1>12. \A k \in 0 .. n : c[k] \in S
  <2> DEFINE T == {k \in 0 .. n : c[k] \in S}
  <2>1. 0 \in T
    BY <1>2, <1>11
  <2>2. ASSUME NEW k \in 1 .. n, k - 1 \in T PROVE k \in T
    BY <1>3, <1>11, <2>2
  <2> HIDE DEF T
  <2>3. 0 .. n \subseteq T
    BY <2>1, <2>2, Induction
  <2> QED BY <2>3 DEF T
<1>13. n \in 0 .. n
  OBVIOUS
<1> QED BY <1>1, <1>10, <1>11, <1>12, <1>13

\* What follows a label has no more digits than what follows the caption.
LEMMA CutTokens ==
  ASSUME NEW s \in Seq(Token), NEW n \in Int
  PROVE  /\ Cut(s, n) \in Shorter(s)
         /\ n = 0 => Cut(s, n) = s
         /\ n < 0 => Cut(s, n) = <<Sym("x")>> \o s
<1>1. CASE n < 0
  <2>1. Cut(s, n) = <<Sym("x")>> \o s
    BY <1>1 DEF Cut
  <2>2. PICK x \in Token : x = Sym("x") /\ x.d = << >>
    BY Words
  <2>3. <<x>> \o s \in Seq(Token) /\ Len(x.d) = 0
    BY <2>2
  <2>4. Len(DigitsIn(<<x>> \o s)) = 0 + Len(DigitsIn(s))
    BY <2>3, DigitsInFront, Zenon
  <2>5. 0 + Len(DigitsIn(s)) <= Len(DigitsIn(s))
    BY DigitCount
  <2>6. <<x>> \o s \in Shorter(s)
    BY <2>3, <2>4, <2>5, Zenon DEF Shorter
  <2>7. n # 0
    BY <1>1
  <2> QED BY <2>1, <2>2, <2>6, <2>7, Zenon
<1>2. CASE ~(n < 0)
  <2>1. n \in Nat
    BY <1>2
  <2> QED BY <1>2, <2>1, CutShortens, Zenon
<1> QED BY <1>1, <1>2

\* lstrip takes off blanks and signs, and no digits.
LEMMA Stripped ==
  ASSUME NEW s \in Seq(Token)
  PROVE  /\ \E m \in 0 .. Len(s) : /\ LStrip(s) = SubSeq(s, m + 1, Len(s))
                                  /\ \A k \in 1 .. m : s[k].t \in {" ", ":", "=", "-"}
         /\ LStrip(s) \in Shorter(s)
<1> DEFINE lead == {n \in 0 .. Len(s) : \A i \in 1 .. n : s[i].t \in {" ", ":", "=", "-"}}
<1>1. Len(s) \in Nat
  OBVIOUS
<1>2. LStrip(s) = SubSeq(s, Max(lead) + 1, Len(s))
  BY Zenon DEF LStrip
<1>3. Max(lead) \in lead
  <2>1. lead \subseteq 0 .. Len(s) /\ 0 \in lead
    <3>1. 0 \in 0 .. Len(s) /\ \A i \in 1 .. 0 : FALSE
      BY <1>1
    <3> QED BY <3>1, Zenon
  <2> HIDE DEF lead
  <2>2. PICK x \in lead : \A y \in lead : y <= x
    BY <1>1, <2>1, Greatest
  <2>3. x \in lead /\ \A y \in lead : x >= y
    BY <1>1, <2>1, <2>2
  <2> QED BY <2>3, Zenon DEF Max
<1>4. PICK m \in 0 .. Len(s) : m = Max(lead) /\ \A k \in 1 .. m : s[k].t \in {" ", ":", "=", "-"}
  BY <1>3, Zenon
<1> HIDE DEF lead
<1>5. PICK u : u = SubSeq(s, m + 1, Len(s)) /\ u = LStrip(s)
  BY <1>2, <1>4, Zenon
<1>6. Within(u, m, s)
  <2>1. u \in Seq(Token) /\ Len(u) = Len(s) - m /\ \A k \in 1 .. Len(s) - m : u[k] = s[m + k]
    BY <1>1, <1>5
  <2> QED BY <1>1, <2>1 DEF Within
<1>7. u \in Seq(Token)
  BY <1>6 DEF Within
<1>a. PICK ds \in Seq(Digit) : ds = DigitsIn(u)
  BY <1>6, DigitsPart, Zenon
<1>8. PICK l \in Seq(Digit), r \in Seq(Digit) : DigitsIn(s) = (l \o DigitsIn(u)) \o r
  <2>1. /\ DigitsIn(u) \in Seq(Digit) /\ DigitsIn(s) \in Seq(Digit)
        /\ \E l, r \in Seq(Digit) :
             /\ DigitsIn(s) = (l \o DigitsIn(u)) \o r
             /\ NoRuns(s, 1, m) => l = << >>
             /\ NoRuns(s, m + Len(u) + 1, Len(s)) => r = << >>
    BY ONLY <1>6, DigitsPart, Zenon
  <2> QED BY ONLY <2>1, Zenon
<1>9. Len(ds) <= Len(DigitsIn(s))
  <2> HIDE DEF Digit
  <2>1. Len((l \o ds) \o r) = Len(l) + Len(ds) + Len(r)
    OBVIOUS
  <2>2. Len(ds) <= Len(l) + Len(ds) + Len(r)
    <3>1. Len(l) \in Nat /\ Len(r) \in Nat /\ Len(ds) \in Nat
      OBVIOUS
    <3> QED BY <3>1
  <2> QED BY <1>a, <1>8, <2>1, <2>2, Zenon
<1>10. u \in Shorter(s)
  BY <1>7, <1>a, <1>9, Zenon DEF Shorter
<1> QED BY <1>4, <1>5, <1>10, Zenon

\* What is read of a line has no more digits than the line, whatever is cut.
LEMMA SourceDigits ==
  ASSUME NEW l \in AnyLine, NEW f, NEW t, Source(f, l, t)
  PROVE  t.tail \in Shorter(l.text.tail)
<1>1. PICK r \in Seq(Token) : r = l.text.tail
  BY LineTokens
<1>2. r \in Shorter(r) /\ << >> \in Shorter(r)
  <2>1. << >> \in Seq(Token) /\ Len(DigitsIn(r)) \in Nat
    BY DigitCount
  <2>2. DigitsIn(<< >>) = << >>
    <3>1. [k \in DOMAIN << >> |-> << >>[k].d] = << >>
      OBVIOUS
    <3> QED BY <3>1, FlattenNothing, Zenon DEF DigitsIn
  <2>3. Len(DigitsIn(<< >>)) <= Len(DigitsIn(r)) /\ Len(DigitsIn(r)) <= Len(DigitsIn(r))
    BY <2>1, <2>2
  <2> QED BY <2>1, <2>3, Zenon DEF Shorter
<1>3. \A x, y : [caption |-> x, tail |-> y].tail = y
  OBVIOUS
<1>4. CASE \E label : t = value_after_label(l.text, label)
  <2>1. PICK label : t = value_after_label(l.text, label)
    BY <1>4
  <2>2. PICK match : match = <<label, l.text.caption>>
    OBVIOUS
  <2>3. CASE match \notin DOMAIN Over
    <3>1. t = l.text
      BY <2>1, <2>2, <2>3, Zenon DEF value_after_label
    <3> QED BY <1>1, <1>2, <3>1, Zenon
  <2>4. CASE match \in DOMAIN Over
    <3>1. PICK n \in Int : n = Over[match]
      BY <2>4, WordsAssumption
    <3>2. PICK c : c = Cut(r, n)
      OBVIOUS
    <3>3. t.tail = LStrip(c)
      BY <1>1, <1>3, <2>1, <2>2, <2>4, <3>1, <3>2, Zenon DEF value_after_label
    <3>4. c \in Seq(Token) /\ Len(DigitsIn(c)) <= Len(DigitsIn(r))
      BY <3>2, CutTokens DEF Shorter
    <3>5. t.tail \in Seq(Token) /\ Len(DigitsIn(t.tail)) <= Len(DigitsIn(c))
      BY <3>3, <3>4, Stripped DEF Shorter
    <3>6. Len(DigitsIn(t.tail)) <= Len(DigitsIn(r))
      <4>1. /\ Len(DigitsIn(t.tail)) \in Nat /\ Len(DigitsIn(c)) \in Nat
            /\ Len(DigitsIn(r)) \in Nat
        BY <3>4, <3>5, DigitCount
      <4> QED BY <3>4, <3>5, <4>1
    <3> QED BY <1>1, <3>5, <3>6, Zenon DEF Shorter
  <2> QED BY <2>3, <2>4
<1>5. CASE t = l.text
  BY <1>1, <1>2, <1>5, Zenon
<1>6. CASE t = [caption |-> "none", tail |-> l.text.tail]
  <2>1. t.tail = l.text.tail
    BY <1>3, <1>6, Zenon
  <2> QED BY <1>1, <1>2, <2>1, Zenon
<1>7. CASE t = [caption |-> l.text.caption, tail |-> << >>]
  <2>1. t.tail = << >>
    BY <1>3, <1>7, Zenon
  <2> QED BY <1>1, <1>2, <2>1, Zenon
<1> QED BY <1>4, <1>5, <1>6, <1>7, Zenon DEF Source

\* What is read of a line is the line itself, or what follows its caption; or
\* there is no amount in it.
LEMMA SourceRest ==
  ASSUME NEW l \in AnyLine, NEW f, NEW t, Source(f, l, t), t # l.text,
         parse_money(Tokens(t)) # << >>, ~Overlong(f, l.text.caption)
  PROVE  l.text.caption # "none" /\ \E a : Rest(Tokens(t), a, Tokens(l.text))
<1>1. PICK c, r : /\ c = l.text.caption /\ r = l.text.tail /\ r \in Seq(Token)
                  /\ l.text = [caption |-> c, tail |-> r]
  <2>1. l.text.tail \in Seq(Token)
    BY LineTokens
  <2>2. l.text \in Text
    BY DEF AnyLine
  <2>3. l.text = [caption |-> l.text.caption, tail |-> l.text.tail]
    BY <2>2 DEF Text
  <2> QED BY <2>1, <2>3, Zenon
<1> USE <1>1
<1>2. \A x, y : [caption |-> x, tail |-> y].caption = x /\ [caption |-> x, tail |-> y].tail = y
  OBVIOUS
\* With m tokens gone behind the caption.
<1>3. ASSUME c # "none", NEW m \in 0 .. Len(r), \A k \in 1 .. m : r[k].t \in Skipped,
             t = [caption |-> "none", tail |-> SubSeq(r, m + 1, Len(r))]
      PROVE  l.text.caption # "none" /\ \E a : Rest(Tokens(t), a, Tokens(l.text))
  <2>1. PICK u : u = SubSeq(r, m + 1, Len(r))
    OBVIOUS
  <2>2. t.caption = "none" /\ t.tail = u
    BY <1>2, <1>3, <2>1, Zenon
  <2>3. Rest(u, m + 1, Tokens(l.text))
    BY <1>1, <1>3, <2>1, TailRest, Zenon
  <2>4. u \in Seq(Token)
    BY <2>3, RestPlaces
  <2>5. Tokens(t) = u
    BY <2>2, <2>4, CaptionTokens, Zenon
  <2> QED BY <1>1, <1>3, <2>3, <2>5, Zenon
<1>4. CASE t = [caption |-> "none", tail |-> r]
  <2>1. c # "none"
    BY <1>1, <1>4, Zenon
  <2>2. 0 \in 0 .. Len(r) /\ SubSeq(r, 0 + 1, Len(r)) = r /\ \A k \in 1 .. 0 : r[k].t \in Skipped
    OBVIOUS
  <2> QED BY <1>3, <1>4, <2>1, <2>2, Zenon
<1>5. CASE t = [caption |-> c, tail |-> << >>]
  <2>1. t.tail = << >> /\ t.tail \in Seq(Token) /\ Len(t.tail) = 0
    BY <1>5
  <2>2. PICK s \in Seq(Token) : s = Tokens(t)
    BY <2>1, TextTokens
  <2>3. \A k \in DOMAIN s : s[k].t # "run"
    <3>1. CASE t.caption = "none"
      <4>1. s = << >>
        BY <2>1, <2>2, <3>1, CaptionTokens, Zenon
      <4> QED BY <4>1
    <3>2. CASE t.caption # "none"
      <4>1. Len(s) = 1 + 0 /\ s[1].t = "x"
        BY <2>1, <2>2, <3>2, CaptionTokens, Zenon
      <4>2. DOMAIN s = {1}
        BY <4>1
      <4> QED BY <4>1, <4>2
    <3> QED BY <3>1, <3>2
  <2>4. FALSE
    BY <2>2, <2>3, NothingToRead
  <2> QED BY <2>4
<1>6. CASE c # "none" /\ \E label \in Labels(f) : t = value_after_label(l.text, label)
  <2>1. PICK label \in Labels(f) : t = value_after_label(l.text, label)
    BY <1>6
  <2>2. PICK match : match = <<label, c>>
    OBVIOUS
  <2>3. match \in DOMAIN Over
    BY <1>1, <2>1, <2>2, Zenon DEF value_after_label
  <2>4. PICK n \in Int : n = Over[match]
    BY <2>3, WordsAssumption
  <2>5. ~(n > 0)
    BY <1>1, <2>2, <2>3, <2>4, Zenon DEF Overlong
  <2>6. t = [caption |-> "none", tail |-> LStrip(Cut(r, n))]
    BY <1>1, <2>1, <2>2, <2>3, <2>4, Zenon DEF value_after_label
  <2>7. CASE n = 0
    <3>1. t = [caption |-> "none", tail |-> LStrip(r)]
      BY <2>6, <2>7, CutTokens, Zenon
    <3>2. PICK m \in 0 .. Len(r) : /\ LStrip(r) = SubSeq(r, m + 1, Len(r))
                                  /\ \A k \in 1 .. m : r[k].t \in {" ", ":", "=", "-"}
      BY Stripped, Zenon
    <3>3. \A k \in 1 .. m : r[k].t \in Skipped
      BY <3>2 DEF Skipped
    <3> QED BY <1>3, <1>6, <3>1, <3>2, <3>3, Zenon
  <2>8. CASE n < 0
    <3>1. PICK s \in Seq(Token) : s = Tokens(l.text)
      BY LineTokens
    <3>2. Cut(r, n) = s
      BY <1>1, <1>6, <2>8, <3>1, CutTokens, Zenon DEF Tokens
    <3>3. Len(s) = 1 + Len(r) /\ s[1].t = "x"
      BY <1>1, <1>6, <3>1, CaptionTokens, Zenon
    <3>4. PICK m \in 0 .. Len(s) : /\ LStrip(s) = SubSeq(s, m + 1, Len(s))
                                  /\ \A k \in 1 .. m : s[k].t \in {" ", ":", "=", "-"}
      BY Stripped, Zenon
    <3>5. m = 0
      <4> SUFFICES ASSUME m # 0 PROVE FALSE
        OBVIOUS
      <4>1. 1 \in 1 .. m
        OBVIOUS
      <4>2. s[1].t \in {" ", ":", "=", "-"}
        BY <3>4, <4>1
      <4> QED BY <3>3, <4>2
    <3>6. LStrip(s) = s
      <4>1. SubSeq(s, 0 + 1, Len(s)) = s
        OBVIOUS
      <4> QED BY <3>4, <3>5, <4>1, Zenon
    <3>7. t.caption = "none" /\ t.tail = s
      BY <1>2, <2>6, <3>2, <3>6, Zenon
    <3>8. Tokens(t) = s
      BY <3>7, CaptionTokens, Zenon
    <3>9. Rest(s, 0, s)
      <4>1. Within(s, 0, s) /\ 0 + Len(s) = Len(s)
        BY DEF Within
      <4>2. \A k \in 1 .. 0 : s[k].t \in Skipped
        OBVIOUS
      <4> QED BY <4>1, <4>2 DEF Rest
    <3> QED BY <1>1, <1>6, <3>1, <3>8, <3>9, Zenon
  <2> QED BY <2>4, <2>5, <2>7, <2>8
<1> QED BY <1>1, <1>4, <1>5, <1>6, Zenon DEF Source

\* The amount of a field is an amount of its line, however many words, blanks
\* and signs are taken off before it is read, unless a label is too long.
LEMMA AmountsAreTheLines ==
  IInv => AmountIsTheLines
<1> SUFFICES ASSUME IInv, NEW i \in DOMAIN fields, schema[i].type = "money", fields[i] # << >>,
                    ~Overlong(schema[i], fields[i][1].line.text.caption)
             PROVE  LET amount  == fields[i][1].value
                        written == parse_money(Tokens(fields[i][1].line.text))
                    IN  /\ written # << >> /\ Magnitude(written[1]) = Magnitude(amount)
                        /\ written[1] # amount => fields[i][1].line.text.caption # "none"
  BY Zenon DEF AmountIsTheLines
<1>1. PICK l \in ToSet(lines) : \E t :
        /\ l \in AnyLine /\ fields[i][1].line = l
        /\ FoundOn(fields[i], schema[i], l, t) /\ Source(schema[i], l, t)
        /\ fields[i][1].value = parse_typed(schema[i].type, t)[1]
  BY FoundOnALine, Zenon
<1>2. PICK t : /\ l \in AnyLine /\ fields[i][1].line = l
               /\ FoundOn(fields[i], schema[i], l, t) /\ Source(schema[i], l, t)
               /\ fields[i][1].value = parse_typed(schema[i].type, t)[1]
  BY <1>1, Zenon
<1>3. parse_typed("money", t) # << >>
  BY <1>2, Zenon DEF FoundOn
<1>4. parse_typed("money", t) = parse_money(Tokens(t))
  <2>1. ~Blank(t)
    BY <1>3, Zenon DEF parse_typed
  <2> QED BY <2>1 DEF parse_typed
<1>5. PICK v : v = parse_money(Tokens(t)) /\ v # << >> /\ fields[i][1].value = v[1]
  BY <1>2, <1>3, <1>4, Zenon
<1>6. CASE t = l.text
  BY <1>2, <1>5, <1>6, Zenon
<1>7. CASE t # l.text
  <2>1. l.text.caption # "none" /\ \E a : Rest(Tokens(t), a, Tokens(l.text))
    BY <1>1, <1>2, <1>5, <1>7, SourceRest, Zenon
  <2>2. /\ parse_money(Tokens(l.text)) # << >>
        /\ Magnitude(parse_money(Tokens(l.text))[1]) = Magnitude(v[1])
    BY <1>5, <2>1, Dropped, Zenon
  <2> QED BY <1>2, <1>5, <2>1, <2>2, Zenon
<1> QED BY <1>6, <1>7

\* What is stored and shown as an amount is written on the line that it is
\* attributed to, with every matcher of every schema, unless a label of the
\* field is longer than the caption that value_after_label takes for it.
THEOREM AmountCorrect == Spec => []AmountIsTheLines
BY AmountsAreTheLines, StagesInOrder, PTL

-----------------------------------------------------------------------------
(* The answer *)

\* Rounding to the grid does not take a score below a threshold on the grid.
LEMMA RoundKeepsThreshold ==
  ASSUME NEW score \in Nat, NEW threshold \in Nat, threshold % Grid = 0, score >= threshold
  PROVE  Round(score) >= threshold
<1>0. Grid \in Nat /\ Grid > 0
  BY ScaleAssumption
<1>1. PICK a \in Nat : threshold = a * Grid
  <2>1. threshold = Grid * (threshold \div Grid) + (threshold % Grid) /\ threshold \div Grid \in Nat
    BY <1>0
  <2> QED BY <1>0, <2>1
<1>2. PICK b \in Int : b = (2 * score + Grid) \div (2 * Grid)
  BY <1>0
<1>3. 2 * score + Grid < (2 * Grid) * (b + 1)
  <2>1. PICK x \in Nat, y \in Nat : x = 2 * score + Grid /\ y = 2 * Grid /\ y > 0
    BY <1>0
  <2>2. x < y * (x \div y) + y
    BY <2>1
  <2>3. b = x \div y
    BY <1>2, <2>1
  <2>4. y * (b + 1) = y * b + y
    BY <2>1
  <2> QED BY <2>1, <2>2, <2>3, <2>4
<1>4. b >= a
  <2> SUFFICES ASSUME b + 1 <= a PROVE FALSE
    OBVIOUS
  <2>1. (2 * Grid) * (b + 1) <= (2 * Grid) * a
    BY <1>0
  <2>2. (2 * Grid) * a = 2 * threshold
    BY <1>0, <1>1
  <2> QED BY <1>0, <1>3, <2>1, <2>2
<1>5. b * Grid >= a * Grid
  BY <1>0, <1>4
<1> QED BY <1>1, <1>2, <1>5 DEF Round

\* Nor does it take one above it, though it may take one to it.
LEMMA RoundKeepsBelow ==
  ASSUME NEW score \in Nat, NEW threshold \in Nat, threshold % Grid = 0, score < threshold
  PROVE  Round(score) <= threshold
<1>0. Grid \in Nat /\ Grid > 0
  BY ScaleAssumption
<1>1. PICK a \in Nat : threshold = a * Grid
  <2>1. threshold = Grid * (threshold \div Grid) + (threshold % Grid) /\ threshold \div Grid \in Nat
    BY <1>0
  <2> QED BY <1>0, <2>1
<1>2. PICK b \in Int : b = (2 * score + Grid) \div (2 * Grid)
  BY <1>0
<1>3. (2 * Grid) * b <= 2 * score + Grid
  <2>1. PICK x \in Nat, y \in Nat : x = 2 * score + Grid /\ y = 2 * Grid /\ y > 0
    BY <1>0
  <2>2. y * (x \div y) <= x
    BY <2>1
  <2>3. b = x \div y
    BY <1>2, <2>1
  <2> QED BY <2>1, <2>2, <2>3
<1>4. b <= a
  <2> SUFFICES ASSUME a + 1 <= b PROVE FALSE
    OBVIOUS
  <2>1. (2 * Grid) * (a + 1) <= (2 * Grid) * b
    BY <1>0
  <2>2. (2 * Grid) * (a + 1) = 2 * threshold + 2 * Grid
    BY <1>0, <1>1
  <2> QED BY <1>0, <1>3, <2>1, <2>2
<1>5. b * Grid <= a * Grid
  BY <1>0, <1>4
<1> QED BY <1>1, <1>2, <1>5 DEF Round

\* What the entry of a field in a result says of what was found.
LEMMA StatusOfEntry ==
  ASSUME NEW f, NEW found
  PROVE  /\ FieldEntry(f, found).status = FieldStatus(f, found)
         /\ FieldStatus(f, found) \in {"missing", "low_confidence", "extracted"}
         /\ found = << >> => FieldEntry(f, found).page = << >>
         /\ found # << >> => /\ FieldEntry(f, found).confidence = Round(found[1].line.score)
                            /\ FieldEntry(f, found).page = <<found[1].line.page>>
BY DEF FieldEntry, FieldStatus

\* What a client that is answered has been told.
LEMMA Answered ==
  ASSUME IInv, response.code = "OK"
  PROVE  /\ DOMAIN fields = DOMAIN schema
         /\ response.status = build_result(schema, fields).status
         /\ response.issues = Issues(schema, fields)
         /\ \A i \in DOMAIN schema :
              /\ response.fields[i].status = FieldStatus(schema[i], fields[i])
              /\ response.fields[i].confidence = FieldEntry(schema[i], fields[i]).confidence
              /\ fields[i] # << >> => response.fields[i].page = <<fields[i][1].line.page>>
<1>1. stage = "answered"
  <2> SUFFICES ASSUME stage # "answered" PROVE FALSE
    OBVIOUS
  <2>1. response = NoResponse
    BY DEF IInv
  <2> QED BY <2>1 DEF NoResponse
<1>2. response = fill_result(schema, result)
  BY <1>1 DEF IInv
<1>3. result = build_result(schema, fields) /\ fields = extract_fields(schema, lines)
  <2>1. stage \in Stored /\ stage \in Extracted
    BY <1>1 DEF Stored, Extracted
  <2> QED BY <2>1, Zenon DEF IInv
<1>4. DOMAIN fields = DOMAIN schema
  BY <1>3, Zenon DEF extract_fields
<1> DEFINE answer == [code |-> "OK", status |-> result.status,
             fields |-> [i \in DOMAIN schema |->
               [result.fields[i] EXCEPT !.page = IF @ = << >> THEN <<1>> ELSE @]],
             issues |-> result.issues]
<1>5. response = answer
  <2>1. \/ response = answer
        \/ response = [code |-> "UNKNOWN", status |-> "none", fields |-> << >>, issues |-> {}]
    BY <1>2, Zenon DEF fill_result
  <2>2. [code |-> "UNKNOWN", status |-> "none", fields |-> << >>, issues |-> {}].code = "UNKNOWN"
    OBVIOUS
  <2> HIDE DEF answer
  <2> QED BY <2>1, <2>2
<1>6. /\ response.status = result.status /\ response.issues = result.issues
      /\ response.fields = [i \in DOMAIN schema |->
             [result.fields[i] EXCEPT !.page = IF @ = << >> THEN <<1>> ELSE @]]
  BY <1>5
<1>7. /\ result.issues = Issues(schema, fields)
      /\ result.fields = [i \in DOMAIN schema |-> FieldEntry(schema[i], fields[i])]
  BY <1>3 DEF build_result
<1> HIDE DEF answer
<1>8. ASSUME NEW i \in DOMAIN schema
      PROVE  /\ response.fields[i].status = FieldStatus(schema[i], fields[i])
             /\ response.fields[i].confidence = FieldEntry(schema[i], fields[i]).confidence
             /\ fields[i] # << >> => response.fields[i].page = <<fields[i][1].line.page>>
  <2>1. PICK e : e = FieldEntry(schema[i], fields[i])
    OBVIOUS
  <2>2. result.fields[i] = e
    BY <1>7, <2>1, Zenon
  <2>3. response.fields[i] = [e EXCEPT !.page = IF @ = << >> THEN <<1>> ELSE @]
    BY <1>6, <2>2, Zenon
  <2>4. DOMAIN e = {"status", "confidence", "value", "bbox", "page"}
    BY <2>1 DEF FieldEntry
  <2>5. /\ response.fields[i].status = e.status /\ response.fields[i].confidence = e.confidence
        /\ response.fields[i].page = IF e.page = << >> THEN <<1>> ELSE e.page
    <3>1. PICK r : r = response.fields[i]
      OBVIOUS
    <3>2. r = [e EXCEPT !.page = IF @ = << >> THEN <<1>> ELSE @]
      BY <2>3, <3>1, Zenon
    <3>3. r.status = e.status /\ r.confidence = e.confidence
          /\ r.page = IF e.page = << >> THEN <<1>> ELSE e.page
      BY ONLY <2>4, <3>2
    <3> QED BY <3>1, <3>3, Zenon
  <2>6. \A x : <<x>> # << >>
    OBVIOUS
  <2>7. /\ e.status = FieldStatus(schema[i], fields[i])
        /\ fields[i] # << >> => e.page = <<fields[i][1].line.page>>
    BY <2>1, StatusOfEntry
  <2>8. fields[i] # << >> => response.fields[i].page = <<fields[i][1].line.page>>
    BY <2>5, <2>6, <2>7, Zenon
  <2> QED BY <2>1, <2>5, <2>7, <2>8, Zenon
<1> QED BY <1>3, <1>4, <1>6, <1>7, <1>8, Zenon

\* build_result and fill_result, for every schema: the status is explained by
\* the fields, and no rounded confidence is on the wrong side of its threshold.
THEOREM StatusCorrect == Spec => []StatusIsExplained
<1>1. IInv => StatusIsExplained
  <2> SUFFICES ASSUME IInv, response.code = "OK" PROVE StatusIsExplained
    BY DEF StatusIsExplained
  <2> DEFINE st(i) == FieldStatus(schema[i], fields[i])
             blocking == \E i \in DOMAIN schema : schema[i].required /\ st(i) # "extracted"
             some == \E i \in DOMAIN schema : \/ st(i) = "low_confidence"
                                              \/ st(i) = "missing" /\ schema[i].required
  <2>1. \A i \in DOMAIN schema : response.fields[i].status = st(i)
    BY Answered, Zenon
  <2>2. \A i \in DOMAIN schema : st(i) \in {"missing", "low_confidence", "extracted"}
    BY StatusOfEntry, Zenon
  <2>3. Issues(schema, fields) # {} <=> some
    BY Zenon DEF Issues
  <2>4. response.status = IF blocking \/ Issues(schema, fields) # {} THEN "needs_review" ELSE "completed"
    <3>1. PICK w : w = IF blocking \/ Issues(schema, fields) # {} THEN "needs_review" ELSE "completed"
      OBVIOUS
    <3>2. build_result(schema, fields) =
            [status |-> w, fields |-> [i \in DOMAIN schema |-> FieldEntry(schema[i], fields[i])],
             issues |-> Issues(schema, fields)]
      BY <3>1, Zenon DEF build_result
    <3>3. build_result(schema, fields).status = w
      BY <3>2
    <3> QED BY <3>1, <3>3, Answered, Zenon
  <2> HIDE DEF st
  <2>5. blocking => some
    BY <2>2, Zenon
  <2>6. (response.status = "needs_review") <=> some
    <3>1. "needs_review" # "completed"
      OBVIOUS
    <3> QED BY <2>3, <2>4, <2>5, <3>1, Zenon
  <2>7. some <=> \E i \in DOMAIN schema :
                   \/ response.fields[i].status = "low_confidence"
                   \/ response.fields[i].status = "missing" /\ schema[i].required
    BY <2>1, Zenon
  <2>8. response.issues = Issues(schema, fields)
    BY Answered, Zenon
  <2>9. ASSUME NEW i \in DOMAIN schema, schema[i].threshold % Grid = 0,
               response.fields[i].status \in {"extracted", "low_confidence"}
        PROVE  /\ response.fields[i].status = "extracted"
                    => response.fields[i].confidence >= schema[i].threshold
               /\ response.fields[i].status = "low_confidence"
                    => response.fields[i].confidence <= schema[i].threshold
    <3>1. response.fields[i].status = st(i)
      BY <2>1, Zenon
    <3>2. /\ fields[i] # << >>
          /\ st(i) = "extracted" => ~(fields[i][1].line.score < schema[i].threshold)
          /\ st(i) = "low_confidence" => fields[i][1].line.score < schema[i].threshold
      BY <2>9, <3>1 DEF st, FieldStatus
    <3>3. i \in DOMAIN fields
      BY Answered, Zenon
    <3>4. PICK l \in ToSet(lines) : fields[i][1].line = l
      BY <3>2, <3>3, FoundOnALine, Zenon
    <3>5. PICK k \in DOMAIN lines : l = lines[k]
      BY <3>4, Zenon DEF ToSet
    <3>6. l.score \in Nat
      <4>1. lines = LinesOf(file) /\ file \in Files
        BY <3>3, FieldsAreFound, Zenon
      <4>2. l.score \in 1 .. MaxScore
        BY <3>5, <4>1, LinesAreTyped, Zenon
      <4> QED BY <4>2
    <3>7. schema[i].threshold \in Nat
      <4>1. schema[i] \in FieldSchema
        BY SchemasAreTyped, Zenon DEF IInv
      <4>2. schema[i].threshold \in 0 .. MaxScore
        BY <4>1 DEF FieldSchema
      <4> QED BY <4>2
    <3>8. st(i) = "extracted" => Round(l.score) >= schema[i].threshold
      <4> SUFFICES ASSUME st(i) = "extracted" PROVE Round(l.score) >= schema[i].threshold
        OBVIOUS
      <4>1. l.score >= schema[i].threshold
        BY <3>2, <3>4, <3>6, <3>7
      <4> QED BY <2>9, <3>6, <3>7, <4>1, RoundKeepsThreshold
    <3>9. st(i) = "low_confidence" => Round(l.score) <= schema[i].threshold
      <4> SUFFICES ASSUME st(i) = "low_confidence" PROVE Round(l.score) <= schema[i].threshold
        OBVIOUS
      <4>1. l.score < schema[i].threshold
        BY <3>2, <3>4, Zenon
      <4> QED BY <2>9, <3>6, <3>7, <4>1, RoundKeepsBelow
    <3>10. response.fields[i].confidence = Round(l.score)
      <4>1. response.fields[i].confidence = FieldEntry(schema[i], fields[i]).confidence
        BY Answered, Zenon
      <4>2. FieldEntry(schema[i], fields[i]).confidence = Round(fields[i][1].line.score)
        BY <3>2, StatusOfEntry
      <4> QED BY <3>4, <4>1, <4>2, Zenon
    <3> QED BY <3>1, <3>8, <3>9, <3>10, Zenon
  <2>10. \A i \in DOMAIN schema : schema[i].threshold % Grid = 0 =>
           /\ response.fields[i].status = "extracted"
                => response.fields[i].confidence >= schema[i].threshold
           /\ response.fields[i].status = "low_confidence"
                => response.fields[i].confidence <= schema[i].threshold
    BY <2>9, Zenon
  <2> QED BY <2>3, <2>6, <2>7, <2>8, <2>10, Zenon DEF StatusIsExplained
<1> QED BY <1>1, StagesInOrder, PTL

\* The page of normalize_layout_parsing, through extraction and result to the
\* client: wrong only in a scan of several pages, and then always page 1.
THEOREM PageCorrect == Spec => []PageIsTheFiles
<1>1. IInv => PageIsTheFiles
  <2> SUFFICES ASSUME IInv, response.code = "OK", NEW i \in DOMAIN schema, fields[i] # << >>
               PROVE  \/ response.fields[i].page = <<fields[i][1].line.from[1]>>
                      \/ /\ file.pdf /\ Len(file.pages) > 1 /\ digitalborn_lines(file) = << >>
                         /\ response.fields[i].page = <<1>>
    BY Zenon DEF PageIsTheFiles
  <2>1. i \in DOMAIN fields
    BY Answered, Zenon
  <2>2. PICK l \in ToSet(lines) : fields[i][1].line = l
    BY <2>1, FoundOnALine, Zenon
  <2>3. response.fields[i].page = <<l.page>>
    BY <2>2, Answered, Zenon
  <2>4. lines = LinesOf(file) /\ file \in Files
    BY <2>1, FieldsAreFound, Zenon
  <2>5. PICK k \in DOMAIN lines : l = lines[k]
    BY <2>2, Zenon DEF ToSet
  <2>6. CASE digitalborn_lines(file) # << >>
    <3>1. lines \in Seq(FromLayer(file))
      BY <2>4, <2>6, LinesAreTheFiles, Zenon
    <3>2. l \in FromLayer(file)
      BY <2>5, <3>1
    <3>3. l.page = l.from[1]
      BY <3>2 DEF FromLayer
    <3> QED BY <2>2, <2>3, <3>3, Zenon
  <2>7. CASE digitalborn_lines(file) = << >>
    <3>1. lines \in Seq(FromScan(file))
      BY <2>4, <2>7, LinesAreTheFiles, Zenon
    <3>2. l \in FromScan(file)
      BY <2>5, <3>1
    <3>3. l.from[1] \in DOMAIN file.pages /\ l.page = IF file.pdf THEN 1 ELSE l.from[1]
      BY <2>4, <3>2, ScanLine, Zenon
    <3>4. CASE l.page = l.from[1]
      BY <2>2, <2>3, <3>4, Zenon
    <3>5. CASE l.page # l.from[1]
      <4>1. file.pdf /\ l.page = 1
        BY <3>3, <3>5, Zenon
      <4>2. PICK n \in Nat : n = Len(file.pages) /\ DOMAIN file.pages = 1 .. n
        <5>1. file.pages \in Seq(Page)
          BY <2>4, FilesAreTyped DEF FileType
        <5> QED BY <5>1
      <4>3. n > 1
        BY <3>3, <3>5, <4>1, <4>2
      <4> QED BY <2>3, <2>7, <4>1, <4>2, <4>3, Zenon
    <3> QED BY <3>4, <3>5
  <2> QED BY <2>6, <2>7
<1> QED BY <1>1, StagesInOrder, PTL

-----------------------------------------------------------------------------
(* The order of the provider's lists *)

\* The line in a place is the one whose place it is.
LEMMA RankedAt ==
  ASSUME NEW ls \in Seq(AnyLine), NEW n \in Nat, n = Len(ls), NEW k \in 1 .. n
  PROVE  \E i \in 1 .. n : PlaceIn(ls)[i] = k /\ Ranked(ls)[k] = ls[i]
<1>1. DOMAIN ls = 1 .. n
  OBVIOUS
<1>2. OneEach(PlaceIn(ls), n)
  BY PlacesIn
<1> DEFINE i == CHOOSE j \in DOMAIN ls : PlaceIn(ls)[j] = k
<1>3. i \in 1 .. n /\ PlaceIn(ls)[i] = k
  <2>1. \E j \in DOMAIN ls : PlaceIn(ls)[j] = k
    BY <1>1, <1>2, Zenon DEF OneEach
  <2>2. i \in DOMAIN ls /\ PlaceIn(ls)[i] = k
    BY <2>1, Zenon
  <2> HIDE DEF i
  <2> QED BY <1>1, <2>2, Zenon
<1>4. Ranked(ls)[k] = ls[i]
  BY <1>1, Zenon DEF Ranked
<1> HIDE DEF i
<1> QED BY <1>3, <1>4, Zenon

\* ms are the lines of ls in another order.
Shuffled(ms, ls, order, n) ==
  /\ order \in [1 .. n -> 1 .. n]
  /\ \A i, j \in 1 .. n : order[i] = order[j] => i = j
  /\ ms = [k \in 1 .. n |-> ls[order[k]]]

\* A line has the same rank however the lines are listed.
LEMMA ShuffledPlaces ==
  ASSUME NEW ls \in Seq(AnyLine), NEW n \in Nat, n = Len(ls), Placed(ls),
         NEW ms, NEW order, Shuffled(ms, ls, order, n), NEW a \in 1 .. n
  PROVE  PlaceIn(ms)[a] = PlaceIn(ls)[order[a]]
<1>0. /\ order \in [1 .. n -> 1 .. n] /\ (\A i, j \in 1 .. n : order[i] = order[j] => i = j)
      /\ ms = [k \in 1 .. n |-> ls[order[k]]]
  BY DEF Shuffled
<1>o. \A j \in 1 .. n : \E b \in 1 .. n : order[b] = j
  BY ONLY <1>0, n \in Nat, InjectiveIsOnto
<1>1. DOMAIN ls = 1 .. n /\ DOMAIN ms = 1 .. n
  BY <1>0
<1>2. \A i \in 1 .. n : ls[i].bbox.x1 \in Int /\ ls[i].bbox.y1 \in Int
  <2>1. \A l \in AnyLine : l.bbox.x1 \in Int /\ l.bbox.y1 \in Int
    BY DEF AnyLine, BBox
  <2>2. \A i \in 1 .. n : ls[i] \in AnyLine
    BY <1>1
  <2> QED BY <2>1, <2>2, Zenon
<1>3. \A b \in 1 .. n : order[b] \in 1 .. n /\ ms[b] = ls[order[b]]
  BY <1>0
<1>4. \A i, j \in 1 .. n : ls[i].bbox.x1 = ls[j].bbox.x1 /\ ls[i].bbox.y1 = ls[j].bbox.y1 => i = j
  BY <1>1, Zenon DEF Placed
<1>5. ASSUME NEW b \in 1 .. n PROVE Before(ms, b, a) <=> Before(ls, order[b], order[a])
  <2>1. PICK i \in 1 .. n, j \in 1 .. n : i = order[b] /\ j = order[a]
    BY <1>3
  <2>2. Before(ms, b, a) <=>
          \/ ls[i].bbox.y1 < ls[j].bbox.y1
          \/ ls[i].bbox.y1 = ls[j].bbox.y1 /\ ls[i].bbox.x1 < ls[j].bbox.x1
          \/ ls[i].bbox.y1 = ls[j].bbox.y1 /\ ls[i].bbox.x1 = ls[j].bbox.x1 /\ b < a
    BY <1>3, <2>1, Zenon DEF Before
  <2>3. i = j => b = a
    BY <1>0, <2>1, Zenon
  <2>4. Before(ms, b, a) <=> Before(ls, i, j)
    BY <1>2, <1>4, <2>2, <2>3 DEF Before
  <2> QED BY <2>1, <2>4, Zenon
<1> DEFINE B == {b \in 1 .. n : Before(ms, b, a)}
           C == {j \in 1 .. n : Before(ls, j, order[a])}
           g == [b \in B |-> order[b]]
<1>6. g \in [B -> C]
  BY <1>3, <1>5
<1>7. \A x, y \in B : g[x] = g[y] => x = y
  BY <1>0
<1>8. \A j \in C : \E b \in B : g[b] = j
  <2> SUFFICES ASSUME NEW j \in 1 .. n, Before(ls, j, order[a])
               PROVE  \E b \in B : g[b] = j
    OBVIOUS
  <2>1. PICK b \in 1 .. n : order[b] = j
    BY <1>o, Zenon
  <2>2. b \in B
    BY <1>5, <2>1
  <2> QED BY <2>1, <2>2
<1>9. IsFiniteSet(B)
  <2>1. IsFiniteSet(1 .. n)
    BY FS_Interval
  <2>2. B \in SUBSET (1 .. n)
    OBVIOUS
  <2> HIDE DEF B
  <2> QED BY <2>1, <2>2, FS_Subset, Zenon
<1> HIDE DEF B, C, g
<1>10. DOMAIN g = B
  BY <1>6
<1>11. g \in Bijection(B, C)
  BY <1>6, <1>7, <1>8, <1>10, Zenon DEF Bijection, Injection, Surjection, IsInjective
<1>12. ExistsBijection(B, C)
  BY <1>11, Zenon DEF ExistsBijection
<1>13. Cardinality(C) = Cardinality(B)
  BY <1>9, <1>12, FS_Bijection, Zenon
<1>14. PlaceIn(ms)[a] = Cardinality(B) + 1
  BY <1>1, Zenon DEF PlaceIn, B
<1>15. PlaceIn(ls)[order[a]] = Cardinality(C) + 1
  BY <1>1, <1>3, Zenon DEF PlaceIn, C
<1> QED BY <1>13, <1>14, <1>15, Zenon

\* So the ranked lines are the same.
LEMMA SameRanking ==
  ASSUME NEW ls \in Seq(AnyLine), NEW n \in Nat, n = Len(ls), Placed(ls),
         NEW ms, NEW order, Shuffled(ms, ls, order, n)
  PROVE  Ranked(ms) = Ranked(ls)
<1>0. order \in [1 .. n -> 1 .. n] /\ ms = [k \in 1 .. n |-> ls[order[k]]]
  BY DEF Shuffled
<1>1. DOMAIN ls = 1 .. n /\ DOMAIN ms = 1 .. n
  BY <1>0
<1>2. \A b \in 1 .. n : order[b] \in 1 .. n /\ ms[b] = ls[order[b]]
  BY <1>0
<1>3. ms \in Seq(AnyLine) /\ Len(ms) = n
  <2>1. \A b \in 1 .. n : ls[order[b]] \in AnyLine
    BY <1>1, <1>2
  <2>2. ms \in [1 .. n -> AnyLine]
    BY <1>0, <2>1
  <2> QED BY <2>2
<1>4. DOMAIN Ranked(ls) = 1 .. n /\ DOMAIN Ranked(ms) = 1 .. n
  BY <1>1, Zenon DEF Ranked
<1>5. ASSUME NEW k \in 1 .. n PROVE Ranked(ms)[k] = Ranked(ls)[k]
  <2>1. PICK a \in 1 .. n : PlaceIn(ms)[a] = k /\ Ranked(ms)[k] = ms[a]
    BY <1>3, RankedAt
  <2>2. PICK i \in 1 .. n : PlaceIn(ls)[i] = k /\ Ranked(ls)[k] = ls[i]
    BY RankedAt
  <2>3. PlaceIn(ls)[order[a]] = k
    <3>1. PlaceIn(ms)[a] = PlaceIn(ls)[order[a]]
      BY ShuffledPlaces
    <3> QED BY <2>1, <3>1, Zenon
  <2>4. OneEach(PlaceIn(ls), n)
    BY PlacesIn
  <2>5. order[a] = i
    <3>1. PICK j \in 1 .. n : j = order[a]
      BY <1>2
    <3>2. \A x, y \in 1 .. n : PlaceIn(ls)[x] = PlaceIn(ls)[y] => x = y
      BY <2>4, Zenon DEF OneEach
    <3>3. PlaceIn(ls)[j] = PlaceIn(ls)[i]
      BY <2>2, <2>3, <3>1, Zenon
    <3> QED BY <3>1, <3>2, <3>3, Zenon
  <2> QED BY <1>2, <2>1, <2>2, <2>5, Zenon
<1>6. /\ Ranked(ls) = [k \in 1 .. n |-> Ranked(ls)[k]]
      /\ Ranked(ms) = [k \in 1 .. n |-> Ranked(ms)[k]]
  <2>1. Ranked(ls) = [k \in DOMAIN Ranked(ls) |-> Ranked(ls)[k]]
    BY DEF Ranked
  <2>2. Ranked(ms) = [k \in DOMAIN Ranked(ms) |-> Ranked(ms)[k]]
    BY DEF Ranked
  <2> QED BY <1>4, <2>1, <2>2, Zenon
<1> QED BY <1>5, <1>6, Zenon

\* The ranking of extract_fields makes up for any order of the provider's
\* lists, as long as no two lines start at one place.
THEOREM OrderCorrect == Spec => []OrderDoesNotMatter
<1>1. IInv => OrderDoesNotMatter
  <2> SUFFICES ASSUME IInv, stage = "extracted", Placed(lines), NEW order \in SetToSeqs(DOMAIN lines)
               PROVE  extract_fields(schema, [k \in DOMAIN lines |-> lines[order[k]]]) = fields
    BY Zenon DEF OrderDoesNotMatter
  <2>1. lines \in Seq(AnyLine)
    <3>1. FromLayer(file) \subseteq AnyLine /\ FromScan(file) \subseteq AnyLine
      BY DEF FromLayer, FromScan
    <3>2. lines = LinesOf(file) /\ file \in Files
      BY DEF IInv
    <3> QED BY <3>1, <3>2, LinesAreTheFiles, Wider, Zenon
  <2>2. PICK n \in Nat : n = Len(lines) /\ DOMAIN lines = 1 .. n
    BY <2>1
  <2>3. Cardinality(1 .. n) = n
    BY FS_Interval
  <2>4. order \in [1 .. n -> 1 .. n] /\ \A i, j \in 1 .. n : i # j => order[i] # order[j]
    <3>1. order \in {f \in [1 .. n -> 1 .. n] : \A i, j \in 1 .. n : i # j => f[i] # f[j]}
      BY <2>2, <2>3, Zenon DEF SetToSeqs
    <3> QED BY <3>1, Zenon
  <2>5. PICK ms : ms = [k \in DOMAIN lines |-> lines[order[k]]]
    OBVIOUS
  <2>6. Shuffled(ms, lines, order, n)
    BY <2>2, <2>4, <2>5, Zenon DEF Shuffled
  <2>7. Ranked(ms) = Ranked(lines)
    BY <2>1, <2>2, <2>6, SameRanking
  <2>8. fields = extract_fields(schema, lines)
    <3>1. stage \in Extracted
      BY DEF Extracted
    <3> QED BY <3>1, Zenon DEF IInv
  <2>9. /\ extract_fields(schema, lines) = [i \in DOMAIN schema |-> extract_one(schema[i], Ranked(lines))]
        /\ extract_fields(schema, ms) = [i \in DOMAIN schema |-> extract_one(schema[i], Ranked(ms))]
    BY Zenon DEF extract_fields, Ranked, PlaceIn
  <2> QED BY <2>5, <2>7, <2>8, <2>9, Zenon
<1> QED BY <1>1, StagesInOrder, PTL

-----------------------------------------------------------------------------
(* Numbers that do not fit *)

\* The line has a coordinate or a page that does not fit.
Outside(l) == (\E c \in DOMAIN l.bbox : l.bbox[c] \notin Int32) \/ l.page \notin Int32

\* GetDocument refuses a number, which some field has.
LEMMA Refused ==
  ASSUME IInv, response.code = "UNKNOWN"
  PROVE  \E i \in DOMAIN schema :
           /\ i \in DOMAIN fields /\ fields[i] # << >>
           /\ \/ /\ schema[i].type = "money"
                 /\ fields[i][1].value \notin -MaxAmount - 1 .. MaxAmount
              \/ Outside(fields[i][1].line)
<1>1. stage = "answered"
  <2> SUFFICES ASSUME stage # "answered" PROVE FALSE
    OBVIOUS
  <2>1. response = NoResponse
    BY DEF IInv
  <2> QED BY <2>1 DEF NoResponse
<1>2. response = fill_result(schema, result)
  BY <1>1 DEF IInv
<1>3. result = build_result(schema, fields) /\ fields = extract_fields(schema, lines)
  <2>1. stage \in Stored /\ stage \in Extracted
    BY <1>1 DEF Stored, Extracted
  <2> QED BY <2>1, Zenon DEF IInv
<1>4. DOMAIN fields = DOMAIN schema
  BY <1>3, Zenon DEF extract_fields
<1>5. result.fields = [i \in DOMAIN schema |-> FieldEntry(schema[i], fields[i])]
  BY <1>3 DEF build_result
<1>6. PICK i \in DOMAIN schema : ~Fits(schema[i], result.fields[i])
  <2> SUFFICES ASSUME \A i \in DOMAIN schema : Fits(schema[i], result.fields[i]) PROVE FALSE
    OBVIOUS
  <2>1. PICK s, fs, is : response = [code |-> "OK", status |-> s, fields |-> fs, issues |-> is]
    BY <1>2, Zenon DEF fill_result
  <2> QED BY ONLY <2>1, response.code = "UNKNOWN"
<1>7. PICK e : e = FieldEntry(schema[i], fields[i])
  OBVIOUS
<1>8. ~Fits(schema[i], e)
  BY <1>5, <1>6, <1>7, Zenon
<1>9. fields[i] # << >>
  <2> SUFFICES ASSUME fields[i] = << >> PROVE FALSE
    OBVIOUS
  <2>1. e.value = << >> /\ e.bbox = << >> /\ e.page = << >>
    BY <1>7 DEF FieldEntry
  <2> QED BY <1>8, <2>1, Zenon DEF Fits
<1>10. PICK v, l : v = fields[i][1].value /\ l = fields[i][1].line
  OBVIOUS
<1>11. e.value[1] = v /\ e.bbox[1] = l.bbox /\ e.page[1] = l.page
  <2>1. PICK b, p : b = l.bbox /\ p = l.page
    OBVIOUS
  <2>2. e.value = <<v>> /\ e.bbox = <<b>> /\ e.page = <<p>>
    BY <1>7, <1>9, <1>10, <2>1 DEF FieldEntry
  <2> QED BY <2>1, <2>2
<1>12. \/ schema[i].type = "money" /\ v \notin -MaxAmount - 1 .. MaxAmount
       \/ Outside(l)
  BY <1>8, <1>11, Zenon DEF Fits, Outside
<1> QED BY <1>4, <1>9, <1>10, <1>12, Zenon

\* The caption of a text has no digits.
LEMMA TailDigits ==
  ASSUME NEW t, t.tail \in Seq(Token)
  PROVE  DigitsIn(Tokens(t)) = DigitsIn(t.tail)
<1>1. CASE t.caption = "none"
  BY <1>1, CaptionTokens, Zenon
<1>2. CASE t.caption # "none"
  <2>1. PICK r \in Seq(Token), s \in Seq(Token) : r = t.tail /\ s = Tokens(t)
    BY TextTokens
  <2>2. Len(s) = 1 + Len(r) /\ s[1].t = "x" /\ \A k \in 1 .. Len(r) : s[1 + k] = r[k]
    BY <1>2, <2>1, CaptionTokens, Zenon
  <2>3. Len(r) \in Nat
    OBVIOUS
  <2>4. Within(r, 1, s)
    BY <2>2, <2>3 DEF Within
  <2>5. NoRuns(s, 1, 1) /\ NoRuns(s, 1 + Len(r) + 1, Len(s))
    BY <2>2, <2>3 DEF NoRuns
  <2>6. PICK l \in Seq(Digit), q \in Seq(Digit) :
          /\ DigitsIn(r) \in Seq(Digit)
          /\ DigitsIn(s) = (l \o DigitsIn(r)) \o q /\ l = << >> /\ q = << >>
    BY <2>4, <2>5, DigitsPart, Zenon
  <2>7. DigitsIn(s) = DigitsIn(r)
    BY <2>6
  <2> QED BY <2>1, <2>7, Zenon
<1> QED BY <1>1, <1>2

\* Whatever the largest amount and the largest integer of the contract are, a
\* stored result that GetDocument cannot answer had as many digits as that
\* amount on one of its lines, or a coordinate or a page beyond that integer.
THEOREM ReadableCorrect == Spec => []ReadableUnlessHuge
<1>1. IInv => ReadableUnlessHuge
  <2> SUFFICES ASSUME IInv, response.code = "UNKNOWN",
                      \A i \in DOMAIN lines :
                        /\ ~(Len(DigitsIn(lines[i].text.tail)) >= Len(Decimal[MaxAmount]))
                        /\ ~Outside(lines[i])
               PROVE  FALSE
    BY Zenon DEF ReadableUnlessHuge, Outside
  <2>1. PICK i \in DOMAIN schema :
          /\ i \in DOMAIN fields /\ fields[i] # << >>
          /\ \/ /\ schema[i].type = "money"
                /\ fields[i][1].value \notin -MaxAmount - 1 .. MaxAmount
             \/ Outside(fields[i][1].line)
    BY Refused, Zenon
  <2>2. PICK l \in ToSet(lines) : \E t :
          /\ l \in AnyLine /\ fields[i][1].line = l
          /\ FoundOn(fields[i], schema[i], l, t) /\ Source(schema[i], l, t)
          /\ fields[i][1].value = parse_typed(schema[i].type, t)[1]
    BY <2>1, FoundOnALine, Zenon
  <2>3. PICK t : /\ l \in AnyLine /\ fields[i][1].line = l
                 /\ FoundOn(fields[i], schema[i], l, t) /\ Source(schema[i], l, t)
                 /\ fields[i][1].value = parse_typed(schema[i].type, t)[1]
    BY <2>2, Zenon
  <2>4. PICK k \in DOMAIN lines : l = lines[k]
    BY DEF ToSet
  <2>5. schema[i].type = "money" /\ fields[i][1].value \notin -MaxAmount - 1 .. MaxAmount
    BY <2>1, <2>3, <2>4, Zenon
  <2>6. PICK s \in Seq(Token) : /\ s = Tokens(t)
                               /\ Len(DigitsIn(s)) <= Len(DigitsIn(l.text.tail))
    <3>1. t.tail \in Seq(Token) /\ Len(DigitsIn(t.tail)) <= Len(DigitsIn(l.text.tail))
      BY <2>3, SourceDigits DEF Shorter
    <3> QED BY <3>1, TextTokens, TailDigits, Zenon
  <2>7. MaxAmount \in Nat
    BY ScaleAssumption
  <2>8. Len(DigitsIn(s)) < Len(Decimal[MaxAmount])
    <3>1. Len(DigitsIn(s)) \in Nat /\ Len(DigitsIn(l.text.tail)) \in Nat
      BY <2>3, LineTokens, DigitCount
    <3>2. Len(Decimal[MaxAmount]) \in Nat
      <4>1. Decimal[MaxAmount] \in Seq(Digit)
        BY <2>7, DecimalSteps
      <4> HIDE DEF Digit
      <4> QED BY <4>1
    <3>3. ~(Len(DigitsIn(l.text.tail)) >= Len(Decimal[MaxAmount]))
      BY <2>4, Zenon
    <3> QED BY <2>6, <3>1, <3>2, <3>3
  <2>9. parse_typed("money", t) # << >> /\ parse_typed("money", t) = parse_money(s)
    <3>1. parse_typed("money", t) # << >>
      BY <2>3, <2>5, Zenon DEF FoundOn
    <3>2. ~Blank(t)
      BY <3>1, Zenon DEF parse_typed
    <3> QED BY <2>6, <3>1, <3>2 DEF parse_typed
  <2>10. PICK v : v = fields[i][1].value /\ v = parse_money(s)[1]
    BY <2>3, <2>5, <2>9, Zenon
  <2>11. v \in -MaxAmount .. MaxAmount
    BY <2>7, <2>8, <2>9, <2>10, ReadsFewDigits, Zenon
  <2> QED BY <2>5, <2>7, <2>10, <2>11
<1> QED BY <1>1, StagesInOrder, PTL

-----------------------------------------------------------------------------
(* Amounts as texts *)

\* format_money and parse_money agree, for the amounts of every text.
THEOREM FormatCorrect == Spec => []FormatReadsBack
<1>1. IInv => FormatReadsBack
  <2> SUFFICES ASSUME IInv, NEW i \in DOMAIN lines, parse_money(Tokens(lines[i].text)) # << >>
               PROVE  LET a == parse_money(Tokens(lines[i].text))
                      IN  parse_money(format_money(a[1])) = <<Magnitude(a[1])>>
    BY Zenon DEF FormatReadsBack
  <2>1. Tokens(lines[i].text) \in Seq(Token)
    BY LinesHere, LineTokens
  <2>2. parse_money(Tokens(lines[i].text))[1] \in Int
    BY <2>1, ParseIsInt
  <2>3. Len(Decimal[Magnitude(parse_money(Tokens(lines[i].text))[1])]) <= MaxDigits
    BY <2>1, ReadIsShort
  <2> QED BY <2>2, <2>3, FormatIsRead, Zenon
<1> QED BY <1>1, StagesInOrder, PTL

=============================================================================
