CONSTANTS
  Files <- MCFiles
  Schemas <- MCSchemas
  Similar <- MCSimilar
  Over <- MCOver
  Grid <- MCGrid
  MaxScore <- MCMaxScore
  MaxAmount <- MCMaxAmount
  MaxInt <- MCMaxInt
  MaxDigits <- MCMaxDigits
SPECIFICATION Spec
INVARIANTS
  TypeOK
  LinesStayTogether
  PageIsTheFiles
  OrderDoesNotMatter
  
  NothingBetween
  StatusIsExplained
  MoneyIsWhole
  FormatReadsBack
  ReadableUnlessHuge
\* A file is done with when it has been answered for.
CHECK_DEADLOCK FALSE
