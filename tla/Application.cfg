SPECIFICATION FairSpec
CONSTANTS
  a1 = a1  a2 = a2  r1 = r1
  None = None
  Analyses <- TwoAnalyses
  Requests <- OneRequest
  Concurrency = 3
  MaxEdits = 2
  MaxMishaps = 1
INVARIANTS
  TypeOK
  ProgressIsConsistent
  RemeasuredAfterTailoring
PROPERTIES
  CurrentWritesKeepProgress
  UndisturbedAnalysesEnd
