SPECIFICATION IntakeSpec
CONSTANTS
  f1 = f1  f2 = f2
  NoUrl = NoUrl
  NoOpinion = NoOpinion
  Flows <- TwoFlows
  Urls <- SomeUrls
  Opinions <- SomeOpinions
  TTL = 2
  MaxPatched = 1
  MaxRestarts = 1
  Pages <- SomePages
  Settings <- SomeSettings
  Scorings <- SomeScorings
  MIN_CONFIDENCE = 4
  MIN_ANCHORED = 3
  MAX_PREFIX_LINE = 1
\* A call ends.
CHECK_DEADLOCK FALSE
SYMMETRY AllFlows
INVARIANTS
  OnlyOverlapsDuplicate
  JudgedOnThePosting
PROPERTIES
  HandoffsAreKept
