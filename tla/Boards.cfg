SPECIFICATION BoardsSpec
CONSTANTS
  t1 = t1
  NoToken = NoToken
  Tabs <- OneTab
  Queries <- SomeQueries
  Places <- SomePlaces
  BadAnswers <- SomeBadAnswers
  SearchAnswers <- SomeSearches
  LegalSuffixes = {"inc", "ltd"}
  TavilyKey = TRUE
  IncludeDuckDuckGo = TRUE
  MAX_SLUG_CANDIDATES = 3
  MAX_SEARCH_RESULTS = 3
  MaxFaults = 1
  MaxChanges = 2
  MaxSubmits = 2
CHECK_DEADLOCK FALSE
INVARIANTS
  OffersAreJustified
  OneRowPerBoard
