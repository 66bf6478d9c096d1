SPECIFICATION Spec
CONSTANTS
  p1 = p1  p2 = p2  p3 = p3  a1 = a1  a2 = a2  l1 = l1
  NoVal = NoVal
  Requests <- ThreeRequests
  Hosts <- SomeHosts
  Bodies <- SomeBodies
  EnvKey <- Environment
  Legacy <- OldRow
  TavilyKey = TRUE
  IncludeDuckDuckGo = TRUE
  Researches <- OneResearch
  Letters <- OneLetter
  RawAnswers <- SomeAnswers
  MAX_AGENT_STEPS = 3
  MAX_AGENT_SEARCHES = 3
  MAX_SEARCH_RESULTS_PER_QUERY = 2
CONSTRAINT OneThingAtATime
INVARIANTS
  TypeOK
  LonePutsHold
  OnlyFirstPutsAreRefused
  CallsGoWhereAsked
  OneProviderMayFail
  LettersAreCutToFit
PROPERTIES
  BriefsAreAnswered
  AgentsEnd
CHECK_DEADLOCK FALSE
