SPECIFICATION FairSpec
CONSTANTS
  x1 = x1  x2 = x2  x3 = x3  x4 = x4
  Ids <- ThreeIds
  Poisoned <- Two
  BatchSize = 2
  MaxBatches = 1
  Attempts = 2
  ScreenLimit = 3
  MaxFailures = 2
  MaxListings = 0
  MaxCrashes = 0
PROPERTIES
  HealthyAreScreened

