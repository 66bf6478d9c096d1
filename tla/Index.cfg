SPECIFICATION Spec
CONSTANTS
  c1 = c1  c2 = c2  c3 = c3  w1 = w1  w2 = w2  w3 = w3
  Chunks <- AllChunks
  ChunksOf <- Versions4
  Writers <- ThreeWriters
  MaxVersion = 4
  MaxMishaps = 2
SYMMETRY WriterSymmetry
INVARIANTS
  TypeOK
  VersionsAreWhole
PROPERTIES
  OnlyOverlapsAreRefused
  LoneWritesAreCurrent
