SPECIFICATION Spec
CONSTANTS
  pref = pref  saved = saved  applied = applied  rejected = rejected
  w1 = w1  w2 = w2  None = None
  Topics <- OneTopic
  Statuses <- ThreeStatuses
  Saved = saved
  Writers <- TwoWriters
  MaxFeedback = 4
SYMMETRY WriterSymmetry
INVARIANTS
  TypeOK
  LastWordIsActive
  OnlyOverlapsContradict
  StatusIsRemembered
PROPERTIES
  LoneOutcomesAreShown
