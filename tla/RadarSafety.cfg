SPECIFICATION Spec
CONSTANTS
  c1 = c1  c2 = c2  x1 = x1  x2 = x2
  p1 = p1  p2 = p2  p3 = p3  r1 = r1  r2 = r2
  None = None
  Companies <- OneCompany
  Ids <- OneId
  Slots <- TwoSlots
  Requests <- OneRequest
  StaleAfter = 2
  Interval = 2
  PollDeadline = 1
  ScreenLimit = 1
  BoardsRepeatIds = TRUE
  QueueBound = 1
  MaxRetargets = 1
  MaxCrashes = 1
SYMMETRY SlotSymmetry
INVARIANTS
  TypeOK
  ExclusiveClaim
  StoreNeverCollides
  PromotedLeadsToJob
  BeliefsHold
PROPERTIES
  PauseRespected
  ImplementsLease
