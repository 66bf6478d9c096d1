SPECIFICATION Spec
CONSTANTS
  c1 = c1  c2 = c2  x1 = x1  x2 = x2
  p1 = p1  p2 = p2  p3 = p3  r1 = r1  r2 = r2
  None = None
  Companies <- OneCompany
  Ids <- OneId
  Slots <- ThreeSlots
  Requests <- OneRequest
  StaleAfter = 2
  Interval = 2
  PollDeadline = 2
  ScreenLimit = 1
  BoardsRepeatIds = FALSE
  QueueBound = 1
  MaxRetargets = 0
  MaxCrashes = 0
INVARIANTS
  FreshClaimIsExclusive
