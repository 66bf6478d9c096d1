SPECIFICATION OverlapSpec
CONSTANTS
  c1 = c1  c2 = c2  x1 = x1  x2 = x2
  p1 = p1  p2 = p2  p3 = p3  r1 = r1  r2 = r2
  None = None
  Companies <- OneCompany
  Ids <- OneId
  Slots <- TwoSlots
  Requests <- NoRequest
  StaleAfter = 1
  Interval = 1
  PollDeadline = 1
  ScreenLimit = 1
  BoardsRepeatIds = TRUE
  QueueBound = 1
  MaxRetargets = 1
  MaxCrashes = 1
PROPERTIES
  DueCompaniesArePolled
