SPECIFICATION ReviewSpec
CONSTANTS
  MaxEvents = 3
  Times = {1}
  Windows <- MCWindows
  Candidates <- MCCandidates
  Budgets <- MCBudgets
  Duration = 4
  Reviews = {r1, r2}
  Limit = 1
  MaxReport = 2
  QueueLimit = 1
  QueueFactor = 2
  RankScore <- MCRankScore
  ClipPre = 1
  ClipPost = 1
  MaxReviewWindow = 3
  MinWindow = 1
  MaxModelWindow = 2
SYMMETRY Symmetry
CHECK_DEADLOCK FALSE
INVARIANTS ListingComplete WindowsSound QueueIsComplete
