SPECIFICATION AllSpec
CONSTANTS
  Coaches = {c1, c2}
  Players = {p1, p2}
  Admins = {a1}
  Verified = {c1, c2, p1, p2}
  Invites = {i1, i2}
  Reqs = {r1, r2}
  Jerseys = {j1, j2}
  Seconds = {24}
  MaxUses = {2}
  None = None
  InviteRoles <- MCInviteRoles
  GameStatuses <- MCGameStatuses
  Budgets <- MCBudgets
SYMMETRY Symmetry
CHECK_DEADLOCK FALSE
INVARIANTS RosterExact HeadCoachChain DeletedLeavesRosters ShotClockAgrees
