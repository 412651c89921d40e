CONSTANTS
  Requests = {r1, r2}
  Tokens = {t1, t2, t3}
  NoToken = NoToken
SPECIFICATION Spec
SYMMETRY Symmetric
INVARIANTS LiveLinks RedeemedOnce
PROPERTY NothingRedeemedAfterDeletion
CHECK_DEADLOCK FALSE
