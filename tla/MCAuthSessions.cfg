CONSTANTS
  Requests = {r1, r2}
  Jtis = {j1, j2, j3}
  NoJti = NoJti
  MaxVersion = 3
  MaxResets = 1
SPECIFICATION Spec
SYMMETRY Symmetric
INVARIANTS SessionsInv RevokedStaysRevoked OldPasswordIsUseless
CHECK_DEADLOCK FALSE
