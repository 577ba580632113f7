SPECIFICATION Spec
CONSTANTS
  Calls = {c1, c2}
  Tenants = {t1}
  Tokens = {x1, x2, x3}
  Life = 2
  StampTtl = 1
  MaxTime = 2
  User = User
  None = None
SYMMETRY Symmetries
INVARIANTS
  OneExchange
  RevocationSticks
  ReturnedRevokes
  LateRefused
  NoStrayTokens
PROPERTY TokensSingleUse
CHECK_DEADLOCK FALSE
