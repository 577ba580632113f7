CONSTANTS
  Workers = {w1, w2}
  Admins = {a1}
  Events = {e1}
  Malformed = {}
  BadPayload = {}
  Unrouted = {}
  HeaderIds = {}
  MessageIds = {}
  MaxRetries = 1
  RetryReturns = TRUE
  Overrun = FALSE
  MaxPublish = 1
  MaxFaults = 0
  MaxCrashes = 1
  MaxStalls = 0
  NoMsg = NoMsg
  Free = Free
  Orphaned = Orphaned
SYMMETRY Symmetry
SPECIFICATION Spec
INVARIANTS EventsSurvive
