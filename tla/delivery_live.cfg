CONSTANTS
  Workers = {w1, w2}
  Admins = {a1, a2}
  Events = {e1}
  Malformed = {}
  BadPayload = {}
  Unrouted = {}
  HeaderIds = {}
  MessageIds = {}
  MaxRetries = 1
  RetryReturns = TRUE
  Overrun = TRUE
  MaxPublish = 1
  MaxFaults = 2
  MaxCrashes = 1
  MaxStalls = 0
  NoMsg = NoMsg
  Free = Free
  Orphaned = Orphaned
SPECIFICATION FairSpec
PROPERTIES RetryAbsorbsFaults Settled
