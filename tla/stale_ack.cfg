SPECIFICATION Spec
CONSTANTS
  Conns = {1, 2, 3}
  Msgs = {m1, m2}
  ConsumerOn = TRUE
  Probed = FALSE
  MaxFaults = 1
  MaxTags = 2
  None = None
INVARIANTS AckedWereHandled
CHECK_DEADLOCK FALSE
