SPECIFICATION FairSpec
CONSTANTS
  Conns = {1, 2, 3}
  Msgs = {m1, m2}
  ConsumerOn = TRUE
  Probed = TRUE
  MaxFaults = 2
  MaxTags = 2
  None = None
INVARIANTS OnlyStaleAcks OneConsumer OneConnection NeverStranded
PROPERTIES ComesBack
CHECK_DEADLOCK FALSE
