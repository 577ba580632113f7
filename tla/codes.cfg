SPECIFICATION Spec
CONSTANTS
  Sends = {s1, s2, s3}
  Logins = {l1, l2}
  Cooldown = 1
  Ttl = 2
  SendTime = 2
  FixedCode = FALSE
  MaxTime = 2
  MaxFaults = 1
  MaxChanges = 1
  None = None
SYMMETRY Symmetries
INVARIANTS CodeOnce NewestUsable CooldownKept BurntForAReason
PROPERTY AcceptedIsCurrent
CHECK_DEADLOCK FALSE
