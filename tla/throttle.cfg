SPECIFICATION FairSpec
CONSTANTS
  c1 = c1
  c2 = c2
  c3 = c3
  a1 = a1
  a2 = a2
  Clients = {c1, c2, c3}
  Addresses = {a1, a2}
  Address <- AddressOf
  Limit = 2
  Window = 3
  Block = 2
  MaxFaults = 1
  NoTtl = NoTtl
INVARIANTS OneBurst CounterExpires
PROPERTY BlocksEnd
