SPECIFICATION Spec
CONSTANTS
  c1 = c1
  c2 = c2
  c3 = c3
  a1 = a1
  a2 = a2
  Clients = {c1, c2, c3}
  Addresses = {a1, a2}
  Address <- AddressOf
  Limit = 1
  Window = 2
  Block = 2
  MaxFaults = 0
  NoTtl = NoTtl
PROPERTY BlockMeansOverLimit
