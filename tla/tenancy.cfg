SPECIFICATION FairSpec
CONSTANTS
  t1 = t1
  t2 = t2
  other = other
  Tenants = {t1, t2}
  Slugs = {Default, other}
  Default = Default
  Calls = {c1, c2}
  Requests <- RequestsAsked
  FirstSlugs <- SlugsAtFirst
  Modes = {"header", "subdomain"}
  Ttl = 2
  None = None
INVARIANTS OneOwner StaleWhileTtl
PROPERTY SlugSettles
