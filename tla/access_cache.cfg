SPECIFICATION FairSpec
CONSTANTS
  Tenants = {t1, t2}
  Users = {u1}
  Readers = {r1}
  Writers = {w1}
  MaxVersion = 1
  WritesFail = TRUE
  None = None
INVARIANTS StaleExplained AnswersExplained
PROPERTY EventuallyFresh
