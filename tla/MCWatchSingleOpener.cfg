SPECIFICATION FairSpec
CONSTANTS
  None = None
  w1 = w1
  Targets = {t1, t2}
  States = {s1}
  Processes = {p1, p2}
  Workers = {w1}
  WorkerOf <- SharedWorkerId
  Openers = {o1}
  MaxClaims = 2
INVARIANTS
  RecordsAgree
PROPERTIES
  DeliverySettles
