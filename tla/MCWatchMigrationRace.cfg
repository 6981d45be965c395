SPECIFICATION Spec
CONSTANTS
  None = None
  w1 = w1
  Targets = {t1}
  States = {s1}
  Processes = {p1}
  Workers = {w1}
  WorkerOf <- SharedWorkerId
  Openers = {o1, o2}
  MaxClaims = 2
INVARIANTS
  RecordsAgree
