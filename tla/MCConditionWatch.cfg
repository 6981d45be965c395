SPECIFICATION Spec
CONSTANTS
  None = None
  w1 = w1
  Targets = {t1}
  States = {s1, s2}
  Processes = {p1, p2, p3}
  Workers = {w1}
  WorkerOf <- SharedWorkerId
  Openers = {o1, o2}
  MaxClaims = 3
INVARIANTS
  TypeOK
  AnnouncedOnce
  NotifiedIsAcknowledged
  ToldTheFirstVerdict
  OneLeaseHolder
PROPERTIES
  NoticeSpec
