SPECIFICATION Spec
CONSTANTS
  QueueJobs = {j1, j2}
  Supervisors = {s1, s2}
  WorkerId <- OwnIds
  Priority <- EqualPriority
  MaxAttempts <- TwoAttempts
  Concurrency = 2
  DeviceJobs = {1, 2, 3}
  Commits = {"c1", "c2"}
  NonceCap = 3
  DaemonTasks = {1, 2}
  KnownCapability = {1}
  MaxDaemonDeaths = 1
  SandboxValidators = 2
  OutputLimit = 2
  MaxWritten = 3
  MaxRemoveFaults = 1
INVARIANTS
  DeliveryTypesOK
  LeaseIsHonoured
  DeliveredOnce
  SandboxIsContained
PROPERTY
  WorkEnds
CHECK_DEADLOCK FALSE
