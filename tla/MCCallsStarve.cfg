SPECIFICATION Spec
CONSTANTS
  Focuses = {"calls"}
  Contracts <- RankedContracts
  Dependencies <- SecondNeedsFirst
  RetryBudget <- NoRetry
  OnVerified <- ToOperations
  Clients = {p1, p2}
  MaxResults <- ResultsOfFirst
  Sources = {"s"}
  Contents = {"a", "b", "c"}
  Observers = {o1, o2}
  Conversations <- ReviewOrder
  MaxWindow = 2
  Phones = {"d1", "d2"}
  Tokens = {t1}
  Identities = {"a", "b"}
  CommitOf <- OneCommit
  TokenCommit <- TokenForCommit
  Provisioners = {h1}
  Posters = {r1}
  MaxTask = 2
  CallFiles = {1, 2}
  CallRequests = {"plain", "bad"}
  CallOf <- SomeCallContents
  MaxBatch = 2
  MaxPushes = 2
  MaxRunFaults = 0
  MarkFiles = {1, 2}
  MarkRequests = {"m1", "m2", "m3"}
  MarkOf <- SomeMarks
  MaxMarkPushes = 3
  MaxMarkFaults = 1
  Callers = {"p1", "p2"}
  BridgeCalls = {"b1", "b2", "b3", "b4", "b5"}
  CallSays <- SomeBridgeCalls
  AutoLocal = {"echo"}
  AutoGithub = {"health"}
  Registered = {"echo", "write"}
  UserTokens = {"t1"}
  TokenCapability <- ForWriting
  MaxBridgeCalls = 3
  Scripts = {"a", "b", "c", "d"}
  Stagers = {"s1"}
  Runners = {"r1", "r2"}
  MaxStages = 2
  Verdict <- SomeVerdicts
  MaxIterations = 2
  Cyclers = {"y1", "y2"}
  GateSafe = {"a", "b", "d"}
  GateScore <- SomeScores
  Validators = 2
  Improved <- SomeImprovements
  MaxPasses = 3
  Items = {"x", "y", "z"}
  SafeItems = {"x", "y"}
  MaxForeign = 1
  MaxUploads = 1
  MaxCleanerDeaths = 1
  Watched = {"run", "gate"}
  Forms = 2
  MaxTurns = 2
  MaxWatchDeaths = 1
  Commits = {1, 2}
  MaxPackages = 3
  Addresses = {"a"}
  Window = 1
  RapidThreshold = 2
  MultiThreshold = 1
  MaxNow = 2
  MaxLines = 4
  MaxGuardDeaths = 1
  Packages = {"app", "core"}
  DependsOn <- AppNeedsCore
  Installers = {"i1", "i2"}
  MaxUpgrades = 1
  MaxStarts = 1
  MaxRuns = 3
  PairProjects <- TwoProjects
  SkynetWorkers = {"w1", "w2"}
  PairUpdaters = {"u1", "u2"}
  SkynetJobs = {"j1"}
  JobTask <- SomeTasks
  MaxRemote = 2
  MaxPairFaults = 1
PROPERTY
  CallsAreAnswered
CHECK_DEADLOCK FALSE
