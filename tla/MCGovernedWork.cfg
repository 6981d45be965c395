SPECIFICATION Spec
CONSTANTS
  Focuses = {"tasks", "jobs", "calls", "kernel", "objectives", "ingests", "factory", "reconcile",
             "improvement", "evolution", "mirror", "bundle", "governor", "reboot", "trip",
             "exports", "imports", "download", "takeout", "restore", "campaign", "store", "fleet", "attest", "protection"}
  Requests = {"r1"}
  Document <- TwoTasks
  Needs <- SecondNeedsFirst
  Gateways = {g1}
  Advancers = {a1}
  CoreJobs = {"j1"}
  Engines = {e1, e2}
  MaxDeaths = 1
  Calls <- SomeCalls
  Ingresses = {"i1", "i2"}
  Releases = {"ra", "rb"}
  CheckSets <- SomeCheckSets
  Contexts <- SomeContexts
  MaxCommits = 3
  Proposals = {"p1", "p3"}
  ProposalOf <- SomeProposals
  CapTokens = {"c1", "c2"}
  TokenOf <- SomeTokens
  AgentTasks = {"t1", "t3"}
  TaskOf <- SomeAgentTasks
  Foreign <- WrittenByOthers
  Documents <- OneDocument
  Registrars = {r1, r2}
  Runners = {n1}
  Ingestors = {i1, i2}
  Candidates = {"A", "B"}
  OtherGates = {}
  FactoryCalls = {f1}
  Snapshots = {"s1", "s2"}
  DesiredOf <- ShouldBe
  ObservedOf <- IsNow
  Readbacks <- ReadBack
  RequiredEvidence <- LifecycleEvidence
  Work <- SomeWork
  Patches = {"good", "dirty", "risky"}
  PatchOf <- SomePatches
  Evaluators = {"host", "docker"}
  PerCycle = 2
  MaxGeneration = 2
  MirrorRows = {"r1"}
  RowContents = {"pass", "fail", "bad"}
  BadContents = {"bad"}
  Scopes = {"s", "t"}
  MaxDecisions = 1
  MaxAltered = 1
  Authorizations <- SomeAuthorizations
  Evidence <- SomeEvidence
  Operations <- SomeOperations
  Claims <- SomeClaims
  Promotions <- SomePromotions
  Terminals <- SomeTerminals
  MaxTime = 2
  MetaPolicies <- SomeMetaPolicies
  Policies <- SomePolicies
  GovernedCandidates <- SomeApplicants
  MaxBoots = 3
  MaxEnrollments = 2
  MaxSourceEdits = 2
  Ingesters = {"i1", "i2"}
  MessageIds = {"m1", "none"}
  MaxContent = 2
  MaxSourceChanges = 1
  MaxIngests = 1
  MaxIngestDeaths = 1
  Importers = {"e1", "e2"}
  MaxNode = 4
  MaxImports = 2
  MaxTampers = 2
  MaxImportDeaths = 1
  Downloads = {"d1", "d2"}
  MaxVersions = 2
  Ingests = {"i1"}
  PartNames = {"a", "b"}
  ExpectedParts = {"a"}
  MaxParts = 2
  MaxRecoveryDeaths = 1
  Snapshotters = {"s1", "s2"}
  Restorers = {"p1"}
  MaxDbVersions = 2
  MaxAge = 0
  MaxCampaign = 1
  MaxAttempts = 2
  MaxReboots = 1
  BundleNames = {"b1", "b2", "b3", "b4"}
  BundleSays <- SomeBundles
  BundleIngesters = {"i1", "i2"}
  Rebuilders = {"r1"}
  AgentBranches <- TwoBranches
  ReleaseRelevance <- OneIsRelevant
  MaxMoves = 3
  JudgeKeys = {"k1", "k2"}
  KeyWindow <- SomeWindows
  Artifacts = {"a"}
  MaxRootVersions = 2
  MaxVerdicts = 1
  MaxAttestTime = 3
  RootLife = 2
  VerdictLife = 2
  MaxSkew = 1
  ClockLag = 1
  ProtectionPolicies <- SomeProtection
  BaseContexts = {"tests", "policy"}
  Reconcilers = {"p1", "p2"}
  MaxMainCommits = 2
  MaxProtectionEdits = 1
INVARIANTS
  GovernedWorkTypesOK
  
  AuthorityIsNotSelfMade
  
  NamesKeepTheirContent
  HarmIsBounded
CHECK_DEADLOCK FALSE
