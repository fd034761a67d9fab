SPECIFICATION ServicesSpec
CONSTANTS
  Proposal = {1, 2}
  Module = {"m"}
  Senders <- MCSenders
  Targets = {"hub", "main"}
  LocalKey = {"a"}
  BranchItem <- MCItems
  BankCap = 2
  MaxStored = 1
  MaxMishaps = 2
  Asker = {"hub", "sub"}
  RoleOf <- MCRole
  Claim <- MCClaim
  Tool = {"web_search", "browser_action"}
  CallQuota <- MCQuota
  LeaseMax <- MCLeaseMax
  Limit <- MCLimit
  Advisors = 2
  MaxCalls = 2
  MaxInstalls = 1
  MaxRequests = 2
  MaxSuccesses = 1
  Specialization = {"math"}
  ParentTrust = {2}
  Capacity = 1
  Quota = 1
  Severity = {"minor"}
  DiskFails = TRUE
  MaxFleet = 1
  MaxGoals = 2
  Patch = {p1}
  HubModule = {m1}
  Stage = {"shadow_deployed"}
  ModuleStage = {"promotable"}
  NeedsTwo = {"shadow_deployed"}
  Proposed = {m1}
  PickLimit = 1
  QueueCap = 2
  MaxWaves = 2
  MaxQueue = 2
  SnapshotsOnDisk = 2
  SnapshotsInMemory = 1
  MaxFailures = 3
  MaxVersion = 2
  MaxCrashes = 1
  MaxDamage = 1
CHECK_DEADLOCK FALSE
INVARIANTS
  ServicesTypeOK NoWayRound NothingTwice QuotaHeld ToolsWithinRate
  LeaseJobAgree GoalHeld NoParallelReview FilesWhole
PROPERTIES LeavesThroughWave RollbackToLast
