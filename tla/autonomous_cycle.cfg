SPECIFICATION CycleSpec
CONSTANTS
  MaxTasks = 2
  MaxCompleted = 3
  TaskCap = 2
  CompletedKept = 1
  MaxCrashes = 1
  Specialization = {"math"}
  ParentTrust = {2}
  Capacity = 2
  Quota = 0
  Severity = {"high"}
  DiskFails = FALSE
  MaxFleet = 2
  MaxGoals = 3
  Threshold = 55
  MaxUpdates = 3
  Axioms <- MCAxioms
  Defined <- MCDefined
  Entries <- MCShadowed
  Formed <- FormedIn
  HasType <- HasTypeIn
  Contracts <- MCContracts
  Fragments = {1, 2, 3}
  Elem <- S3
  unit <- S3Unit
  Op <- S3Op
  Inv <- S3Inv
  Overlaps <- MCOverlaps
  Samples <- MCSamples
  Proofs <- MCProofs
  Referents <- MCReferents
  Opinions <- MCOpinions
  MaxNotes = 3
  Protected = {"authority", "identity"}
  Watched = {"hygiene"}
  Value = {"v", "w"}
  ErrorValue = "error"
  Batches = 3
  Epochs = 2
  Accum = 2
  MaxSteps = 0
  SnapshotEvery = 1
  Reinitializes = FALSE
  MaxRuns = 2
  Observation <- MCObs
  LiveCap = 1
  ShardSize = 2
  ExplicitVal = FALSE
  Shuffled <- MCShuffled
  MaxRecords = 3
  MaxRestarts = 1
  MaxTrainings = 1
CHECK_DEADLOCK FALSE
INVARIANTS
  CycleTypeOK DependenciesFirst ReadyRuns CapacityKept VerdictsFresh TypesKept
  CallersServed GluesExactly ConflictsGenuine ProtectedKept StepsDisjoint StreamWhole
PROPERTIES LedgerSpec OnlyLightOnesLost
