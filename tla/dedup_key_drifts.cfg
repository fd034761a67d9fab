SPECIFICATION HSpec
CONSTANTS
  Patch = {p1}
  HubModule = {m1}
  Stage = {"shadow_deployed"}
  ModuleStage = {"promotable"}
  NeedsTwo = {"shadow_deployed"}
  Proposed = {m1}
  PickLimit = 1
  QueueCap = 2
  MaxWaves = 2
  MaxQueue = 2
INVARIANTS OneEntryPerModule
