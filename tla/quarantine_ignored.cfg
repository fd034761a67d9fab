SPECIFICATION Spec
CONSTANTS
  Patch = {p1, p2}
  Code = {"slim", "full"}
  NoCode = "none"
  Baseline = "baseline"
  Target <- OneTarget
  Construct = {}
  Info <- InfoBindings
  BaseArity <- OneArity
  Unified <- OneTarget
  Extension = {}
  Contracted <- OneTarget
  Protected0 = {}
  Blocked0 = {}
  Kernel = {}
  RoleOf <- NoFunction
  LocalityOf <- NoFunction
  PacketTrust = {}
  PacketRisk = {}
  Standings <- OneStanding
  RequestSizes = {}
  FailureCounts = {1, 2}
  EvidenceKeep = 3
  EvidenceHigh = 3
PROPERTIES QuarantineHolds
