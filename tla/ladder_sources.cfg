SPECIFICATION Spec
CONSTANTS
  Patch = {p1}
  Code = {"full", "raw"}
  NoCode = "none"
  Baseline = "baseline"
  Target <- OneTarget
  Construct <- MCConstruct
  Info <- InfoSources
  BaseArity <- OneArity
  Unified <- OneTarget
  Extension = {}
  Contracted <- OneTarget
  Protected0 = {}
  Blocked0 <- MCConstruct
  Kernel = {"hub", "sub"}
  RoleOf <- RoleByName
  LocalityOf <- AllLocal
  PacketTrust = {"provisional", "trusted"}
  PacketRisk = {"low"}
  Standings <- TwoStandings
  RequestSizes = {0, 2}
  FailureCounts = {1, 2}
  EvidenceKeep = 3
  EvidenceHigh = 4
INVARIANTS LiveVetted
PROPERTIES EvidenceKept
