SPECIFICATION PSpec
CONSTANTS
  Patch = {p1}
  Code = {"full", "slot"}
  NoCode = "none"
  Baseline = "baseline"
  Target <- RestartTarget
  Construct = {}
  Info <- InfoRestart
  BaseArity <- OneArity
  Unified <- MCUnified
  Extension <- MCExtension
  Contracted = {"research_topic"}
  Protected0 = {}
  Blocked0 = {}
  Kernel = {}
  RoleOf <- NoFunction
  LocalityOf <- NoFunction
  PacketTrust = {}
  PacketRisk = {}
  Standings <- OneStanding
  RequestSizes = {}
  FailureCounts = {1, 2}
  EvidenceKeep = 3
  EvidenceHigh = 3
INVARIANTS PTypeOK
PROPERTIES TableSpec
