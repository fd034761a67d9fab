SPECIFICATION Spec
CONSTANTS
  Patch = {p1}
  Code = {"slot", "guard", "wide", "broken", "cyclic"}
  NoCode = "none"
  Baseline = "baseline"
  Target <- MCTarget
  Construct <- MCConstruct
  Info <- InfoCommands
  BaseArity <- MCBaseArity
  Unified <- MCUnified
  Extension <- MCExtension
  Contracted = {"research_topic"}
  Protected0 <- MCProtected
  Blocked0 <- MCConstruct
  Kernel = {"sub"}
  RoleOf <- SubRole
  LocalityOf <- SubLocal
  PacketTrust = {"provisional", "sovereign"}
  PacketRisk = {"low"}
  Standings <- OneStanding
  RequestSizes = {0, 2}
  FailureCounts = {1, 2}
  EvidenceKeep = 3
  EvidenceHigh = 3
INVARIANTS ClassSound SubkernelCodeNotLive
