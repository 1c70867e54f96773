CONSTANTS
  Points <- MCPoints
  Covers <- MCCovers
  Targets = {"x"}
  Families = {4}
  Paths <- MCPaths
  Plans = {}
  MaxEdits = 2
  MaxFaults = 1
  FaultKinds = {"begin", "observe", "chains", "disk", "apply", "conntrack", "crash", "reboot", "policy", "bind", "dns"}
  Configs <- MCConfigs
  IDs = {"A"}
  Hosts = {"name"}
  Literals <- MCLiterals
  Answers <- MCAnswers
  NoTarget = "none"
  Listen <- MCListen
  Loopback <- MCLoopback
  GoPoints <- MCGoPoints
SPECIFICATION FairManagerSpec
INVARIANTS NoDoublePath NothingHidden StoppedClean
PROPERTY EventuallyServed
