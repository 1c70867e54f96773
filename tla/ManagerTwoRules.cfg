CONSTANTS
  Points <- TwoPoints
  Covers <- TwoCovers
  Targets = {"x"}
  Families = {4}
  Paths <- TwoPaths
  Plans = {}
  MaxEdits = 2
  MaxFaults = 2
  FaultKinds = {"begin", "observe", "disk", "apply", "conntrack", "crash", "reboot", "policy", "bind", "dns"}
  Configs <- TwoConfigs
  IDs = {"A", "B"}
  Hosts = {"name"}
  Literals <- MCLiterals
  Answers <- TwoAnswers
  NoTarget = "none"
  Listen <- TwoListen
  Loopback <- TwoLoopback
  GoPoints <- TwoGoPoints
SPECIFICATION ManagerSpec
INVARIANTS NoDoublePath NothingHidden StoppedClean
