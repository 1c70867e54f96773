CONSTANTS
  Points <- MCPoints
  Covers <- MCCovers
  Targets = {"x", "y"}
  Families = {4, 6}
  Paths <- MCPaths
  Plans <- MCPlans
  MaxEdits = 2
  MaxFaults = 1
  FaultKinds = {"begin", "observe", "chains", "disk", "apply", "conntrack", "crash", "reboot", "policy", "config"}
SPECIFICATION FairBackendSpec
INVARIANT SuccessRetires
PROPERTY EventuallyConverges
