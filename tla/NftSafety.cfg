CONSTANTS
  Points <- MCPoints
  Covers <- MCCovers
  Targets = {"x", "y"}
  Families = {4, 6}
  Paths <- MCPaths
  Plans <- MCPlans
  MaxEdits = 2
  MaxFaults = 2
  FaultKinds = {"begin", "observe", "chains", "disk", "apply", "conntrack", "crash", "reboot", "restore", "policy", "flush", "remove"}
SPECIFICATION FairBackendSpec
INVARIANTS TypeOK NoMixedAdmission SuccessRetires UnretiredReported
PROPERTY EventuallyConverges RevokesOnlyRetired
