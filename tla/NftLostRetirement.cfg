CONSTANTS
  Points <- MCPoints
  Covers <- MCCovers
  Targets = {"x", "y"}
  Families = {4, 6}
  Paths <- MCPaths
  Plans <- MCPlans
  MaxEdits = 3
  MaxFaults = 2
  FaultKinds = {"apply", "conntrack"}
SPECIFICATION BackendSpec
INVARIANTS SuccessRetires
