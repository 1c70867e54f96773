CONSTANTS
  Points <- MCPoints
  Covers <- MCCovers
  Targets = {"x", "y"}
  Families = {4, 6}
  Paths <- MCPaths
  Plans <- MCPlans
  MaxEdits = 2
  MaxFaults = 2
  FaultKinds = {"crash", "config", "policy"}
SPECIFICATION BackendSpec
INVARIANTS SuccessRetires
