CONSTANTS
  Points <- MCPoints
  Covers <- MCCovers
  Targets = {"x", "y"}
  Families = {4, 6}
  Paths <- MCPaths
  Plans <- MCPlans
  MaxEdits = 3
  MaxFaults = 3
  FaultKinds = {"policy", "disk"}
SPECIFICATION BackendSpec
INVARIANTS SuccessRetires
