CONSTANTS
  Points <- MCPoints
  Covers <- MCCovers
  Targets = {"x", "y"}
  Families = {4, 6}
  Paths <- MCPaths
  Plans <- MCPlans
  MaxEdits = 2
  MaxFaults = 1
  FaultKinds = {"chains"}
SPECIFICATION BackendSpec
INVARIANT UnreadableReported
