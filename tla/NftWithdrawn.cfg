CONSTANTS
  Points <- MCPoints
  Covers <- MCCovers
  Targets = {"x", "y"}
  Families = {4, 6}
  Paths <- MCPaths
  Plans <- MCPlans
  MaxEdits = 1
  MaxFaults = 2
  FaultKinds = {"policy", "disk"}
SPECIFICATION BackendSpec
PROPERTY WantedKeepsConnections
