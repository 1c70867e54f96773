CONSTANTS
  Endpoints = {"e1", "e2"}
  Conns = {"c1", "c2"}
  EndpointOf <- MCEndpointOf
  HasBackup = TRUE
  HasHealth = TRUE
SPECIFICATION PoliteRunnerSpec
INVARIANTS TypeOK CutOff NothingLeft
PROPERTY StopEnds
