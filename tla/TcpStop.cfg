CONSTANTS
  Endpoints = {"e1"}
  Conns = {"c1"}
  EndpointOf <- MCEndpointOf
  HasBackup = FALSE
  HasHealth = FALSE
SPECIFICATION FairRunnerSpec
PROPERTY StopEnds
