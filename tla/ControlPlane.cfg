CONSTANTS
  Handlers = {"h1", "h2"}
  Ids = {"r"}
  Bodies = {"x"}
  Lists = {"lan", "lan2", "only"}
  Settings <- MCSettings
  MaxEdits = 3
  MaxFaults = 2
  FaultKinds = {"disk", "acl", "apply", "crash"}
  LogCap = 2
SPECIFICATION FairControlSpec
INVARIANTS TokenUsable Acknowledged OnlyRefreshDiverges UnfinishedIsLive
PROPERTY EventuallyInForce
