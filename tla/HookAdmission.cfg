CONSTANTS
  Names <- MCNames
  Rulesets <- MCRulesets
  Specs <- MCSpecs
  Queries <- MCQueries
  Addrs4 = {"l4", "t4", "c4"}
  Addrs6 = {"t6", "any"}
  NoAddr = "unknown"
  AnyHost = "any"
  MaxPort = 3
  ForwardPriority = 9
  MaxMatches = 2
  MaxEdits = 1
SPECIFICATION HookSpec
INVARIANTS TypeOK SoundAdmission CountersAreNoChange
