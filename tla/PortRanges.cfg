CONSTANTS
  RangeSpecs <- MCRangeSpecs
  Wildcard = "any"
  MaxPort <- MCMaxPort
  MaxWidth = 4
  MaxSeen = 2
SPECIFICATION RangeSpec
INVARIANTS ExactUnits SlicesUsable PartsExact
CHECK_DEADLOCK FALSE
