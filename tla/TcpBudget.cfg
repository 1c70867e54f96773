CONSTANTS
  Conns = {"c1", "c2", "c3", "c4", "c5"}
  Rules = {"r1", "r2"}
  Sources = {"s1", "s2"}
  RuleOf <- MCRuleOf
  SourceOf <- MCSourceOf
  MaxTCP = 3
  RuleMax <- MCRuleMax
  SourceMax <- MCSourceMax
SPECIFICATION FairBudgetSpec
INVARIANTS TypeOK CountersExact WithinLimits
PROPERTIES AtomicAdmission SlotsReturned
