CONSTANTS
  Rules = {"r1", "r2"}
  Sources = {"s1", "s2", "s3"}
  Workers = {"w1", "w2", "w3"}
  Flows = {"f1", "f2", "f3", "f4"}
  RuleOf <- MCRuleOf
  SourceOf <- MCSourceOf
  WorkerOf <- MCWorkerOf
  WorkerRule <- MCWorkerRule
  MaxUDP = 2
  MaxMemory = 8
  RuleMax <- MCRuleMax
  SourceMax <- MCSourceMax
  MaxTracked <- MCMaxTracked
  SessionBytes = 3
  ListenerBytes = 1
SPECIFICATION FairUdpSpec
INVARIANTS CountersExact EntriesKept WithinLimits
PROPERTY CleanupEnds
