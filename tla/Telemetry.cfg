CONSTANTS
  Rules = {"A", "B"}
  GoRule = "G"
  Requests <- MCRequests
  Flows = {"f6"}
  RuleOf <- MCRuleOf
  FamilyOf <- MCFamilyOf
  MaxBytes <- MCMaxBytes
  MaxCopied = 2
  MaxHits = 1
  MaxApply = 2
  MaxCount = 2
  Failures = {"table", "dump", "revoke", "readback"}
SPECIFICATION TelemetrySpec
INVARIANTS CountedOnce HooksCountedPerEpoch
PROPERTY GoNeverFalls
