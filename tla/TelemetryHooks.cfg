CONSTANTS
  Rules = {"A", "B"}
  GoRule = "G"
  Requests <- MCRequests
  Flows = {"f6"}
  RuleOf <- MCRuleOf
  FamilyOf <- MCFamilyOf
  MaxBytes <- MCMaxBytes
  MaxCopied = 0
  MaxHits = 1
  MaxApply = 2
  MaxCount = 2
  Failures = {"revoke"}
SPECIFICATION TelemetrySpec
INVARIANT HooksCountedOnce
