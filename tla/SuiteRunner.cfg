SPECIFICATION Spec
CONSTANTS
  Plan <- MCPlan
  Suffixes = {s1, s2}
  MaxSessions = 2
  NoSuffix = NoSuffix
  NoRun = NoRun
CHECK_DEADLOCK FALSE
INVARIANTS
  ReuseIsFaithful
  ReportShowsPlan
PROPERTIES
  StoredRunsKept
