SPECIFICATION Spec
CONSTANTS
  Retries = 2
  FixedBudgets <- Fixed
  ContextBudgets <- Context
  NoBudget = NoBudget
INVARIANTS
  RepairQuotesPreviousReply
  RecordExplained
PROPERTIES
  TruncatedGetsMoreRoom
  Terminates
