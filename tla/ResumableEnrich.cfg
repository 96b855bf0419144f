SPECIFICATION LoopSpec
CONSTANTS
  Count = 3
  AtomicFinish = FALSE
  MaxRuns = 3
CHECK_DEADLOCK FALSE
INVARIANTS
  FinishedRunKeepsPrior
  SavedOutputHasNoGaps
