CONSTANTS
    N = 5
    Corpora <- Graphs
    FirstStage <- Queries
    SeedK = 2
    MaxDepth = 2
    MaxNeighbors = 2
    MaxAdded = 2
    PoolSize = 2
    RrfK = 2
    GraphWeight = 1
    Scale = 420
SPECIFICATION SearchSpec
CHECK_DEADLOCK FALSE
INVARIANTS
  SearchTypeOK
  HopIsDistance
  EvidenceIsSupport
  BetterSeedsFirst
  GraphOnlyLifts
