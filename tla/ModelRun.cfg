SPECIFICATION Spec
CONSTANTS
  Functions = {1, 2, 3}
  Configs = {c1, c2}
  Outcomes = {"nothing", "fragment", "unterminated", "complete"}
  Gates = {"gate1"}
  SmokeGates = {"gate1"}
  MaterializeEvery = 2
  MaxKernels = 2
  MaxRound = 2
  NoGate = NoGate
  NoOwner = NoOwner
  NoArtifact = NoArtifact
  Torn = Torn
SYMMETRY Symmetry
CHECK_DEADLOCK FALSE
INVARIANTS
  ArtifactBehindCheckpoint
  PassedMeansCovered
PROPERTIES
  RecordsAreGated
  CompletedStays
  UsesDurableMap
