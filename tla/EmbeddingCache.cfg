SPECIFICATION Spec
CONSTANTS
  Procs = {p1, p2}
  Encoders <- Three
  Unlabelled <- Hashing
  MaxFiles = 6
  MaxRuns = 4
  None = None
CHECK_DEADLOCK FALSE
INVARIANTS
  UnreadableOnlyWhenShared
  VectorsAreOfEncoder
PROPERTIES
  HealsUnlessCut
