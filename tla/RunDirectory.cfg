SPECIFICATION Spec
CONSTANTS
  Bases = {b1, b2}
  MaxKernels = 3
  MaxLines = 3
  Dataset = dataset
  Missing = missing
  Torn = torn
SYMMETRY Symmetry
CHECK_DEADLOCK FALSE
INVARIANTS
  
  ManifestVouches
PROPERTIES
  FrozenStays
  
