SPECIFICATION Spec
CONSTANTS
  Bases = {b1, b2}
  MaxKernels = 3
  MaxLines = 3
  Dataset = dataset
  Missing = missing
  Torn = torn
CHECK_DEADLOCK FALSE
PROPERTY ResumeFindsPreviousRun
