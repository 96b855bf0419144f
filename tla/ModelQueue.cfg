SPECIFICATION Spec
CONSTANTS
  NumGpus = 2
  OneGib = 1
  CpuFree = 6
  KvPerToken = 1
  ActPerToken = 1
  MinOutput = 1
  Window = 4
  Bytes = 20
  Specs <- MCSpecs
  Queue <- MCQueue
  Capacity = 8
  Extra = 1
  Temporary = 1
  Floor = 2
CHECK_DEADLOCK FALSE
INVARIANTS
  OneResident
  Accounted
  IsolatesFailures
  ShortOnlyWhenHeavier
  CapIsLongest
PROPERTIES
  RefusedOnlyAfterFailure
