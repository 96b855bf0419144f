SPECIFICATION IndexSpec
CONSTANTS
  MaxVersion = 3
  Absent = Absent
  Torn = Torn
INVARIANTS
  StaleOnlyAfterFaissFailed
  FingerprintVouches
PROPERTIES
  RefusedIsRebuilt
