SPECIFICATION Spec
CONSTANTS
  Functions = {f1, f2}
  Configs = {c1, c2}
  Outcomes = {"nothing", "complete"}
  MaxRound = 2
INVARIANTS
  AckedSurvive
PROPERTIES
  ImplementsDurableMap
