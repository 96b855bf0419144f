SPECIFICATION Spec
CONSTANTS
  Functions = {f1, f2}
  Configs = {c1, c2}
  Outcomes = {"nothing", "fragment", "unterminated", "complete"}
  MaxRound = 3
SYMMETRY Symmetry
INVARIANTS
  OneConfiguration
  RoundsIncrease
  LossIsBounded
