SPECIFICATION Spec
CONSTANTS
  a = a
  b = b
  c = c
  Key = {a, b, c}
  Interval = 2
  Burst = 2
  MAX_KEYS = 1
  MaxTime = 5
SYMMETRY Callers
INVARIANTS
  ExactBudget
  Budgeted
CHECK_DEADLOCK FALSE
