SPECIFICATION Spec
CONSTANTS
  g = g
  h = h
  w1 = w1
  w2 = w2
  Grant = {g, h}
  Model = {1}
  Audio = {2}
  Delivery = {3}
  tag <- MCTag
  source <- MCSource
  Worker = {w1, w2}
  MaxFaults = 1
  MaxIssued = 1
SYMMETRY Workers
INVARIANTS
  Sound
  DeletedOnce
  TombstonesErased
  NothingLeftBehind
CHECK_DEADLOCK FALSE
