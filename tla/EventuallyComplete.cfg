SPECIFICATION FairSpec
CONSTANTS
  g = g
  h = h
  w1 = w1
  w2 = w2
  Grant = {g}
  Model = {1}
  Audio = {2}
  Delivery = {}
  tag <- MCTagOne
  source <- MCSourceOne
  Worker = {w1, w2}
  MaxFaults = 2
  MaxIssued = 1
PROPERTY
  EventuallyComplete
CHECK_DEADLOCK FALSE
