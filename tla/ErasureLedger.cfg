SPECIFICATION Spec
CONSTANTS
  m1 = m1
  m2 = m2
  f1 = f1
  f2 = f2
  o1 = o1
  o2 = o2
  Memorial = {m1, m2}
  File = {f1, f2}
  of <- MCOf
  Operator = {o1, o2}
  MaxFaults = 2
  MaxBackups = 2
  MaxRestores = 2
SYMMETRY Symmetric
INVARIANTS
  Sound
  NeverRefused
  DecidedBeforeLost
  ErasedStaysErased
  ErasedFilesGone
