SPECIFICATION Spec
CONSTANTS
  t1 = t1
  t2 = t2
  profile1 = profile1
  profile2 = profile2
  plain = plain
  other = other
  Proc = {t1, t2}
  Profile = {profile1, profile2}
  Content = {plain, other}
  MaxTime = 1
  MaxEvents = 3
  MaxDamage = 2
SYMMETRY Symmetric
INVARIANTS
  OnlyThisProfile
