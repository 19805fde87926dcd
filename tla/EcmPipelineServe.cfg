SPECIFICATION Spec
CONSTANTS
  Client = {c1}
  Local = {l1}
  Chan = {ch1, ch2}
  Absent = Absent
  SourceHop = {0, 2, 3, 255}
  UserHops = {0, 2}
  MaxHops = 3
  EcmLimit = 2
  Timeout = 2
  MaxTime = 3
  MaxWindow = 3
SYMMETRY Symmetry
INVARIANTS HopFromOrigin ServedWithinLimits RateLimited
