SPECIFICATION Spec
CONSTANTS
  k1 = k1
  k2 = k2
  k3 = k3
  Keys <- MCKeys
  Local = loc
  Remote = rem
  WalSizes = {2, 3}
  Crashes = TRUE
  MaxLsn = 4
  MaxEvents = 2
SYMMETRY KeySymmetry
INVARIANTS
  SlotIsOwn
  UpdateIsCurrent
  LastLsnIsTrue
  CompleteLog
CHECK_DEADLOCK FALSE
