SPECIFICATION Spec
CONSTANTS
  Members = {m1, m2}
  Outsiders = {}
  Guests = {g1, g2, g3}
  Games <- ResizedGame
  Nearby = {}
  LinkHolders = {}
  Knockers = {}
  FourthFrom = 2
  LateFrom = 3
  Starts = 5
  Ends = 6
  HoldTicks = 1
  MaxPosition = 4
SYMMETRY Symmetry
INVARIANTS TypeOK
PROPERTIES NoStepOverbooks QueueOrderStable HeldGuestStays
CHECK_DEADLOCK FALSE
