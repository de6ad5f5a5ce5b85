SPECIFICATION Spec
CONSTANTS
  Members = {m1, m2, m3}
  Outsiders = {}
  Guests = {}
  Games <- LimitedGame
  Nearby = {}
  LinkHolders = {}
  Knockers = {}
  FourthFrom = 2
  LateFrom = 3
  Starts = 5
  Ends = 6
  HoldTicks = 1
  MaxPosition = 4
SYMMETRY MemberSymmetry
INVARIANT NeverOversubscribed
CHECK_DEADLOCK FALSE
