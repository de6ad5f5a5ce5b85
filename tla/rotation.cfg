SPECIFICATION Spec
CONSTANTS
  Members = {m1, m2, m3}
  Outsiders = {o1}
  Guests = {}
  Games <- AnyRotation
  Nearby = {}
  LinkHolders = {o1}
  Knockers = {}
  FourthFrom = 2
  LateFrom = 3
  Starts = 5
  Ends = 6
  HoldTicks = 1
  MaxPosition = 4
SYMMETRY MemberSymmetry
INVARIANTS LockedStrandsNobody
PROPERTIES SeatedByClaimOrInTurn LateFillFits
CHECK_DEADLOCK FALSE
