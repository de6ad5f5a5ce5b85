SPECIFICATION Spec
CONSTANTS
  Members = {m1, m2, m3, m4}
  Outsiders = {o1, o2}
  Guests = {}
  Games <- PlainGame
  Nearby = {o2}
  LinkHolders = {}
  Knockers = {o1}
  FourthFrom = 2
  LateFrom = 3
  Starts = 5
  Ends = 6
  HoldTicks = 1
  MaxPosition = 4
SYMMETRY MemberSymmetry
INVARIANTS NeverOversubscribed NoIdleSlot QueueContiguous
PROPERTIES EverySeatCounted RosterFrozenAfterKickoff KeepsPromise
CHECK_DEADLOCK FALSE
