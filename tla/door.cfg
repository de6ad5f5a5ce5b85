SPECIFICATION Spec
CONSTANTS
  Accounts = {a1, a2, a3}
  Guests = {g1}
  Founder = a1
  Sessions = {}
  Departures = {}
  Patches <- LimitAndDoor
  Nobody = nobody
  MaxKnocks = 2
SYMMETRY JoinerSymmetry
INVARIANTS TypeOK
PROPERTIES NoDoorOverfills KnockSettledOnce
CHECK_DEADLOCK FALSE
