SPECIFICATION Spec
CONSTANTS
  Accounts = {a1, a2}
  Guests = {g1, g2}
  Founder = a1
  Sessions = {s1}
  Departures = {d1, d2}
  Patches <- NoPatch
  Nobody = nobody
  MaxKnocks = 0
SYMMETRY JoinerSymmetry
INVARIANTS GuestsNeverLead OnlyLateOrRefusedLinger
PROPERTIES LedToTheLast
CHECK_DEADLOCK FALSE
