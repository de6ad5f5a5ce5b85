SPECIFICATION Spec
CONSTANTS
  a = a
  b = b
  g = g
  Accounts = {a, b}
  Guests = {g}
  Organiser = a
  Sessions = {s}
  Bills <- GuestRound
  Total = 10
  Requests = {r1, r2}
  MaxSplits = 2
  None = none
SYMMETRY RequestSymmetry
INVARIANTS TypeOK SettledByBoth PagesAgree DebtsFollowMerges OnlyRacedSplitsRepeat
CHECK_DEADLOCK FALSE
