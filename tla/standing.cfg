SPECIFICATION Spec
CONSTANTS
  Week = 4
  Slots = {1, 3}
  Lasts = 1
  LastTick = 8
  MaxSessions = 3
INVARIANTS TypeOK OneSessionUnlessRaced SessionFollowsGame
PROPERTIES NoKickoffMissed
CHECK_DEADLOCK FALSE
