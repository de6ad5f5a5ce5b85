SPECIFICATION FairSpec
CONSTANTS
  Consumers = {c1, c2, c3}
  MaxEntries = 4
INVARIANTS TypeOK OneChannel NoOrphanChannel
PROPERTIES EveryConsumerListens DropsAreCaughtUp
CHECK_DEADLOCK FALSE
