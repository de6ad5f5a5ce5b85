CONSTANTS
  Accounts = {1, 2, 3, 4}
  Guests = {9}
  m1 = m1
  m2 = m2
  Matches = {m1, m2}
  Sessions = {s1}
  Reports <- CrossedReports
  Tappers = {9}
  MaxTaps = 1
  AdHoc = adhoc
  Free = free
  MergeInto <- GuestToTwo
SPECIFICATION FairSpec
INVARIANTS TypeOK SealedOnceAsAWhole ReliabilityHonest UnracedTrailAddsUp
PROPERTIES LedgerAppendOnly MergeDrainsGuest EveryTransactionEnds
CHECK_DEADLOCK FALSE
