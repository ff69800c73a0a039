SPECIFICATION FairSpec
CONSTANTS
  Points <- MCPoints
  Loiters <- MCLoiters
  Dynamic = TRUE
  MAX_WAYPOINTS = 2
  LiveBytes = 2
  Budgets <- MCBudgets
  MAVLINK_WAYPOINT_TIMEOUT = 1
  Seqs <- MCSeqs
  Counts = {0, 1, 3}
INVARIANTS
  TypeOK
  GoalFollowsIndex
  AckedInOrder
  NextItemAsked
PROPERTIES
  LiveIsWhole
  GivenUpLate
  TransfersEnd
  RoundTrip
