SPECIFICATION Spec
CONSTANTS
  Points <- MCPoints
  Loiters <- MCLoiters
  Dynamic = FALSE
  MAX_WAYPOINTS = 2
  LiveBytes = 2
  Budgets <- MCNone
  MAVLINK_WAYPOINT_TIMEOUT = 1
  Seqs <- MCSeqs
  Counts = {1}
INVARIANTS
  ReturnFliesRtl
