SPECIFICATION FairSpec
CONSTANTS
  Positions = {"low", "high"}
  MaxPauseToggle = 0
  Catapult = FALSE
  FailsafeHold = FALSE
  TwoPosition = TRUE
  SyncPeriod = 2
  CalibPause = 1
  StandbyPause = 3
  SaveOriginAt = 2
  DeadReckonAt = 1
  LaunchDelay = 3
  GpsMaxAge = 2
PROPERTIES
  ManualTakeover
