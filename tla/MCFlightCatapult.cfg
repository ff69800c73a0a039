SPECIFICATION HeartbeatSpec
CONSTANTS
  Positions = {"low", "mid", "high"}
  MaxPauseToggle = 1
  Catapult = TRUE
  FailsafeHold = FALSE
  TwoPosition = FALSE
  SyncPeriod = 2
  CalibPause = 1
  StandbyPause = 3
  SaveOriginAt = 2
  DeadReckonAt = 1
  LaunchDelay = 3
  GpsMaxAge = 2
INVARIANTS
  ThrottleInhibitedOnCatapult
  FailsafeEngaged
  LaunchDelayExact
PROPERTIES
  ManualTakeover
  LostRadioReturns
