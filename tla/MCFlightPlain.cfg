SPECIFICATION MCSpec
CONSTANTS
  Positions = {"low", "mid", "high"}
  MaxPauseToggle = 1
  Catapult = FALSE
  FailsafeHold = TRUE
  TwoPosition = FALSE
  SyncPeriod = 2
  CalibPause = 1
  StandbyPause = 3
  SaveOriginAt = 2
  DeadReckonAt = 1
  LaunchDelay = 3
  GpsMaxAge = 2
INVARIANTS
  TypeOK
  HoldOnlyInReturn
  ModeFlagsTellState
  FailsafeEngaged
  OriginRequestedBeforeFlight
PROPERTIES
  ManualTakeover
  LostRadioReturns
  HoldUntilSwitchMoves
