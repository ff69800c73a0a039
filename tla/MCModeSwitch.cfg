SPECIFICATION Spec
CONSTANTS
  Positions = {"low", "atLow", "high"}
  MaxPauseToggle = 2
INVARIANTS
  TypeOK
  DownMeansManual
PROPERTIES
  AutonomousNeedsToggles
