SPECIFICATION MCFairSpec
CONSTANTS
  BlockCount = 2
  FirstPage = {1}
  Values = {"v"}
  Junk <- MCJunk
  Handlers <- MCHandlers
  MaxFaults = 0
  CanOvertake = FALSE
  Selected <- MCSelected
  Messages = {}
  MaxCrashes = 0
  Chips = {{0}}
  Filled = {}
PROPERTIES
  ServicesComeUp
