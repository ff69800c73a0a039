SPECIFICATION MCSpec
CONSTANTS
  BlockCount = 2
  FirstPage = {1}
  Values = {"v"}
  Junk <- MCJunk
  Handlers <- MCHandlers
  MaxFaults = 1
  CanOvertake = FALSE
  Selected <- MCSelected
  Messages = {}
  MaxCrashes = 0
  Chips = {{1, 2}}
  Filled = {}
INVARIANTS
  AreasKept
