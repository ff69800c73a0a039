SPECIFICATION MCSpec
CONSTANTS
  BlockCount = 2
  FirstPage = {1}
  Values = {"v"}
  Junk <- MCJunk
  Handlers <- MCHandlers
  MaxFaults = 1
  CanOvertake = TRUE
  Selected <- MCSelected
  Messages = {"save_all", "save_specific", "load_specific", "clear"}
  MaxCrashes = 0
  Chips = {{0}, {1, 2}}
  Filled = {}
INVARIANTS
  TypeOK
  LoadedIsWhole
  StoppedMeansFree
  ServicesAwaitStorage
PROPERTIES
  BuffersStable
  ImplementsBlockStore
