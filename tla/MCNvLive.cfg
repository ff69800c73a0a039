SPECIFICATION MCFairSpec
CONSTANTS
  BlockCount = 2
  FirstPage = {1}
  Values = {"v", "w"}
  Junk <- MCJunk
  Handlers <- MCHandlers
  MaxFaults = 0
  CanOvertake = FALSE
  Selected <- MCSelected
  Messages = {"save_specific", "load_specific", "load_all"}
  MaxCrashes = 1
  Chips = {{2}, {1, 2}}
  Filled = {2}
INVARIANTS
  CompletionDue
  StoredDurable
  LoadedIsStored
PROPERTIES
  StartupCompletes
  RequestsAnswered
  ImplementsBlockStore
