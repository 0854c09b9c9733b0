SPECIFICATION PackagesSpec
CONSTANTS
  Ids <- SomeIds
  Configs = {"A", "B"}
  Provides = {"B"}
  Nothing = Nothing
  Overlays <- AllOverlays
  Files = {"f", "g"}
  TaskLists <- AllLists
INVARIANTS
  RightWorkIsSeen
  LastTaskWins
  NoStaleFiles
PROPERTIES
  VMWorkStays
CHECK_DEADLOCK FALSE
