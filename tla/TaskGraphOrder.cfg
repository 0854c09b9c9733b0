SPECIFICATION FairSpec
CONSTANTS
  Names <- AllNames
  Manifests <- TinyAndDeep
  MaxQueue = 50
INVARIANTS
  DependenciesRunFirst
  SortSucceeds
  SiblingsKeepListOrder
PROPERTIES
  Terminates
