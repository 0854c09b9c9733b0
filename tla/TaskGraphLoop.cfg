SPECIFICATION FairSpec
CONSTANTS
  Names <- AllNames
  Manifests <- LoopAndLeaf
  MaxQueue = 6
PROPERTIES
  LoopsAreReported
