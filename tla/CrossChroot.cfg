SPECIFICATION Spec
CONSTANTS
  bookworm = bookworm
  noble = noble
  Targets <- BothTargets
SYMMETRY Symmetry
INVARIANTS
  TaskRunsInItsRoot
  OnlyTheRootIsRemoved
