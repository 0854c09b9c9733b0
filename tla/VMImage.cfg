SPECIFICATION Spec
CONSTANTS
  Versions <- ThreeVersions
  MaxInstalls = 4
INVARIANTS
  NewFilesNewImage
  DiskStaysOnItsBase
