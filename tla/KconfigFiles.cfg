CONSTANTS
  Kconfigs <- MCKconfigs
  Texts <- MCTexts
  NumOf <- MCNumOf
  None = None
  UserTexts = {"", "x_defconfig"}
  Readable <- MCReadable
  Given <- MCGiven
  Budgets <- AllBudgets
SPECIFICATION MCSpec
INVARIANTS
  CachesAreSound
  ProgramsSeeOneSelection
  ProgramsHoldOffers
  
  SavedIsKept
  BuildsAreCurrent
PROPERTIES
  CacheSpec
  WritesSpec
CHECK_DEADLOCK FALSE
