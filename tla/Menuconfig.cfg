CONSTANTS
  Kconfigs <- MCKconfigs
  Texts <- MCTexts
  NumOf <- MCNumOf
  None = None
  UserTexts = {""}
  Readable = {}
  Stocks <- AllStocks
  Menus <- MCMenus
  FirstLook <- MCFirstLook
  MaxNodes = 4
  Heights = {1, 3}
  ScrollOffset = 1
  Budgets <- MCBudgets
SPECIFICATION MenuSpec
INVARIANTS
  DepsAreThoseOfTheText
  TreeIsWhole
  SubmenusDepend
  DepLoopsAreFound
  InWindow
  MenuIsCurrent
  NothingIsLost
PROPERTY WindowSpec
CHECK_DEADLOCK FALSE
