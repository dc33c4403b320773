\* trees of up to three directories and twelve objects
CONSTANTS
  SmallPrimes <- MCSmallPrimes
  MaxTableSize = 65521
  NameBytes <- MCNameBytes
  MaxEntries = 12
  Trees <- MCTrees
  Limits <- MCLimits
  Bases = {257, 263}
  Budgets = {0, 1, 20}
  HeaderCells = 2
  PerPage = 8
  MaxEdits <- MCMaxEdits
  Rooms <- MCRooms
SPECIFICATION Spec
INVARIANTS CellsCounted BuiltAccepted CheckersAgree ReaddirComplete
CHECK_DEADLOCK FALSE
