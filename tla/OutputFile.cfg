\* two plain runs and a forced one; the destination changes twice at most
CONSTANTS
  Runs = {r1, r2, f}
  Forced = {f}
  Foreign <- MCForeign
  MaxMoves = 2
  NONE = NONE
SPECIFICATION Spec
SYMMETRY Symmetric
INVARIANTS PublishedIsWhole NeverClobbered ReportedIsDurable
PROPERTIES NoStrayTemp PublishedStays
CHECK_DEADLOCK FALSE
