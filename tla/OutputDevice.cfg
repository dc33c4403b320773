\* two runs over an old image of three pages, on a device of three pages
CONSTANTS
  Runs = 2
  Pages = 3
  Size <- MCSize
  Meta <- MCMeta
SPECIFICATION Spec
INVARIANTS NeverTorn ReportedIsDurable
CHECK_DEADLOCK FALSE
