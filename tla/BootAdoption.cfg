\* two preloads, two entries
CONSTANTS
  Memories <- MCMemories
  Environments <- MCEnvironments
  PageSize = 2
  Top = 6
  MaxReloads = 1
SPECIFICATION Spec
INVARIANT NothingForeignFreed
CHECK_DEADLOCK FALSE
