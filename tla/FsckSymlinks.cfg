\* trees of up to two objects with one content
CONSTANTS
  MaxNodes = 2
  Names = {"a", "b"}
  Contents = {"z"}
  DirModes <- MCDirModes
SPECIFICATION Spec
INVARIANT FsckTakesBuilt
CHECK_DEADLOCK FALSE
