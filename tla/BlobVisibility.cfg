\* every tree of up to three objects below the root
CONSTANTS
  MaxNodes = 3
  Names = {"a", "b", "c"}
  Contents = {"a", "z"}
  DirModes <- MCDirModes
SPECIFICATION Spec
INVARIANT PartsAgree
CHECK_DEADLOCK FALSE
