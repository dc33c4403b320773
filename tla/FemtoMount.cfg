\* one mount, one administrator, two processes, two hard-deduplicated files
CONSTANTS
  Threads = {m, d}
  Mounters = {m}
  Labels = {l1}
  Procs = {p1, p2}
  Nodes <- MCNodes
  Blob <- MCBlob
  Kind <- MCKind
  Vnodes = {v1, v2}
  Pages = {0}
  MaxOps <- MCMaxOps
  NULL = NULL
SPECIFICATION Spec
SYMMETRY Symmetric
INVARIANTS
  UsesBalance MappedIsBacked OneVnodePerFile
  MappedCleanIsCached
PROPERTY SpillNeedsLeaking
CHECK_DEADLOCK FALSE
