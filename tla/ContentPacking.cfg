\* images of up to four blobs, pages of 8 bytes, words of 2, offsets below 64
CONSTANTS
  Page = 8
  Word = 2
  Limit = 64
  Sizes = {0, 1, 5, 7, 8, 9, 16, 33, 61}
  MaxBlobs = 4
  MetaEnds = {9, 32, 60}
  HostPages = {4, 8, 16}
SPECIFICATION Spec
INVARIANTS KernelAccepts NothingForeignShared SimPredicts
CHECK_DEADLOCK FALSE
