\* every slice of four buckets, and every directory of up to four names in one,
\* or of up to three if it uses both hashes
CONSTANTS
  Size = 4
  MaxNames = 4
  MaxDual = 3
SPECIFICATION PSpec
INVARIANTS ChainsDecides ReadersAgree KernelFinds ReplayAgrees
PROPERTY ChainsEnds
CHECK_DEADLOCK FALSE
