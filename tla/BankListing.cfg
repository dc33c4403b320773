\* femtoctl and one caller with two calls, up to two loader banks, two labels
CONSTANTS
  Threads = {c, t1}
  Client = c
  Labels = {l1, l2}
  Banks = {b1, b2}
  Images <- MCImages
  HostPage = 2
  Padding = {0}
  MaxBoot = 2
  MaxCalls <- MCCalls
  MaxAttempts = 2
  NULL = NULL
SPECIFICATION LSpec
PROPERTIES CoherentListing ListingEnds
CHECK_DEADLOCK FALSE
