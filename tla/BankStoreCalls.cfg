CONSTANTS
  Threads = {t1, t2}
  Labels = {l1}
  Banks = {b1, b2, b3}
  Images <- MCOneImage
  HostPage = 2
  Padding = {0, 2}
  MaxBoot = 1
  MaxCalls <- MCCalls
  Once = {}
  NULL = NULL
SPECIFICATION FairSpec
PROPERTIES CallsReturn ImplementsRegistry
CHECK_DEADLOCK FALSE
