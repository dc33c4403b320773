\* three callers, one of them with two calls, one label, all interleavings
CONSTANTS
  Threads = {t1, t2, t3}
  Labels = {l1}
  Banks = {b1, b2, b3}
  Images <- MCImages
  HostPage = 2
  Padding = {2}
  MaxBoot = 1
  MaxCalls <- MCCalls
  Once = {t2, t3}
  NULL = NULL
SPECIFICATION Spec
SYMMETRY Symmetric
INVARIANTS
  TypeOK UniqueLabels MountedIsResident ClaimsAreHeld NothingLeaks
  ListedIsValidated CountersMatch ActiveCounts StoppingIsEmpty LockOutlivesUsers
CHECK_DEADLOCK FALSE
