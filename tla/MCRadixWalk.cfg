SPECIFICATION Spec
CONSTANTS
  Cores = {c1, c2}
  VpnsOf <- Together
  Levels = 3
  Fan = 2
  Thresholds = {0, 1, 2}
  Reorders = TRUE
  c1 = c1
  c2 = c2
INVARIANTS RequestSuffices QuietTable EstablishedKeptWhileLinksStay QuietWalkReturnsMapping
CHECK_DEADLOCK FALSE
