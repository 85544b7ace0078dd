SPECIFICATION Spec
CONSTANTS
  DispatchWidth = 1
  WindowSize = 3
  NoPage = NoPage
  Pages <- MCPages
  Path <- MCPath
  Traces <- MCTraces
INVARIANTS CommittedOnce
CHECK_DEADLOCK FALSE
