SPECIFICATION FairSpec
CONSTANTS
  DispatchWidth = 1
  WindowSize = 3
  NoPage = NoPage
  Pages <- MCPages
  Path <- MCPath
  Traces <- MCTraces
INVARIANTS ProgramOrder OneTablePerFrame FlushedUnlessFetch ThreadAssertions
PROPERTIES TraceEnds
CHECK_DEADLOCK FALSE
