SPECIFICATION Spec
CONSTANTS
  MaxOrder = 2
  HugeOrder = 2
  KernelPages = 8
  MemoryPages = 17
  PromoteAbove = 1
  Cores = {c1}
  AppOf <- Alone
  VpnsOf <- AloneVpns
  Levels = 3
  TlbEntries = 1
  StartLists <- WholeOrFragmented
  NoCore = NoCore
  c1 = c1
  c2 = c2
  a1 = a1
INVARIANTS EachPAOneVAUntilDemotion NoFaultInPromoted GivesUpWhenFull
PROPERTIES SameVASamePA
CHECK_DEADLOCK FALSE
