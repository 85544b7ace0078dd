SPECIFICATION Spec
CONSTANTS
  MaxOrder = 2
  HugeOrder = 2
  KernelPages = 8
  MemoryPages = 16
  PromoteAbove = 4
  Cores = {c1, c2}
  AppOf <- OneApp
  VpnsOf <- SharedVpns
  Levels = 3
  TlbEntries = 1
  StartLists <- Fragmented
  NoCore = NoCore
  c1 = c1
  c2 = c2
  a1 = a1
PROPERTIES SameVASamePA
CHECK_DEADLOCK FALSE
