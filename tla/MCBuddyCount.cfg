SPECIFICATION Spec
CONSTANTS
  MaxOrder = 3
  HugeOrder = 2
  KernelPages = 1
  MemoryPages = 10
  TopBlocks = 2
  MaxBlocks = 5
CONSTRAINT FewBlocks
PROPERTIES LeavesExactly
