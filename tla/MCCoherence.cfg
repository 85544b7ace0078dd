SPECIFICATION FairSpec
CONSTANTS
  Nobody = Nobody
  Machines <- AllMachines
  FairMachines <- LiveMachines
INVARIANTS AssertionsHold SingleWriter Inclusion DirectoryKnowsCopies ModifiedKeepsLastWrite
PROPERTIES Served
