SPECIFICATION Spec
CONSTANTS
  Base = 4
  Granule = 4
  MaxWord = 15
  ArenaSizes = {7, 12}
  MaxBlocks = 3
  Sizes = {0, 2, 3, 15}
  Aligns = {1, 2, 8}
INVARIANTS
  TypeOK
  TableApart
PROPERTIES
  ImplementsAllocator
