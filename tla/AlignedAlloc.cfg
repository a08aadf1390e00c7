SPECIFICATION Spec
CONSTANTS
  SizeMax = 15
  Header = 3
  Granule = 2
  Sizes = {0, 1, 3, 15}
  Alignments = {0, 1, 2, 3, 4}
  Values = {1, 2}
  MaxHandles = 2
INVARIANTS
  TypeOK
  InsideItsBlock
  NoLeak
PROPERTY ImplementsObjects
