SPECIFICATION Spec
CONSTANTS
  SizeMax = 65535
  Header = 24
  Places = {4096, 8208, 12336, 16544}
INVARIANTS
  TypeOK
  HeapIsHeld
  FailsOnlyWhenStarved
