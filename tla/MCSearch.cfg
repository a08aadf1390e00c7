SPECIFICATION FairSpec
CONSTANTS
  SizeMax = 31
  IntMax = 7
  MaxCount = 12
  Calls <- MCCalls
INVARIANTS
  TypeOK
  ComparesInside
  NothingMissed
  ResultIsRight
PROPERTIES
  Halves
  Returns
