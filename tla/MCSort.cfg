SPECIFICATION FairSpec
CONSTANTS
  MaxCount = 5
  Keys = 4
  Inputs <- MCInputs
INVARIANTS
  TypeOK
  SortedStably
  SameElements
PROPERTIES
  OnlySortsMore
  Returns
