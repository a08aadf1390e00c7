SPECIFICATION Spec
CONSTANTS
  Calls <- MCCalls
  Registers = {0, 5, 1000}
INVARIANTS
  TypeOK
  CountsZeros
  PathExists
