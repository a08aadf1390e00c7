SPECIFICATION Spec
CONSTANTS
  Calls <- ZeroCalls
  Registers = {0, 5, 1000}
INVARIANT AllZerosIffZero
