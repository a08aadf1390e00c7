SPECIFICATION Spec
CONSTANTS
  SizeMax = 31
  IntMax = 7
  MaxCount = 12
  Calls <- ComparableCalls
INVARIANT AbsentKeyNotFound
