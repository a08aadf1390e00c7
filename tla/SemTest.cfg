SPECIFICATION FairSpec
CONSTANTS
  Main = Main
  Consumer = Consumer
  P0 = P0
  P1 = P1
  Limit = 3
INVARIANTS
  TypeOK
  CounterInRange
  ItemsCovered
  SignalsAccepted
PROPERTY ShutdownCompletes
