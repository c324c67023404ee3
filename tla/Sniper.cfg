\* Both programs, with every outcome of the configuration, calls that may fail and
\* replies that may be lost.
CONSTANTS
  Reserves <- MCReserves
  NilPrice = NilPrice
  MaxNonce = 1
  MaxTime = 2
  Expiration = 1
  FaultSets = {{}, {"calls"}, {"replies"}, {"calls", "replies"}}
SPECIFICATION Spec
INVARIANTS
  TypeOK
  SwapNotAbandoned
PROPERTIES
  NoSwapBeforeDue
  ImplementsSwap
  EndsOnceDue
\* The program ends.
CHECK_DEADLOCK FALSE
