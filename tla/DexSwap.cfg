\* Every combination of rivals, evictions, failing calls and lost replies.
CONSTANTS
  MaxNonce = 2
  MaxTime = 3
  Expiration = 1
  FaultSets <- MCFaultSets
SPECIFICATION Spec
INVARIANTS
  TypeOK
  OneSwap
  OlderSurvive
  FailureIsClean
PROPERTIES
  SwapSettles
\* The program ends, or waits for a transaction that was displaced.
CHECK_DEADLOCK FALSE
