\* No rivals and no failures.
CONSTANTS
  MaxNonce = 2
  MaxTime = 3
  Expiration = 1
  FaultSets = {{}}
SPECIFICATION Spec
INVARIANTS
  ReportMeansBought
\* The program ends, or waits for a transaction that was displaced.
CHECK_DEADLOCK FALSE
