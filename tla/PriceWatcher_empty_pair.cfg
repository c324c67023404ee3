\* A pair without liquidity and a node that answers.
CONSTANTS
  Reserves <- MCReserves
  NilPrice = NilPrice
  FaultSets = {{}}
SPECIFICATION Spec
INVARIANTS
  UnpricedPairIsNotFatal
\* The program ends by log.Fatalf or a panic, or the watcher stops.
CHECK_DEADLOCK FALSE
