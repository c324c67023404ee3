\* Both callers of NewPriceWatcher, with every combination of faults.
CONSTANTS
  Reserves <- MCReserves
  NilPrice = NilPrice
  FaultSets = {{}, {"calls"}, {"ctx"}, {"calls", "ctx"}}
SPECIFICATION Spec
INVARIANTS
  TypeOK
  PriceWasReal
PROPERTIES
  PriceFollows
\* The program ends by log.Fatalf or a panic, or the watcher stops.
CHECK_DEADLOCK FALSE
