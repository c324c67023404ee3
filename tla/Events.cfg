\* Every Filter and Watch function, up to two logs, a channel that holds one.
CONSTANTS
  Alice = Alice
  Bob = Bob
  Address <- MCAddress
  Calls <- MCFilterCalls
  WatchesMade <- MCWatchCalls
  MaxLogs = 2
  LogBuffer = 1
SPECIFICATION MCSpec
INVARIANTS
  TypeOK
  DeliversWanted
  WatcherDeliversWanted
PROPERTIES
  ImplementsStream
  CallsReturn
  WatcherImplementsStream
  UnsubscribeEnds
  FailureIsShown
\* A Filter or Watch call that is refused, or a subscription that is over, leaves
\* nothing to do.
CHECK_DEADLOCK FALSE
