\* Every kind of transaction, every deadline, and every behaviour of the node.
CONSTANTS
  Router = Router
  Token = Token
  Provider = Provider
  Stranger = Stranger
  NoAddress = NoAddress
  NilTx = NilTx
  RouterAddress = Router
  TargetToken = Token
  Address <- MCAddress
  LiquidityProviders = {Provider}
  Txs <- AllKinds
  InitialDeadlines = {"nil", "future", "past"}
  MaxBuffer = 2
  NodeBehaviours = {"answers", "fails", "hangs"}
SPECIFICATION Spec
INVARIANTS
  TypeOK
  FiresOnlyWhenDue
  ClosedOnlyByPanic
  NilTxOnlyAfterDeadline
  InOrder
PROPERTIES
  ParkedListenerIsHarmless
  ImplementsOneShot
  DeadlineEndsTheWait
  AnnouncedTargetReleases
  ListenerWindsDown
\* The program ends: fatally, by a panic, or with main released.
CHECK_DEADLOCK FALSE
