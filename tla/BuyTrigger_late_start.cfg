\* A buy deadline already past, a node that answers every call.
CONSTANTS
  Router = Router
  Token = Token
  Provider = Provider
  Stranger = Stranger
  NoAddress = NoAddress
  NilTx = NilTx
  RouterAddress = Router
  TargetToken = Token
  Address <- MCAddress
  LiquidityProviders = {Provider}
  Txs <- Harmless
  InitialDeadlines = {"past"}
  MaxBuffer = 2
  NodeBehaviours = {"answers"}
SPECIFICATION Spec
INVARIANT DeadlineIsNotFatal
\* The program ends: fatally, by a panic, or with main released.
CHECK_DEADLOCK FALSE
