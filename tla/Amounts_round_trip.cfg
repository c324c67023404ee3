\* The same inputs, and what the tests expect of the conversions.
CONSTANTS
  Router = Router
  Token = Token
  Provider = Provider
  Stranger = Stranger
  AddressLength = 2
  BadPair = BadPair
  Inf = Inf
  NaN = NaN
  Unparsable = Unparsable
  Never = Never
  NoAddress = NoAddress
  NilTx = NilTx
  RouterAddress = Router
  TargetToken = Token
  Address <- MCAddress
  LiquidityProviders = {Provider}
  Precision = 5
  Unit = 100
  MaxExponent = 16
  MaxAmount = 260
  Entries <- MCEntries
  FileAmounts <- MCFileAmounts
  Instants = {1, 2}
SPECIFICATION Spec
INVARIANT
  RoundTripsExactly
\* One computation, then the behaviour ends.
CHECK_DEADLOCK FALSE
