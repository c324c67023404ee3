--------------------------- MODULE TxFilterProofs ---------------------------
(* What isTargetTransaction accepts, for any addresses, providers and      *)
(* target token.                                                           *)
EXTENDS TxFilter, TLAPS

\* The two methods that add liquidity, and no selector that fails to decode.
LEMMA Methods ==
  /\ RouterMethods \cap Undecodable = {}
  /\ {"addLiquidityETH", "addLiquidity"} \subseteq RouterMethods
  /\ AddressParams["addLiquidityETH"] = {"token", "to"}
  /\ AddressParams["addLiquidity"] = {"tokenA", "tokenB", "to"}
<1>1. /\ DOMAIN AddLiquidityParams = {"addLiquidity", "addLiquidityETH"}
      /\ AddLiquidityParams["addLiquidity"] = {"tokenA", "tokenB", "to"}
      /\ AddLiquidityParams["addLiquidityETH"] = {"token", "to"}
  BY DEF AddLiquidityParams
<1>2. DOMAIN RemoveLiquidityParams \cap Undecodable = {}
  BY DEF RemoveLiquidityParams, Undecodable
<1>3. RouterMethods \cap Undecodable = {}
  BY <1>1, <1>2
  DEF RouterMethods, Undecodable, ConstantMethods, QuoteMethods, SwapETHMethods, SwapTokensMethods
<1>4. {"addLiquidityETH", "addLiquidity"} \subseteq RouterMethods
  BY <1>1 DEF RouterMethods
<1>5. \A m \in DOMAIN AddLiquidityParams : AddressParams[m] = AddLiquidityParams[m]
  <2>. SUFFICES ASSUME NEW m \in DOMAIN AddLiquidityParams
                PROVE  AddressParams[m] = AddLiquidityParams[m]
    OBVIOUS
  <2>1. m \in RouterMethods
    BY DEF RouterMethods
  <2>2. m \notin DOMAIN RemoveLiquidityParams /\ m \notin SwapETHMethods \cup SwapTokensMethods
    BY <1>1 DEF RemoveLiquidityParams, SwapETHMethods, SwapTokensMethods
  <2>. QED
    BY <2>1, <2>2 DEF AddressParams
<1>. QED
  BY <1>1, <1>3, <1>4, <1>5

\* The arguments of decoded call data are a function on the address parameters of
\* its method, so a missing field cannot be taken for the target token.
LEMMA DecodedArgs ==
  ASSUME NEW tx \in Transaction, Decodes(tx)
  PROVE  tx.data.args \in [AddressParams[tx.data.method] -> Address]
<1>1. tx.data \in CallData
  BY DEF Transaction
<1>2. tx.data.method \notin Undecodable
  BY Methods DEF Decodes
<1>3. tx.data \notin [method : Undecodable, args : {<<>>}]
  BY <1>2
<1>4. PICK m \in RouterMethods :
        tx.data \in [method : {m}, args : [AddressParams[m] -> Address]]
  BY <1>1, <1>3 DEF CallData
<1>. QED
  BY <1>4

\* A decoded call of an accepted method that names the target token in one of the
\* listed fields is a call that adds liquidity for it, and the other way round.
LEMMA AcceptedCallAddsLiquidity ==
  ASSUME NEW tx \in Transaction
  PROVE  AcceptsCall(tx) <=>
           \/ /\ tx.data.method = "addLiquidityETH"
              /\ tx.data.args["token"] = TargetToken
           \/ /\ tx.data.method = "addLiquidity"
              /\ TargetToken \in {tx.data.args["tokenA"], tx.data.args["tokenB"]}
<1>1. CASE tx.data.method = "addLiquidityETH"
  <2>1. Decodes(tx)
    BY <1>1, Methods DEF Decodes
  <2>2. AddressParams["addLiquidityETH"] = {"token", "to"}
    BY Methods
  <2>3. tx.data.args \in [{"token", "to"} -> Address]
    BY <1>1, <2>1, <2>2, DecodedArgs
  <2>. QED
    BY <1>1, <2>1, <2>3
    DEF AcceptsCall, MempoolFilter, arrContains, argsContainsValueOnOneOfTheseField
<1>2. CASE tx.data.method = "addLiquidity"
  <2>1. Decodes(tx)
    BY <1>2, Methods DEF Decodes
  <2>2. AddressParams["addLiquidity"] = {"tokenA", "tokenB", "to"}
    BY Methods
  <2>3. tx.data.args \in [{"tokenA", "tokenB", "to"} -> Address]
    BY <1>2, <2>1, <2>2, DecodedArgs
  <2>. QED
    BY <1>2, <2>1, <2>3
    DEF AcceptsCall, MempoolFilter, arrContains, argsContainsValueOnOneOfTheseField
<1>3. CASE tx.data.method \notin {"addLiquidityETH", "addLiquidity"}
  BY <1>3 DEF AcceptsCall, MempoolFilter, arrContains
<1>. QED
  BY <1>1, <1>2, <1>3

\* isTargetTransaction answers "target" for exactly the transactions that add
\* liquidity for the target token through the router, signed by a configured
\* provider, whose sender the node lets it recover.
THEOREM FilterExact ==
  ASSUME NEW tx \in Transaction, NEW networkUp \in BOOLEAN, NilTx \notin Transaction
  PROVE  isTargetTransaction(tx, networkUp) = "target" <=>
           /\ AddsTargetLiquidity(tx)
           /\ networkUp
           /\ tx.signature \in {"eip155", "homestead"}
<1>1. tx.to \in Address \cup {NoAddress} /\ tx.from \in Address
  BY DEF Transaction
<1>2. AcceptsTo(tx) <=> tx.to = RouterAddress
  BY <1>1, FilterAssumption DEF AcceptsTo, MempoolFilter, arrContains
<1>3. AcceptsFrom(tx, networkUp) <=>
        /\ networkUp /\ tx.signature \in {"eip155", "homestead"}
        /\ tx.from \in LiquidityProviders \/ LiquidityProviders = {}
  BY <1>1, FilterAssumption DEF AcceptsFrom, GetTxSender, MempoolFilter, arrContains
<1>4. AcceptsCall(tx) => ~CallDataPanics(tx)
  BY Methods DEF AcceptsCall, Decodes, CallDataPanics, Undecodable
<1>5. isTargetTransaction(tx, networkUp) = "target" <=> Matches(tx, networkUp)
  BY <1>4 DEF isTargetTransaction, Panics, Matches
<1>. QED
  BY <1>2, <1>3, <1>5, AcceptedCallAddsLiquidity DEF Matches, AddsTargetLiquidity
=============================================================================
