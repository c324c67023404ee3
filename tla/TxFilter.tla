------------------------------ MODULE TxFilter ------------------------------
(***************************************************************************)
(* How the buy trigger classifies one pending transaction                  *)
(* (BuyTrigger.isTargetTransaction, pkg/triggers/buy_trigger.go, and the   *)
(* two decoders it calls, pkg/eth/transaction.go), under the mempool       *)
(* filter that config.parseValues builds.                                  *)
(*                                                                         *)
(* A transaction is a record of what the filter can tell apart.  Call data *)
(* is a router method with the values of its address parameters, or one of *)
(* three kinds that do not decode.                                         *)
(***************************************************************************)
CONSTANTS
  Address,             \* the values of common.Address
  NoAddress,           \* a nil *common.Address
  NilTx,               \* a nil *types.Transaction
  RouterAddress,       \* conf.RouterAddress
  TargetToken,         \* conf.TargetTokenAddr
  LiquidityProviders   \* conf buyTrigger.liquidityProviders; {} means anyone

ASSUME FilterAssumption ==
  /\ RouterAddress \in Address
  /\ TargetToken \in Address
  /\ LiquidityProviders \subseteq Address
  /\ NoAddress \notin Address

-----------------------------------------------------------------------------
(* Transactions.                                                           *)

\* The methods of the router's ABI, with their parameters of type address by name.
ConstantMethods == {"WETH", "factory"}

QuoteMethods == {"getAmountIn", "getAmountOut", "getAmountsIn", "getAmountsOut", "quote"}

AddLiquidityParams ==
  [addLiquidity    |-> {"tokenA", "tokenB", "to"},
   addLiquidityETH |-> {"token", "to"}]

RemoveLiquidityParams ==
  [removeLiquidity                                             |-> {"tokenA", "tokenB", "to"},
   removeLiquidityWithPermit                                   |-> {"tokenA", "tokenB", "to"},
   removeLiquidityETH                                          |-> {"token", "to"},
   removeLiquidityETHSupportingFeeOnTransferTokens             |-> {"token", "to"},
   removeLiquidityETHWithPermit                                |-> {"token", "to"},
   removeLiquidityETHWithPermitSupportingFeeOnTransferTokens   |-> {"token", "to"}]

SwapETHMethods ==
  {"swapETHForExactTokens", "swapExactETHForTokens",
   "swapExactETHForTokensSupportingFeeOnTransferTokens"}

SwapTokensMethods ==
  {"swapExactTokensForETH", "swapExactTokensForETHSupportingFeeOnTransferTokens",
   "swapExactTokensForTokens", "swapExactTokensForTokensSupportingFeeOnTransferTokens",
   "swapTokensForExactETH", "swapTokensForExactTokens"}

RouterMethods ==
  ConstantMethods \cup QuoteMethods \cup DOMAIN AddLiquidityParams
    \cup DOMAIN RemoveLiquidityParams \cup SwapETHMethods \cup SwapTokensMethods

AddressParams ==
  [m \in RouterMethods |->
     CASE m \in DOMAIN AddLiquidityParams             -> AddLiquidityParams[m]
       [] m \in DOMAIN RemoveLiquidityParams          -> RemoveLiquidityParams[m]
       [] m \in SwapETHMethods \cup SwapTokensMethods -> {"to"}
       [] OTHER                                       -> {}]

\* "short": fewer than four bytes; "unknown": no such selector in the router's
\* ABI; "garbled": a selector whose arguments do not unpack.
Undecodable == {"short", "unknown", "garbled"}

\* "eip155" and "homestead" are legacy signatures that NewEIP155Signer
\* accepts; "typed" (EIP-2930, EIP-1559) and "foreign" (another chain ID) are
\* those it rejects.
Signatures == {"eip155", "homestead", "typed", "foreign"}

CallData ==
  (UNION { [method : {m}, args : [AddressParams[m] -> Address]] : m \in RouterMethods })
    \cup [method : Undecodable, args : {<<>>}]

Transaction ==
  [to        : Address \cup {NoAddress},   \* NoAddress: contract creation
   from      : Address,                    \* the account that signed it
   signature : Signatures,
   data      : CallData]

-----------------------------------------------------------------------------
(* The filter and the decoders.                                            *)

MempoolFilter ==
  [From              |-> LiquidityProviders,
   To                |-> {RouterAddress},
   Methods           |-> {"addLiquidityETH", "addLiquidity"},
   TargetTokenFields |-> {"token", "tokenA", "tokenB"}]

arrContains(arr, e) == e \in arr

\* A field the method does not have is skipped: args[field].(T) is not ok.
argsContainsValueOnOneOfTheseField(args, targetValue, possibleFields) ==
  \E field \in possibleFields \cap DOMAIN args : args[field] = targetValue

\* networkUp: the client.NetworkID call got an answer.  NoAddress is an error.
GetTxSender(tx, networkUp) ==
  IF networkUp /\ tx.signature \in {"eip155", "homestead"} THEN tx.from ELSE NoAddress

\* callData[:4] is out of range.
CallDataPanics(tx) == tx.data.method = "short"

\* GetTxCallData returns a method and its arguments, not an error.
Decodes(tx) == tx.data.method \in RouterMethods

AcceptsToBug(tx) == TRUE

AcceptsTo(tx) ==
  /\ tx.to # NoAddress
  /\ MempoolFilter.To # {} => arrContains(MempoolFilter.To, tx.to)

AcceptsFromBug(tx, networkUp) == GetTxSender(tx, networkUp) # NoAddress

AcceptsFrom(tx, networkUp) ==
  LET from == GetTxSender(tx, networkUp) IN
  /\ from # NoAddress
  /\ MempoolFilter.From # {} => arrContains(MempoolFilter.From, from)

AcceptsCallBug(tx) ==
  /\ Decodes(tx)
  /\ argsContainsValueOnOneOfTheseField(tx.data.args, TargetToken,
                                        MempoolFilter.TargetTokenFields)

AcceptsCall(tx) ==
  /\ Decodes(tx)
  /\ MempoolFilter.Methods # {} => arrContains(MempoolFilter.Methods, tx.data.method)
  /\ MempoolFilter.TargetTokenFields # {} =>
       argsContainsValueOnOneOfTheseField(tx.data.args, TargetToken,
                                          MempoolFilter.TargetTokenFields)

-----------------------------------------------------------------------------
(* isTargetTransaction: "target" for true, "other" for false, or "panic".  *)

Panics(tx, networkUp) ==
  \/ tx = NilTx
  \/ AcceptsTo(tx) /\ AcceptsFrom(tx, networkUp) /\ CallDataPanics(tx)

Matches(tx, networkUp) ==
  AcceptsTo(tx) /\ AcceptsFrom(tx, networkUp) /\ AcceptsCall(tx)

isTargetTransaction(tx, networkUp) ==
  CASE Panics(tx, networkUp)                           -> "panic"
    [] ~Panics(tx, networkUp) /\ Matches(tx, networkUp) -> "target"
    [] OTHER                                           -> "other"

-----------------------------------------------------------------------------
(* What the operator of the program asks for, written without the filter:  *)
(* a transaction that adds liquidity for the target token through the      *)
(* router, signed by one of the configured providers if there are any.     *)

AddsTargetLiquidity(tx) ==
  /\ tx.to = RouterAddress
  /\ tx.from \in LiquidityProviders \/ LiquidityProviders = {}
  /\ \/ /\ tx.data.method = "addLiquidityETH"
        /\ tx.data.args["token"] = TargetToken
     \/ /\ tx.data.method = "addLiquidity"
        /\ TargetToken \in {tx.data.args["tokenA"], tx.data.args["tokenB"]}

=============================================================================
