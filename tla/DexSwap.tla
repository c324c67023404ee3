------------------------------- MODULE DexSwap -------------------------------
(***************************************************************************)
(* The one purchase of the program: buyTokens (cmd/main.go, cmd/run) over  *)
(* DexSwap.BuildTx (pkg/swap/swap.go).  Each call to the node is a step of *)
(* its own, so the chain moves between reading the nonce, simulating the   *)
(* swap, sending it and waiting for its receipt.                           *)
(*                                                                         *)
(* The wallet's transactions are kept by nonce: slot[n] says whose         *)
(* transaction the node has for nonce n, and those below `next` are mined. *)
(* Others may use the same wallet.                                         *)
(***************************************************************************)
EXTENDS Integers, FiniteSets

CONSTANTS
  MaxNonce,    \* bound: the nonces are 0 .. MaxNonce
  MaxTime,     \* bound: the clock stops there
  Expiration,  \* s.Expiration
  FaultSets    \* what may happen in a run: "rivals" send transactions from the
               \* wallet, the node has "evictions" from its pool, "calls" are
               \* refused or lost, "replies" of SendTransaction are lost although
               \* the node has the transaction

ASSUME SwapAssumption ==
  /\ MaxNonce \in Nat /\ MaxTime \in Nat /\ Expiration \in Nat
  /\ FaultSets \subseteq SUBSET {"rivals", "evictions", "calls", "replies"}

Nonces == 0 .. MaxNonce

VARIABLES
  pc,         \* "nonce", "gas", "simulate", "send", "wait", "report"; "failed"
  nonce,      \* opts.Nonce
  expires,    \* the deadline argument of the swap
  slot,       \* for each nonce "free", "rival" or "ours"
  next,       \* the wallet's first nonce that is not mined
  result,     \* what mining did to our swap: "none", "bought" or "reverted"
  liquidity,  \* the liquidity of the pair: "none", "pending" or "mined"
  now,        \* the clock
  older,      \* the nonces rivals held when ours was read
  faults      \* what may happen in this run

tx    == <<nonce, expires, older>>
chain == <<slot, next, result>>
world == <<liquidity, now>>
vars  == <<pc, tx, chain, world, faults>>

Init ==
  /\ pc = "nonce" /\ nonce = 0 /\ expires = 0 /\ older = {}
  /\ slot = [n \in Nonces |-> "free"] /\ next = 0 /\ result = "none"
  /\ liquidity = "none" /\ now = 0
  /\ faults \in FaultSets

-----------------------------------------------------------------------------
(* BuildTx.                                                                *)

NonceAt(n) == n = next

NonceAfterPending(n) ==
  /\ n > next /\ slot[n] = "free"
  /\ \A k \in next .. n - 2 : slot[k] # "free"

\* eth_getTransactionCount of the pending state: the first nonce without gap that
\* no pooled transaction uses.
PendingNonceAt(n) ==
  /\ n >= next /\ slot[n] = "free"
  /\ \A k \in next .. n - 1 : slot[k] # "free"

GetNonce ==
  /\ pc = "nonce"
  /\ \E n \in Nonces : PendingNonceAt(n) /\ nonce' = n
  /\ older' = {n \in Nonces : slot[n] = "rival"}
  /\ pc' = "gas"
  /\ UNCHANGED <<expires, chain, world, faults>>

ExpiresInThePast ==
  /\ pc = "gas"
  /\ expires' = now - Expiration
  /\ pc' = "simulate"
  /\ UNCHANGED <<nonce, older, chain, world, faults>>

\* SuggestGasPrice and GetSignerOpts; GetTxDeadlineFromNow is evaluated as an
\* argument of the router call.
GetGasPrice ==
  /\ pc = "gas"
  /\ expires' = now + Expiration
  /\ pc' = "simulate"
  /\ UNCHANGED <<nonce, older, chain, world, faults>>

\* The router's swapExactETHForTokensSupportingFeeOnTransferTokens goes through in
\* the pending block.
SwapExactETHForTokensSupportingFeeOnTransferTokens == liquidity # "none" /\ now <= expires

\* opts.GasLimit = 0: the router binding has the node simulate the swap on its
\* pending block, and signs it if that succeeds.
EstimateGas ==
  /\ pc = "simulate"
  /\ SwapExactETHForTokensSupportingFeeOnTransferTokens
  /\ pc' = "send"
  /\ UNCHANGED <<tx, chain, world, faults>>

\* The simulated swap reverts, or a call fails: "Failed to build swap transaction".
BuildFails ==
  /\ \/ pc \in {"nonce", "gas", "simulate"} /\ "calls" \in faults
     \/ pc = "simulate" /\ ~SwapExactETHForTokensSupportingFeeOnTransferTokens
  /\ pc' = "failed"
  /\ UNCHANGED <<tx, chain, world, faults>>

-----------------------------------------------------------------------------
(* SendTransaction, WaitMined and the report.                              *)

\* The node takes a transaction whose nonce is not mined, and in place of another
\* of the same nonce if it pays more gas.
NodeTakes == nonce >= next /\ slot' = [slot EXCEPT ![nonce] = "ours"]

SendTransaction ==
  /\ pc = "send"
  /\ NodeTakes
  /\ pc' = "wait"
  /\ UNCHANGED <<tx, next, result, world, faults>>

SendFailsRetries ==
  /\ pc = "send"
  /\ \/ "replies" \in faults /\ NodeTakes /\ pc' = "nonce"
     \/ /\ "calls" \in faults \/ nonce < next \/ slot[nonce] # "free"
        /\ pc' = "failed" /\ UNCHANGED slot
  /\ UNCHANGED <<tx, next, result, world, faults>>

\* "Failed to send transaction": the nonce is used, the transaction that holds it
\* pays as much, the call fails, or it has succeeded and its reply is lost.
SendFails ==
  /\ pc = "send"
  /\ \/ "replies" \in faults /\ NodeTakes
     \/ /\ "calls" \in faults \/ nonce < next \/ slot[nonce] # "free"
        /\ UNCHANGED slot
  /\ pc' = "failed"
  /\ UNCHANGED <<tx, next, result, world, faults>>

WaitGivesUp ==
  /\ pc = "wait"
  /\ \/ result # "none" /\ pc' = "report"
     \/ "calls" \in faults /\ pc' = "failed"
  /\ UNCHANGED <<tx, chain, world, faults>>

\* WaitMined polls until there is a receipt, whatever the errors; then the program
\* prints its report and main returns.
Mined ==
  /\ pc = "wait" /\ result # "none"
  /\ pc' = "report"
  /\ UNCHANGED <<tx, chain, world, faults>>

-----------------------------------------------------------------------------
(* The node and the chain.  They go on when the program has failed.        *)

\* The wallet's next transaction is mined.  Our swap can succeed only if the pair
\* has its liquidity and the deadline is not over; the token may revert it.
Mine ==
  /\ next <= MaxNonce /\ slot[next] # "free"
  /\ next' = next + 1
  /\ \/ slot[next] # "ours" /\ UNCHANGED result
     \/ slot[next] = "ours" /\ result' = "reverted"
     \/ slot[next] = "ours" /\ liquidity = "mined" /\ now <= expires /\ result' = "bought"
  /\ UNCHANGED <<pc, tx, slot, world, faults>>

\* A rival's transaction takes the next pending nonce, or our pooled one.  Bound:
\* rivals leave MaxNonce to the program.
RivalSends ==
  /\ "rivals" \in faults
  /\ \E n \in Nonces \ {MaxNonce} :
       /\ PendingNonceAt(n) \/ (n >= next /\ slot[n] = "ours")
       /\ slot' = [slot EXCEPT ![n] = "rival"]
  /\ UNCHANGED <<pc, tx, next, result, world, faults>>

Evict ==
  /\ "evictions" \in faults
  /\ \E n \in Nonces :
       /\ n >= next /\ slot[n] # "free"
       /\ slot' = [slot EXCEPT ![n] = "free"]
  /\ UNCHANGED <<pc, tx, next, result, world, faults>>

AddLiquidity    == liquidity = "none"    /\ liquidity' = "pending" /\ UNCHANGED <<pc, tx, chain, now, faults>>
LiquidityMined  == liquidity = "pending" /\ liquidity' = "mined"   /\ UNCHANGED <<pc, tx, chain, now, faults>>
RemoveLiquidity == liquidity # "none"    /\ liquidity' = "none"    /\ UNCHANGED <<pc, tx, chain, now, faults>>

Tick == now < MaxTime /\ now' = now + 1 /\ UNCHANGED <<pc, tx, chain, liquidity, faults>>

-----------------------------------------------------------------------------
Program ==
  GetNonce \/ GetGasPrice \/ EstimateGas \/ BuildFails \/ SendTransaction \/ SendFails \/ Mined

Chain == Mine \/ RivalSends \/ Evict \/ AddLiquidity \/ LiquidityMined \/ RemoveLiquidity \/ Tick

Next == Program \/ Chain

\* Calls return, and the miners include what they can.
Fairness == WF_vars(Program) /\ WF_vars(Mine)

Spec == Init /\ [][Next]_vars /\ Fairness
-----------------------------------------------------------------------------
(* Properties.                                                             *)

\* The variables range over the values their comments list.
TypeOK ==
  /\ pc \in {"nonce", "gas", "simulate", "send", "wait", "report", "failed"}
  /\ nonce \in Nonces /\ expires \in Nat /\ older \subseteq Nonces
  /\ slot \in [Nonces -> {"free", "rival", "ours"}]
  /\ next \in 0 .. MaxNonce + 1
  /\ result \in {"none", "bought", "reverted"}
  /\ liquidity \in {"none", "pending", "mined"}
  /\ now \in 0 .. MaxTime
  /\ faults \in FaultSets

Ours == {n \in Nonces : slot[n] = "ours"}

\* The value leaves the wallet at most once: whatever is lost, evicted or displaced,
\* the chain never holds two of our swaps (main.go:26-38).
OneSwap == Cardinality(Ours) <= 1

\* The swap does not displace a transaction that the wallet had pending when the
\* nonce was read, even if the chain moves before it is sent (swap.go:33-48).
OlderSurvive == older \cap Ours = {}

\* A program that ends with "Failed to buy tokens" (main.go:131-132) has left no swap
\* with the node that may still spend the funds, unless a reply of SendTransaction
\* was lost.
FailureIsClean == pc = "failed" /\ "replies" \notin faults => Ours = {}

\* A swap that is sent is mined and reported, however late, unless it is evicted or a
\* rival takes its nonce: it never waits behind a gap (swap.go:33-48, main.go:38).
SwapSettles ==
  pc = "wait" /\ "evictions" \notin faults ~> pc = "report" \/ slot[nonce] = "rival"

-----------------------------------------------------------------------------
(* A statement of the program that it does not keep.                       *)

\* "Sniped %f %s at %f %s" (main.go:52): the report is of a purchase.
ReportMeansBought == pc = "report" => result = "bought"
=============================================================================
