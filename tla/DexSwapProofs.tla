---------------------------- MODULE DexSwapProofs ----------------------------
(* The purchase, for any number of nonces, any clock and any rivals of the *)
(* wallet.                                                                 *)
EXTENDS DexSwap, FiniteSetTheorems, TLAPS

Building == pc \in {"nonce", "gas", "simulate", "send"}

\* The node has our swap only once it was sent, and only at the nonce it was
\* built with, which no older transaction of the wallet has.
Placed ==
  /\ Building => Ours = {} /\ result = "none"
  /\ Ours \subseteq {nonce}
  /\ pc # "nonce" => nonce \notin older
  /\ pc = "nonce" => older = {}

\* The program tells the truth about what it sent.
Honest ==
  /\ pc = "report" => result # "none"
  /\ pc = "failed" /\ "replies" \notin faults => Ours = {}

IInv == TypeOK /\ Placed /\ Honest

LEMMA InitIInv == Init => IInv
  BY SwapAssumption DEF Init, IInv, TypeOK, Placed, Honest, Building, Ours, Nonces

-----------------------------------------------------------------------------
(* Steps of the program.                                                   *)

LEMMA BuildKeeps == IInv /\ (GetNonce \/ GetGasPrice \/ EstimateGas \/ BuildFails) => IInv'
<1>. SUFFICES ASSUME IInv, GetNonce \/ GetGasPrice \/ EstimateGas \/ BuildFails PROVE IInv'
  OBVIOUS
<1>. USE DEF IInv, TypeOK, Placed, Honest, Building, Ours, chain, world, tx
<1>1. CASE GetNonce
  BY <1>1 DEF GetNonce, PendingNonceAt
<1>2. CASE GetGasPrice
  <2>1. now + Expiration \in Nat
    BY SwapAssumption
  <2>. QED BY <1>2, <2>1 DEF GetGasPrice
<1>3. CASE EstimateGas
  BY <1>3 DEF EstimateGas
<1>4. CASE BuildFails
  BY <1>4 DEF BuildFails
<1>. QED BY <1>1, <1>2, <1>3, <1>4

LEMMA SendKeeps == IInv /\ (SendTransaction \/ SendFails) => IInv'
<1>. SUFFICES ASSUME IInv, SendTransaction \/ SendFails PROVE IInv'
  OBVIOUS
<1>1. pc = "send" /\ UNCHANGED <<tx, next, result, world, faults>>
  BY DEF SendTransaction, SendFails
<1>2. CASE NodeTakes
  <2>1. slot' \in [Nonces -> {"free", "rival", "ours"}] /\ Ours' = {nonce}
    BY <1>1, <1>2 DEF NodeTakes, IInv, TypeOK, Placed, Building, Ours
  <2>2. pc' = "wait" \/ (pc' = "failed" /\ "replies" \in faults) \/ (pc' = "failed" /\ UNCHANGED slot)
    BY DEF SendTransaction, SendFails
  <2>3. ~(UNCHANGED slot)
    BY <2>1, <1>1 DEF IInv, Placed, Building, Ours
  <2>. QED
    BY <1>1, <2>1, <2>2, <2>3
    DEF IInv, TypeOK, Placed, Honest, Building, world, tx
<1>3. CASE pc' = "failed" /\ UNCHANGED slot
  BY <1>1, <1>3 DEF IInv, TypeOK, Placed, Honest, Building, Ours, world, tx
<1>. QED
  BY <1>2, <1>3 DEF SendTransaction, SendFails

LEMMA MinedKeeps == IInv /\ Mined => IInv'
  BY DEF Mined, IInv, TypeOK, Placed, Honest, Building, Ours, chain, world, tx

-----------------------------------------------------------------------------
(* Steps of the chain.                                                     *)

LEMMA ChainKeeps == IInv /\ Chain => IInv'
<1>. SUFFICES ASSUME IInv, Chain PROVE IInv'
  OBVIOUS
<1>. USE DEF IInv, TypeOK, Placed, Honest, Building, Ours, chain, world, tx
<1>1. CASE Mine
  <2>1. next' \in 0 .. MaxNonce + 1
    BY <1>1, SwapAssumption DEF Mine
  <2>2. next \in Nonces
    BY <1>1, SwapAssumption DEF Mine, Nonces
  <2>3. Building => UNCHANGED result
    BY <1>1, <2>2 DEF Mine
  <2>. QED BY <1>1, <2>1, <2>3 DEF Mine
<1>2. CASE RivalSends
  BY <1>2 DEF RivalSends
<1>3. CASE Evict
  BY <1>3 DEF Evict
<1>4. CASE AddLiquidity \/ LiquidityMined \/ RemoveLiquidity
  BY <1>4 DEF AddLiquidity, LiquidityMined, RemoveLiquidity
<1>5. CASE Tick
  <2>1. now' \in 0 .. MaxTime
    BY <1>5, SwapAssumption DEF Tick
  <2>. QED BY <1>5, <2>1 DEF Tick
<1>. QED BY <1>1, <1>2, <1>3, <1>4, <1>5 DEF Chain

\* The inductive invariant holds of every behaviour.
THEOREM Inductive == Spec => []IInv
<1>1. IInv /\ UNCHANGED vars => IInv'
  BY DEF vars, IInv, TypeOK, Placed, Honest, Building, Ours, chain, world, tx
<1>2. IInv /\ [Next]_vars => IInv'
  BY <1>1, BuildKeeps, SendKeeps, MinedKeeps, ChainKeeps DEF Next, Program
<1>. QED BY <1>2, InitIInv, PTL DEF Spec

-----------------------------------------------------------------------------
(* The properties.                                                         *)

\* The variables of the purchase keep their types, for any bounds.
THEOREM TypeCorrect == Spec => []TypeOK
<1>1. IInv => TypeOK
  BY DEF IInv
<1>. QED BY <1>1, Inductive, PTL

\* The chain never holds two swaps of the program.
THEOREM AtMostOneSwap == Spec => []OneSwap
<1>1. IInv => OneSwap
  <2>. SUFFICES ASSUME IInv PROVE Cardinality(Ours) <= 1
    BY DEF OneSwap
  <2>1. Ours = {} \/ Ours = {nonce}
    BY DEF IInv, Placed
  <2>2. Cardinality({}) = 0 /\ Cardinality({nonce}) = 1
    BY FS_EmptySet, FS_Singleton
  <2>3. CASE Ours = {}
    BY <2>2, <2>3
  <2>4. CASE Ours = {nonce}
    BY <2>2, <2>4
  <2>. QED BY <2>1, <2>3, <2>4
<1>. QED BY <1>1, Inductive, PTL

\* The swap never displaces a transaction the wallet already had pending.
THEOREM OldTransactionsSurvive == Spec => []OlderSurvive
<1>1. IInv => OlderSurvive
  BY DEF IInv, Placed, OlderSurvive, Building
<1>. QED BY <1>1, Inductive, PTL

\* If no reply of SendTransaction is lost, a program that fails has no swap pending.
THEOREM CleanFailure == Spec => []FailureIsClean
<1>1. IInv => FailureIsClean
  BY DEF IInv, Honest, FailureIsClean
<1>. QED BY <1>1, Inductive, PTL

-----------------------------------------------------------------------------
(* The way of the swap to its block.                                       *)

\* No nonce between those mined and n is missing.
NoGapBelow(n) == \A k \in next .. n - 1 : slot[k] # "free"

\* If the node evicts nothing, the swap never stands behind a gap, and unless a rival
\* takes its nonce it holds that until it is mined.
InLine ==
  "evictions" \notin faults =>
    /\ pc \notin {"nonce", "failed"} => NoGapBelow(nonce)
    /\ pc = "wait" => slot[nonce] # "free"
    /\ pc = "wait" /\ slot[nonce] = "ours" /\ result = "none" => next <= nonce

LEMMA InLineStep ==
  ASSUME IInv, InLine, [Next]_vars
  PROVE  InLine'
<1>. SUFFICES ASSUME "evictions" \notin faults PROVE InLine'
  BY DEF InLine, Next, Program, Chain, GetNonce, GetGasPrice, EstimateGas, BuildFails, SendTransaction,
         SendFails, Mined, Mine, RivalSends, Evict, AddLiquidity, LiquidityMined, RemoveLiquidity, Tick, vars
<1>0. /\ next \in Nat /\ nonce \in Nonces /\ Nonces \subseteq Nat /\ MaxNonce \in Nat
      /\ slot \in [Nonces -> {"free", "rival", "ours"}]
  BY SwapAssumption DEF IInv, TypeOK, Nonces
<1>. USE DEF InLine, NoGapBelow, tx, chain, world
<1>1. CASE GetNonce
  BY <1>1 DEF GetNonce, PendingNonceAt
<1>2. CASE GetGasPrice \/ EstimateGas \/ Mined
  BY <1>2 DEF GetGasPrice, EstimateGas, Mined
<1>3. CASE BuildFails
  BY <1>3 DEF BuildFails
<1>4. CASE SendTransaction \/ SendFails
  <2>1. pc = "send" /\ UNCHANGED <<nonce, next, result>> /\ pc' \in {"wait", "failed"}
    BY <1>4 DEF SendTransaction, SendFails
  <2>2. NodeTakes => nonce >= next /\ slot' = [slot EXCEPT ![nonce] = "ours"]
    BY DEF NodeTakes
  <2>3. \A k \in Nonces : slot[k] # "free" => slot'[k] # "free"
    BY <1>0, <1>4, <2>2 DEF SendTransaction, SendFails
  <2>4. pc' = "wait" => nonce >= next /\ slot'[nonce] = "ours"
    BY <1>0, <1>4, <2>2 DEF SendTransaction, SendFails
  <2>. QED
    BY <1>0, <2>1, <2>3, <2>4 DEF Nonces
<1>5. CASE Mine
  <2>1. next \in Nonces /\ next' = next + 1 /\ UNCHANGED <<pc, nonce, slot>>
    BY <1>0, <1>5 DEF Mine, Nonces
  <2>2. slot[next] = "ours" => result' # "none"
    BY <1>5 DEF Mine
  <2>3. result' = "none" => result = "none"
    BY <1>5 DEF Mine
  <2>4. pc \notin {"nonce", "failed"} => NoGapBelow(nonce)'
    BY <1>0, <2>1
  <2>5. pc = "wait" /\ slot[nonce] = "ours" /\ result' = "none" => next' <= nonce
    BY <1>0, <2>1, <2>2, <2>3
  <2>. QED BY <2>1, <2>4, <2>5
<1>6. CASE RivalSends
  <2>1. PICK n \in Nonces : slot' = [slot EXCEPT ![n] = "rival"]
    BY <1>6 DEF RivalSends
  <2>2. UNCHANGED <<pc, nonce, next, result>>
    BY <1>6 DEF RivalSends
  <2>3. \A k \in Nonces : /\ slot[k] # "free" => slot'[k] # "free"
                          /\ slot'[k] = "ours" => slot[k] = "ours"
    BY <1>0, <2>1
  <2>. QED BY <1>0, <2>2, <2>3 DEF Nonces
<1>7. CASE Evict
  BY <1>7 DEF Evict
<1>8. CASE AddLiquidity \/ LiquidityMined \/ RemoveLiquidity \/ Tick \/ UNCHANGED vars
  BY <1>8 DEF AddLiquidity, LiquidityMined, RemoveLiquidity, Tick, vars
<1>. QED
  BY <1>1, <1>2, <1>3, <1>4, <1>5, <1>6, <1>7, <1>8 DEF Next, Program, Chain

\* How many transactions of the wallet are still to be mined, ours included.
Blocks == IF next <= nonce THEN nonce + 1 - next ELSE 0

\* The guard of Mine.
MineCanStep == next <= MaxNonce /\ slot[next] # "free"

\* A program that waits for its swap can go on, or the chain can: the receipt is there, or
\* the wallet's next transaction can be mined, and the swap comes nearer with each that is;
\* only an eviction or a rival's transaction with its nonce keep the program waiting for
\* good.  What fairness adds to this is SwapSettles.
THEOREM SwapIsNotHeldUp ==
  Spec => /\ [](pc = "wait" /\ "evictions" \notin faults =>
                  \/ result # "none"
                  \/ slot[nonce] = "rival"
                  \/ MineCanStep /\ Blocks > 0)
          /\ [][pc = "wait" => Blocks' <= Blocks /\ (Mine /\ Blocks > 0 => Blocks' < Blocks)]_vars
<1>1. Init => InLine
  BY DEF Init, InLine
<1>2. Spec => []InLine
  BY <1>1, InLineStep, Inductive, PTL DEF Spec
<1>3. ASSUME IInv, InLine, pc = "wait", "evictions" \notin faults, result = "none", slot[nonce] # "rival"
      PROVE  MineCanStep /\ Blocks > 0
  <2>1. next \in Nat /\ nonce \in 0 .. MaxNonce /\ MaxNonce \in Nat /\ slot[nonce] = "ours"
    BY <1>3, SwapAssumption DEF IInv, TypeOK, InLine, Nonces
  <2>2. next <= nonce
    BY <1>3, <2>1 DEF InLine
  <2>3. next = nonce \/ next \in next .. nonce - 1
    BY <2>1, <2>2
  <2>. QED
    BY <1>3, <2>1, <2>2, <2>3 DEF InLine, NoGapBelow, MineCanStep, Blocks
<1>4. ASSUME IInv, pc = "wait", [Next]_vars
      PROVE  Blocks' <= Blocks /\ (Mine /\ Blocks > 0 => Blocks' < Blocks)
  <2>1. next \in Nat /\ nonce \in Nat
    BY <1>4, SwapAssumption DEF IInv, TypeOK, Nonces
  <2>2. CASE Mine
    BY <2>1, <2>2 DEF Mine, Blocks, tx
  <2>3. CASE ~Mine
    <3>1. UNCHANGED <<nonce, next>>
      BY <1>4, <2>3 DEF Next, Program, Chain, GetNonce, GetGasPrice, EstimateGas, BuildFails,
         SendTransaction, SendFails, Mined, RivalSends, Evict, AddLiquidity, LiquidityMined,
         RemoveLiquidity, Tick, vars, tx, chain, world
    <3>. QED BY <2>1, <2>3, <3>1 DEF Blocks
  <2>. QED BY <2>2, <2>3
<1>5. IInv /\ InLine =>
        (pc = "wait" /\ "evictions" \notin faults =>
           \/ result # "none"
           \/ slot[nonce] = "rival"
           \/ MineCanStep /\ Blocks > 0)
  BY <1>3
<1>6. IInv /\ [Next]_vars =>
        [pc = "wait" => Blocks' <= Blocks /\ (Mine /\ Blocks > 0 => Blocks' < Blocks)]_vars
  BY <1>4
<1>. QED
  BY <1>2, <1>5, <1>6, Inductive, PTL DEF Spec
=============================================================================
