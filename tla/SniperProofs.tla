---------------------------- MODULE SniperProofs ----------------------------
(* The two programs as a whole, for any reserves, nonces and clock.        *)
EXTENDS Sniper, FiniteSetTheorems, TLAPS

Building == pc \in {"nonce", "gas", "simulate", "send"}

\* The variables that the invariant looks at keep their types.
Typed ==
  /\ run \in Runs
  /\ step \in {"config", "connect", "dial", "wallet", "balance", "inToken", "targetToken",
               "dex", "pricer", "arm", "wait", "buy"}
  /\ T!TypeOK
  /\ process \in {"running", "unwinding", "fatal", "crashed", "exited"}
  /\ pc \in {"nonce", "gas", "simulate", "send", "wait", "report", "failed"}
  /\ nonce \in S!Nonces /\ next \in Nat
  /\ slot \in [S!Nonces -> {"free", "rival", "ours"}]
  /\ result \in {"none", "bought", "reverted"}
  /\ {reserves, latest, pending} \subseteq Reserves
  /\ faults \in FaultSets

\* main buys only after the watcher has been set up and, in the sniper, when due or when
\* a panic has closed the channel of the trigger, which ends the program.
InStep ==
  /\ step \in {"arm", "wait", "buy"} <=> pricer = "returned"
  /\ step # "buy" => pc = "nonce"
  /\ Alive => (trigger = "broken" <=> process = "unwinding")
  /\ Alive /\ step = "buy" /\ run.program = "sniper" => due # "no" \/ process = "unwinding"

\* The swap is given to the node once, at its nonce, and a mined one stays mined.
Placed ==
  /\ S!Ours \subseteq {nonce}
  /\ Building => S!Ours = {} /\ result = "none"
  /\ pc = "failed" /\ "replies" \notin faults => S!Ours = {}
  /\ result # "none" => nonce < next

IInv == Typed /\ InStep /\ Placed /\ SwapNotAbandoned

LEMMA InitIInv == Init => IInv
<1>. SUFFICES ASSUME Init PROVE IInv
  OBVIOUS
<1>1. S!Ours = {}
  BY SniperAssumption DEF Init, S!Init, S!Ours, S!Nonces
<1>2. Typed
  BY SniperAssumption DEF Init, Typed, T!Init, T!TypeOK, W!Init, S!Init, S!Nonces
<1>. QED
  BY <1>1, <1>2 DEF IInv, Init, InStep, Placed, Building, SwapNotAbandoned, Alive, T!Init, W!Init, S!Init

-----------------------------------------------------------------------------
(* main before the purchase.                                               *)

\* Steps that leave the trigger, the chain and the purchase alone.
LEMMA StartupKeeps == IInv /\ Startup => IInv'
<1>. SUFFICES ASSUME IInv, Startup PROVE IInv'
  OBVIOUS
<1>1. Alive /\ step # "buy"
  BY DEF Startup, LoadConfig, Connect, DialRpc, NewWallet, GetEthBalance, NewInToken, NewTargetToken,
         SetupDex, StartFails, NewPriceWatcher, PricerReturns, Arm, Goto, Alive,
         W!GetPair, W!GetToken0, W!GetToken1, W!SubscribeFails, W!Alive
<1>2. UNCHANGED <<run, triggerVars, swapVars, reserves, latest, pending, faults, aIsToken0, watcher>>
      \/ (UNCHANGED <<run, triggerVars, swapVars, reserves, latest, pending, faults, aIsToken0>> /\ PricerReturns)
  BY DEF Startup, LoadConfig, Connect, DialRpc, NewWallet, GetEthBalance, NewInToken, NewTargetToken,
         SetupDex, StartFails, NewPriceWatcher, PricerReturns, Arm, Goto, Ends, mainVars, triggerVars,
         swapVars, pricerVars, pricerVarsButProcess,
         W!GetPair, W!GetToken0, W!GetToken1, W!SubscribeFails, W!goVars, W!chainVars, W!params
<1>3. UNCHANGED <<run, due, trigger, pc, nonce, slot, next, result, reserves, latest, pending, faults, aIsToken0>>
  BY <1>2 DEF triggerVars, swapVars
<1>4. S!Ours' = S!Ours /\ S!Ours = {} /\ pc = "nonce"
  BY <1>1, <1>3 DEF S!Ours, S!Nonces, IInv, InStep, Placed, Building
<1>5. process' = process \/ process' \in {"fatal", "crashed"}
  BY <1>1 DEF Startup, LoadConfig, Connect, DialRpc, NewWallet, GetEthBalance, NewInToken, NewTargetToken,
         SetupDex, StartFails, NewPriceWatcher, PricerReturns, Arm, Goto, Ends, mainVars, triggerVars,
         swapVars, pricerVars, pricerVarsButProcess, Alive,
         W!GetPair, W!GetToken0, W!GetToken1, W!SubscribeFails, W!goVars, W!chainVars, W!params
<1>6. Placed' /\ SwapNotAbandoned'
  BY <1>3, <1>4, <1>5 DEF Placed, Building, SwapNotAbandoned, IInv
<1>7. CASE LoadConfig \/ Connect \/ DialRpc \/ NewWallet \/ GetEthBalance \/ NewInToken \/ NewTargetToken
             \/ SetupDex \/ Arm
  BY <1>3, <1>4, <1>5, <1>6, <1>7
  DEF LoadConfig, Connect, DialRpc, NewWallet, GetEthBalance, NewInToken, NewTargetToken, SetupDex, Arm,
      Goto, IInv, Typed, InStep, Alive, T!TypeOK, S!Nonces, mainVars, pricerVars
<1>8. CASE StartFails
  BY <1>3, <1>4, <1>5, <1>6, <1>8
  DEF StartFails, Ends, IInv, Typed, InStep, Alive, T!TypeOK, S!Nonces, mainVars, pricerVarsButProcess
<1>9. CASE NewPriceWatcher
  BY <1>3, <1>4, <1>5, <1>6, <1>9
  DEF NewPriceWatcher, IInv, Typed, InStep, Alive, T!TypeOK, S!Nonces, mainVars,
      W!GetPair, W!GetToken0, W!SubscribeFails, W!goVars
<1>10. CASE PricerReturns
  BY <1>3, <1>4, <1>5, <1>6, <1>10
  DEF PricerReturns, IInv, Typed, InStep, Alive, T!TypeOK, S!Nonces, Runs, W!GetToken1, W!Alive
<1>. QED
  BY <1>7, <1>8, <1>9, <1>10 DEF Startup

LEMMA ReceiveKeeps == IInv /\ (Receive \/ ReceiveClosed) => IInv'
<1>. SUFFICES ASSUME IInv, Receive \/ ReceiveClosed PROVE IInv'
  OBVIOUS
<1>1. /\ step' = "buy" /\ step = "wait" /\ Alive /\ due' = due
      /\ \/ trigger' = "fired" /\ trigger = "armed" /\ due # "no"
         \/ trigger' = trigger /\ trigger = "broken"
  BY DEF Receive, ReceiveClosed, T!Fire, triggerVars
<1>2. UNCHANGED <<run, pricerVars, swapVars>>
  BY DEF Receive, ReceiveClosed
<1>3. S!Ours' = S!Ours /\ S!Ours = {}
  BY <1>1, <1>2 DEF S!Ours, S!Nonces, swapVars, IInv, InStep, Placed, Building
<1>. QED
  BY <1>1, <1>2, <1>3
  DEF IInv, Typed, InStep, Placed, Building, SwapNotAbandoned, Alive, T!TypeOK, S!Nonces,
      pricerVars, swapVars

-----------------------------------------------------------------------------
(* The purchase.                                                           *)

LEMMA BuyKeeps == IInv /\ Buy => IInv'
<1>. SUFFICES ASSUME IInv, Buy PROVE IInv'
  OBVIOUS
<1>1. Alive /\ step = "buy" /\ UNCHANGED <<run, step, due, trigger, pricerVars>>
  BY DEF Buy, mainVars, triggerVars
<1>. USE <1>1 DEF IInv, Typed, InStep, Placed, Building, SwapNotAbandoned, Alive, T!TypeOK, S!Nonces,
                  S!Ours, pricerVars, S!tx, S!chain, S!world
<1>2. CASE S!GetNonce
  BY <1>2 DEF S!GetNonce
<1>3. CASE S!GetGasPrice \/ S!EstimateGas
  BY <1>3 DEF S!GetGasPrice, S!EstimateGas
<1>4. CASE S!SendTransaction
  BY <1>4 DEF S!SendTransaction, S!NodeTakes
<1>5. CASE S!Mined
  BY <1>5 DEF S!Mined
<1>. QED
  BY <1>2, <1>3, <1>4, <1>5 DEF Buy

\* A purchase that fails has sent nothing, or the swap whose reply is lost.
LEMMA BuyFailsKeeps == IInv /\ BuyFails => IInv'
<1>. SUFFICES ASSUME IInv, BuyFails PROVE IInv'
  OBVIOUS
<1>1. /\ pc \in {"nonce", "gas", "simulate", "send"} /\ pc' = "failed"
      /\ UNCHANGED <<nonce, next, result, faults>>
      /\ slot' = slot \/ ("replies" \in faults /\ nonce >= next /\ slot' = [slot EXCEPT ![nonce] = "ours"])
  BY DEF BuyFails, S!BuildFails, S!SendFails, S!NodeTakes, S!tx, S!chain, pricerVarsButProcess
<1>2. /\ S!Ours' \subseteq {nonce} /\ slot' \in [S!Nonces -> {"free", "rival", "ours"}]
      /\ "replies" \notin faults => S!Ours' = {}
  BY <1>1 DEF S!Ours, S!Nonces, IInv, Typed, Placed, Building
<1>. QED
  BY <1>1, <1>2
  DEF BuyFails, IInv, Typed, InStep, Placed, Building, SwapNotAbandoned, T!TypeOK, S!Nonces, Alive,
      mainVars, triggerVars, pricerVarsButProcess

LEMMA ReportKeeps == IInv /\ Report => IInv'
<1>. SUFFICES ASSUME IInv, Report PROVE IInv'
  OBVIOUS
<1>1. /\ pc = "report" /\ process' \in {"crashed", "exited"}
      /\ UNCHANGED <<mainVars, triggerVars, pricerVarsButProcess, swapVars>>
  BY DEF Report, Ends
<1>. QED
  BY <1>1
  DEF IInv, Typed, InStep, Placed, Building, SwapNotAbandoned, T!TypeOK, S!Nonces, S!Ours, Alive,
      mainVars, triggerVars, pricerVarsButProcess, swapVars

-----------------------------------------------------------------------------
(* The other goroutines and the chain.                                     *)

LEMMA WatcherKeeps == IInv /\ Watcher => IInv'
<1>. SUFFICES ASSUME IInv, Watcher PROVE IInv'
  OBVIOUS
<1>1. Alive /\ UNCHANGED <<mainVars, triggerVars, swapVars, pricer, aIsToken0, latest, pending, faults>>
  BY DEF Watcher, Alive, W!Alive, W!CallGetReserves, W!GetReserves, W!GetReservesFails, W!Publish,
         W!PricingPanics, W!goVars, W!chainVars, W!params
<1>2. reserves' \in Reserves
  BY DEF Watcher, W!CallGetReserves, W!GetReserves, W!GetReservesFails, W!Publish, W!PricingPanics,
         W!goVars, W!View, W!PairReserves, IInv, Typed
<1>3. \/ process' = process
      \/ process' = "crashed" /\ watcher' = "pricing" /\ reserves' = <<0, 0>>
  <2>1. CASE W!PricingPanics
    <3>1. reserves \in Reserves /\ reserves[1] = 0 /\ reserves[2] = 0
      BY <2>1 DEF W!PricingPanics, W!TokenRatioPanics, IInv, Typed
    <3>2. reserves = <<0, 0>>
      BY <3>1, SniperAssumption
    <3>. QED
      BY <2>1, <3>2 DEF W!PricingPanics, W!goVars
  <2>. QED
    BY <2>1 DEF Watcher, W!Alive, W!CallGetReserves, W!GetReserves, W!GetReservesFails, W!Publish
<1>. QED
  BY <1>1, <1>2, <1>3
  DEF IInv, Typed, InStep, Placed, Building, SwapNotAbandoned, T!TypeOK, S!Nonces, S!Ours, Alive,
      mainVars, triggerVars, swapVars

LEMMA TriggerKeeps == IInv /\ (Trigger \/ BecomesDue) => IInv'
<1>. SUFFICES ASSUME IInv, Trigger \/ BecomesDue PROVE IInv'
  OBVIOUS
<1>. USE DEF IInv, Typed, InStep, Placed, Building, SwapNotAbandoned, T!TypeOK, S!Nonces, S!Ours,
             Alive, mainVars, triggerVars, swapVars
<1>1. CASE ListenerFails
  BY <1>1 DEF ListenerFails, T!GoDown, pricerVarsButProcess
<1>2. CASE TriggerPanics
  BY <1>2 DEF TriggerPanics, T!Break, pricerVarsButProcess
<1>3. CASE Crash
  BY <1>3 DEF Crash, Ends, pricerVarsButProcess
<1>4. CASE BecomesDue
  BY <1>4 DEF BecomesDue, T!BecomeDue, pricerVars
<1>. QED BY <1>1, <1>2, <1>3, <1>4 DEF Trigger

LEMMA PairKeeps == IInv /\ Pair => IInv'
<1>. SUFFICES ASSUME IInv, Pair PROVE IInv'
  OBVIOUS
<1>1. UNCHANGED <<mainVars, triggerVars, swapVars, process, pricer, watcher, reserves, aIsToken0, faults>>
      /\ {latest', pending'} \subseteq Reserves
  BY DEF Pair, W!PairCreated, W!PendingTrade, W!PendingDropped, W!NewBlock, W!goVars, W!params,
         W!chainVars, IInv, Typed
<1>. QED
  BY <1>1
  DEF IInv, Typed, InStep, Placed, Building, SwapNotAbandoned, T!TypeOK, S!Nonces, S!Ours, Alive,
      mainVars, triggerVars, swapVars

LEMMA ChainKeeps == IInv /\ Chain => IInv'
<1>. SUFFICES ASSUME IInv, Chain PROVE IInv'
  OBVIOUS
<1>1. UNCHANGED <<run, step, due, trigger, pricerVars, pc, nonce, slot>>
  BY DEF Chain, S!Mine, S!Tick, S!tx, S!chain, mainVars, triggerVars
<1>2. /\ next' \in Nat /\ next' >= next
      /\ result' # result => result = "none" /\ ~Building /\ nonce < next'
      /\ result' \in {"none", "bought", "reverted"}
      /\ result # "none" => result' = result
  <2>1. CASE S!Tick
    BY <2>1 DEF S!Tick, S!chain, IInv, Typed
  <2>2. CASE S!Mine
    <3>1. next \in S!Nonces /\ next' = next + 1 /\ nonce \in S!Nonces /\ next \in Nat /\ nonce \in Nat
      BY <2>2, SniperAssumption DEF S!Mine, S!Nonces, IInv, Typed
    <3>2. slot[next] = "ours" => next = nonce /\ ~Building
      BY <3>1 DEF S!Ours, IInv, Placed
    <3>. QED
      BY <2>2, <3>1, <3>2 DEF S!Mine, IInv, Typed, Placed
  <2>. QED BY <2>1, <2>2 DEF Chain
<1>3. S!Ours' = S!Ours
  BY <1>1 DEF S!Ours, S!Nonces
<1>4. nonce \in Int /\ next \in Nat
  BY DEF IInv, Typed, S!Nonces
<1>. QED
  BY <1>1, <1>2, <1>3, <1>4
  DEF IInv, Typed, InStep, Placed, Building, SwapNotAbandoned, T!TypeOK, S!Nonces, pricerVars, Alive

LEMMA StutterKeeps == IInv /\ UNCHANGED vars => IInv'
  BY DEF vars, mainVars, triggerVars, pricerVars, swapVars, IInv, Typed, InStep, Placed, Building,
         SwapNotAbandoned, T!TypeOK, S!Nonces, S!Ours, Alive

LEMMA IInvStep == IInv /\ [Next]_vars => IInv'
  BY StartupKeeps, ReceiveKeeps, BuyKeeps, BuyFailsKeeps, ReportKeeps, WatcherKeeps, TriggerKeeps,
     PairKeeps, ChainKeeps, StutterKeeps
  DEF Next, Purchase

\* The inductive invariant holds of every behaviour.
THEOREM Inductive == Spec => []IInv
  BY InitIInv, IInvStep, PTL DEF Spec

-----------------------------------------------------------------------------
(* The properties.                                                         *)

\* main is past the watcher exactly when the watcher has been set up.
THEOREM TypeCorrect == Spec => []TypeOK
<1>1. IInv => TypeOK
  BY DEF IInv, Typed, InStep, TypeOK
<1>. QED BY <1>1, Inductive, PTL

\* Only a step of main on its way through the purchase gives the node a swap.
LEMMA OnlyBuyingSends ==
  ASSUME IInv, [Next]_vars, S!Ours = {}, S!Ours' # {}
  PROVE  Alive /\ step = "buy"
<1>1. CASE Buy \/ BuyFails
  BY <1>1 DEF Buy, BuyFails
<1>2. CASE ~(Buy \/ BuyFails)
  <2>1. slot' = slot
    BY <1>2 DEF Next, Startup, LoadConfig, Connect, DialRpc, NewWallet, GetEthBalance, NewInToken,
         NewTargetToken, SetupDex, StartFails, NewPriceWatcher, PricerReturns, Arm, Goto, Ends, Receive,
         ReceiveClosed, Purchase, Report, Watcher, Trigger, ListenerFails, TriggerPanics, Crash,
         BecomesDue, Pair, Chain, S!Mine, S!Tick, S!chain, vars, swapVars
  <2>. QED BY <2>1 DEF S!Ours, S!Nonces
<1>. QED BY <1>1, <1>2

\* The sniper gives the node no swap before there is a reason to, unless the program is
\* already going down with a panic.
THEOREM WaitsForItsCause == Spec => NoSwapBeforeDue
<1>1. IInv /\ [Next]_vars =>
        [run.program = "sniper" /\ S!Ours = {} /\ S!Ours' # {} =>
           due # "no" \/ process = "unwinding"]_vars
  BY OnlyBuyingSends DEF IInv, InStep
<1>. QED BY <1>1, Inductive, PTL DEF Spec, NoSwapBeforeDue

\* Another goroutine ends a program whose swap is with the node, or the reply that would
\* have told main of it was lost.
THEOREM OnlyOthersAbandon == Spec => []SwapNotAbandoned
<1>1. IInv => SwapNotAbandoned
  BY DEF IInv
<1>. QED BY <1>1, Inductive, PTL

-----------------------------------------------------------------------------
(* The promises of DexSwap and PriceWatcher, in the programs.              *)

\* Whatever the other goroutines do, the programs give the node one swap at most, and
\* leave none behind when they say that buying has failed, unless a reply of
\* SendTransaction was lost.
THEOREM FundsLeaveOnce == Spec => [](S!OneSwap /\ S!FailureIsClean)
<1>1. ASSUME IInv PROVE S!OneSwap
  <2>0. \A X : S!Cardinality(X) = Cardinality(X)
    BY DEF S!Cardinality, Cardinality
  <2>1. S!Cardinality({}) = 0 /\ S!Cardinality({nonce}) = 1
    BY <2>0, FS_EmptySet, FS_Singleton
  <2>2. S!Ours = {} \/ S!Ours = {nonce}
    BY <1>1 DEF IInv, Placed
  <2>3. CASE S!Ours = {}
    BY <2>1, <2>3 DEF S!OneSwap
  <2>4. CASE S!Ours = {nonce}
    BY <2>1, <2>4 DEF S!OneSwap
  <2>. QED BY <2>2, <2>3, <2>4
<1>2. IInv => S!FailureIsClean
  BY DEF IInv, Placed, S!FailureIsClean
<1>. QED BY <1>1, <1>2, Inductive, PTL

-----------------------------------------------------------------------------
(* main is never stuck, and at its end after a bounded number of steps.    *)

\* Nobody else uses the wallet, so the swap has its first nonce.
Alone ==
  /\ nonce = 0
  /\ \A n \in S!Nonces : slot[n] # "rival"
  /\ Building => next = 0
  /\ pc = "wait" => slot[0] = "ours" /\ (result = "none" => next = 0)
  /\ pc = "failed" => ~Alive

\* main waits for its trigger only in the sniper and only while it is armed or, for the
\* time of a panic, broken, and asks the pair for its tokens once the factory has answered.
Waiting ==
  /\ step \in {"arm", "wait"} => run.program = "sniper"
  /\ step # "buy" /\ Alive => trigger \in {"armed", "broken"}
  /\ step \notin {"wait", "buy"} /\ Alive => trigger = "armed"
  /\ pricer \in {"getPair", "getToken0", "getToken1", "returned"}
  /\ pricer = "getToken0" => pairAddr \in {"pair", "zero"}

LEMMA AloneStep ==
  ASSUME IInv, Alone, [Next]_vars
  PROVE  Alone'
<1>0. /\ 0 \in S!Nonces /\ MaxNonce \in Nat /\ S!Nonces \subseteq Int /\ next \in Nat
      /\ slot \in [S!Nonces -> {"free", "rival", "ours"}]
  BY SniperAssumption DEF S!Nonces, IInv, Typed
<1>1. Building => \A n \in S!Nonces : slot[n] = "free"
  BY <1>0 DEF IInv, Typed, Placed, S!Ours, Alone
<1>. USE DEF mainVars, triggerVars, swapVars, pricerVars, Alone, Building, Alive
<1>2. CASE Buy
  <2>. USE DEF S!tx, S!chain, S!world
  <2>1. CASE S!GetNonce
    <3>1. PICK n \in S!Nonces : S!PendingNonceAt(n) /\ nonce' = n
      BY <2>1 DEF S!GetNonce
    <3>2. n = 0
      <4>1. CASE n > 0
        <5>1. 0 \in next .. n - 1
          BY <1>0, <2>1, <3>1, <4>1 DEF S!GetNonce
        <5>. QED BY <1>0, <1>1, <2>1, <3>1, <5>1 DEF S!PendingNonceAt, S!GetNonce
      <4>. QED BY <1>0, <3>1, <4>1 DEF S!Nonces
    <3>. QED
      BY <1>2, <2>1, <3>1, <3>2 DEF Buy, S!GetNonce, S!Nonces
  <2>2. CASE S!GetGasPrice \/ S!EstimateGas \/ S!Mined
    BY <1>2, <2>2 DEF Buy, S!GetGasPrice, S!EstimateGas, S!Mined, S!Nonces
  <2>3. CASE S!SendTransaction
    BY <1>0, <1>2, <2>3 DEF Buy, S!SendTransaction, S!NodeTakes, S!Nonces
  <2>. QED BY <1>2, <2>1, <2>2, <2>3 DEF Buy
<1>3. CASE BuyFails
  <2>1. /\ UNCHANGED <<nonce, next, result>> /\ pc' = "failed" /\ process' = "fatal"
        /\ slot' = slot \/ slot' = [slot EXCEPT ![nonce] = "ours"]
    BY <1>3 DEF BuyFails, S!BuildFails, S!SendFails, S!NodeTakes, S!tx, S!chain
  <2>. QED BY <1>0, <2>1 DEF S!Nonces
<1>4. CASE Chain
  <2>1. UNCHANGED <<process, pc, nonce, slot>>
    BY <1>4 DEF Chain, S!Mine, S!Tick, S!tx, S!chain
  <2>2. CASE S!Tick
    BY <1>4, <2>1, <2>2 DEF S!Tick, S!chain, S!Nonces
  <2>3. CASE S!Mine
    <3>1. next \in S!Nonces /\ slot[next] # "free"
      BY <1>0, <2>3 DEF S!Mine, S!Nonces
    <3>2. ~Building /\ slot[next] = "ours"
      BY <1>0, <1>1, <3>1
    <3>3. result' # "none"
      BY <2>3, <3>2 DEF S!Mine
    <3>. QED BY <2>1, <3>2, <3>3 DEF S!Nonces
  <2>. QED BY <1>4, <2>2, <2>3 DEF Chain
<1>5. CASE ~(Buy \/ BuyFails \/ Chain)
  <2>1. UNCHANGED swapVars
    BY <1>5 DEF Next, Startup, LoadConfig, Connect, DialRpc, NewWallet, GetEthBalance, NewInToken,
       NewTargetToken, SetupDex, StartFails, NewPriceWatcher, PricerReturns, Arm, Goto, Ends, Receive,
       ReceiveClosed, Purchase, Report, Watcher, Trigger, ListenerFails, TriggerPanics, Crash, BecomesDue, Pair, vars
  <2>2. ~Alive => ~Alive'
    BY <1>5 DEF Next, Startup, LoadConfig, Connect, DialRpc, NewWallet, GetEthBalance, NewInToken,
       NewTargetToken, SetupDex, StartFails, NewPriceWatcher, PricerReturns, Arm, Goto, Ends, Receive,
       ReceiveClosed, Purchase, Report, Watcher, Trigger, ListenerFails, TriggerPanics, Crash, BecomesDue, Pair, vars, W!Alive,
       W!GetPair, W!GetToken0, W!GetToken1, W!SubscribeFails, W!CallGetReserves, W!GetReserves,
       W!GetReservesFails, W!Publish, W!PricingPanics, W!PairCreated, W!PendingTrade,
       W!PendingDropped, W!NewBlock
  <2>. QED BY <2>1, <2>2 DEF S!Nonces
<1>. QED
  BY <1>2, <1>3, <1>4, <1>5

LEMMA WaitingStep ==
  ASSUME IInv, Waiting, [Next]_vars
  PROVE  Waiting'
<1>. USE DEF mainVars, triggerVars, swapVars, pricerVars, pricerVarsButProcess, Waiting, Alive
<1>1. CASE LoadConfig \/ Connect \/ DialRpc \/ NewWallet \/ GetEthBalance \/ NewInToken \/ NewTargetToken
             \/ SetupDex \/ Arm
  BY <1>1 DEF LoadConfig, Connect, DialRpc, NewWallet, GetEthBalance, NewInToken, NewTargetToken,
              SetupDex, Arm, Goto
<1>2. CASE StartFails
  BY <1>2 DEF StartFails, Ends
<1>3. CASE NewPriceWatcher
  BY <1>3 DEF NewPriceWatcher, W!GetPair, W!GetToken0, W!SubscribeFails, W!FactoryGetPair, W!Alive, W!goVars
<1>4. CASE PricerReturns
  BY <1>4 DEF PricerReturns, W!GetToken1, W!Alive, IInv, Typed, Runs
<1>5. CASE Receive \/ ReceiveClosed
  BY <1>5 DEF Receive, ReceiveClosed, T!Fire
<1>6. CASE Buy \/ BuyFails \/ Report
  BY <1>6 DEF Buy, BuyFails, Report, Ends
<1>7. CASE Watcher
  BY <1>7 DEF Watcher, W!CallGetReserves, W!GetReserves, W!GetReservesFails, W!Publish, W!PricingPanics,
              W!Alive, W!goVars
<1>8. CASE Trigger \/ BecomesDue
  BY <1>8 DEF Trigger, ListenerFails, TriggerPanics, TriggerMayFail, Crash, Ends, BecomesDue,
              T!GoDown, T!Break, T!BecomeDue
<1>9. CASE Pair \/ Chain \/ UNCHANGED vars
  BY <1>9 DEF Pair, Chain, W!PairCreated, W!PendingTrade, W!PendingDropped, W!NewBlock, W!goVars, vars
<1>. QED
  BY <1>1, <1>2, <1>3, <1>4, <1>5, <1>6, <1>7, <1>8, <1>9 DEF Next, Startup, Purchase

\* The guards of main's steps, a step that fails being one where its guard says so ...
MainCanStep ==
  \/ step \in {"config", "connect", "dial", "wallet", "balance", "inToken", "targetToken", "dex", "arm"}
  \/ step = "pricer" /\ \/ pricer \in {"getPair", "getToken1"}
                        \/ pricer = "getToken0" /\ pairAddr \in {"pair", "zero"}
  \/ step = "wait" /\ \/ due = "must" /\ trigger = "armed"
                      \/ trigger = "broken"
  \/ step = "buy" /\ \/ pc = "nonce" /\ \E n \in S!Nonces : S!PendingNonceAt(n)
                     \/ pc \in {"gas", "simulate", "send", "report"}
                     \/ pc = "wait" /\ result # "none"

\* ... and of mining the swap.
SwapCanBeMined == pc = "wait" /\ next = nonce /\ slot[nonce] = "ours" /\ nonce <= MaxNonce

\* How many steps are left to main, to the watcher's set-up and to the purchase.
StartLeft ==
  [config |-> 11, connect |-> 10, dial |-> 9, wallet |-> 8, balance |-> 7, inToken |-> 6,
   targetToken |-> 5, dex |-> 4, pricer |-> 3, arm |-> 2, wait |-> 1, buy |-> 0][step]

PricerLeft == [getPair |-> 3, getToken0 |-> 2, getToken1 |-> 1, returned |-> 0][pricer]

BuyLeft ==
  [nonce |-> 6, gas |-> 5, simulate |-> 4, send |-> 3, wait |-> 2, report |-> 1, failed |-> 0][pc]

StepsLeft == StartLeft + PricerLeft + BuyLeft

MainStep == Startup \/ Receive \/ ReceiveClosed \/ Purchase

LEMMA SomethingCanHappen ==
  ASSUME IInv, Alone, Waiting, Alive, run.program = "run" \/ due = "must" \/ trigger = "broken"
  PROVE  MainCanStep \/ SwapCanBeMined
<1>0. 0 \in S!Nonces /\ MaxNonce \in Nat /\ 0 <= MaxNonce
  BY SniperAssumption DEF S!Nonces
<1>1. CASE step = "buy"
  <2>1. CASE pc = "nonce"
    <3>1. next = 0 /\ slot[0] = "free"
      BY <1>0, <2>1 DEF IInv, Typed, Placed, Alone, Building, S!Ours
    <3>2. S!PendingNonceAt(0)
      BY <3>1 DEF S!PendingNonceAt
    <3>. QED BY <1>0, <1>1, <2>1, <3>2 DEF MainCanStep
  <2>2. CASE pc \in {"gas", "simulate", "send", "report"}
    BY <1>1, <2>2 DEF MainCanStep
  <2>3. CASE pc = "wait"
    BY <1>0, <1>1, <2>3 DEF MainCanStep, SwapCanBeMined, Alone
  <2>. QED
    BY <2>1, <2>2, <2>3 DEF IInv, Typed, Alone
<1>2. CASE step = "pricer"
  BY <1>2 DEF MainCanStep, Waiting, IInv, InStep
<1>3. CASE step = "wait"
  BY <1>3 DEF MainCanStep, Waiting
<1>. QED
  BY <1>1, <1>2, <1>3 DEF MainCanStep, IInv, Typed

LEMMA SumShrinks ==
  ASSUME NEW a \in Nat, NEW b \in Nat, NEW c \in Nat, NEW d \in Int, NEW e \in Int, NEW f \in Int,
         d <= a, e <= b, f <= c
  PROVE  /\ d + e + f <= a + b + c
         /\ d < a \/ e < b \/ f < c => d + e + f < a + b + c
  OBVIOUS

LEMMA MainComesCloser ==
  ASSUME IInv, Waiting, [Next]_vars
  PROVE  /\ StepsLeft \in Nat /\ StepsLeft' <= StepsLeft
         /\ MainStep => ~Alive' \/ StepsLeft' < StepsLeft
<1>. USE DEF mainVars, triggerVars, swapVars, pricerVars, pricerVarsButProcess, Alive
<1>1. StartLeft \in Nat /\ PricerLeft \in Nat /\ BuyLeft \in Nat
  BY DEF StartLeft, PricerLeft, BuyLeft, IInv, Typed, Waiting
<1>0. /\ StepsLeft  = StartLeft + PricerLeft + BuyLeft
      /\ StepsLeft' = StartLeft' + PricerLeft' + BuyLeft'
  BY DEF StepsLeft
<1>s. StepsLeft \in Nat
  BY <1>0, <1>1
<1>d. ASSUME StartLeft' \in Int, PricerLeft' \in Int, BuyLeft' \in Int,
             StartLeft' <= StartLeft, PricerLeft' <= PricerLeft, BuyLeft' <= BuyLeft
      PROVE  /\ StepsLeft' <= StepsLeft
             /\ StartLeft' < StartLeft \/ PricerLeft' < PricerLeft \/ BuyLeft' < BuyLeft
                  => StepsLeft' < StepsLeft
  BY <1>0, <1>1, <1>d, SumShrinks, Zenon
<1>2. CASE LoadConfig \/ Connect \/ DialRpc \/ NewWallet \/ GetEthBalance \/ NewInToken \/ NewTargetToken
             \/ SetupDex \/ Arm
  <2>1. UNCHANGED <<pricer, pc>> /\ StartLeft' < StartLeft
    BY <1>2 DEF LoadConfig, Connect, DialRpc, NewWallet, GetEthBalance, NewInToken, NewTargetToken,
                SetupDex, Arm, Goto, StartLeft
  <2>2. StartLeft' \in Int /\ PricerLeft' = PricerLeft /\ BuyLeft' = BuyLeft
    BY <1>2, <2>1 DEF LoadConfig, Connect, DialRpc, NewWallet, GetEthBalance, NewInToken, NewTargetToken,
                SetupDex, Arm, Goto, StartLeft, PricerLeft, BuyLeft
  <2>3. /\ PricerLeft' \in Int /\ BuyLeft' \in Int
         /\ StartLeft' <= StartLeft /\ PricerLeft' <= PricerLeft /\ BuyLeft' <= BuyLeft
    BY <1>1, <2>1, <2>2
  <2>. QED BY <1>s, <1>d, <2>1, <2>2, <2>3
<1>3. CASE NewPriceWatcher
  <2>1. StartLeft' = StartLeft /\ BuyLeft' = BuyLeft /\ PricerLeft' \in Int
        /\ (PricerLeft' < PricerLeft \/ (PricerLeft' = PricerLeft /\ process' = "fatal"))
    BY <1>3 DEF NewPriceWatcher, W!GetPair, W!GetToken0, W!SubscribeFails, W!goVars, StartLeft,
                PricerLeft, BuyLeft, Waiting
  <2>2. /\ StartLeft' \in Int /\ BuyLeft' \in Int
         /\ StartLeft' <= StartLeft /\ PricerLeft' <= PricerLeft /\ BuyLeft' <= BuyLeft
    BY <1>1, <2>1
  <2>. QED BY <1>s, <1>d, <2>1, <2>2
<1>4. CASE PricerReturns
  <2>1. /\ StartLeft = 3 /\ StartLeft' \in {0, 2} /\ PricerLeft = 1 /\ PricerLeft' = 0
        /\ BuyLeft' = BuyLeft
    BY <1>4 DEF PricerReturns, W!GetToken1, StartLeft, PricerLeft, BuyLeft
  <2>2. /\ StartLeft' \in Int /\ PricerLeft' \in Int /\ BuyLeft' \in Int
         /\ StartLeft' <= StartLeft /\ PricerLeft' <= PricerLeft /\ BuyLeft' <= BuyLeft
    BY <1>1, <2>1
  <2>. QED BY <1>s, <1>d, <2>1, <2>2
<1>5. CASE Receive \/ ReceiveClosed
  <2>1. StartLeft = 1 /\ StartLeft' = 0 /\ PricerLeft' = PricerLeft /\ BuyLeft' = BuyLeft
    BY <1>5 DEF Receive, ReceiveClosed, StartLeft, PricerLeft, BuyLeft
  <2>. QED BY <1>0, <1>1, <2>1
<1>6. CASE Buy \/ BuyFails
  <2>1. StartLeft' = StartLeft /\ PricerLeft' = PricerLeft
    BY <1>6 DEF Buy, BuyFails, StartLeft, PricerLeft
  <2>2. BuyLeft' \in Int /\ BuyLeft' < BuyLeft
    BY <1>6 DEF Buy, BuyFails, BuyLeft, S!GetNonce, S!GetGasPrice, S!EstimateGas, S!SendTransaction,
                S!Mined, S!BuildFails, S!SendFails
  <2>3. /\ StartLeft' \in Int /\ PricerLeft' \in Int
         /\ StartLeft' <= StartLeft /\ PricerLeft' <= PricerLeft /\ BuyLeft' <= BuyLeft
    BY <1>1, <2>1, <2>2
  <2>. QED BY <1>s, <1>d, <2>1, <2>2, <2>3
<1>7. CASE UNCHANGED <<step, pricer, pc>> /\ (MainStep => ~Alive')
  <2>1. StepsLeft' = StepsLeft
    BY <1>7 DEF StepsLeft, StartLeft, PricerLeft, BuyLeft
  <2>. QED BY <1>0, <1>1, <1>7, <2>1
<1>8. CASE StartFails \/ Report
  BY <1>7, <1>8 DEF StartFails, Report, Ends
<1>9. CASE Watcher \/ Trigger \/ BecomesDue \/ Pair \/ Chain \/ UNCHANGED vars
  <2>1. UNCHANGED <<step, pricer, pc>>
    BY <1>9 DEF Watcher, Trigger, ListenerFails, TriggerPanics, Crash, Ends, BecomesDue, Pair, Chain, vars, W!CallGetReserves, W!GetReserves,
       W!GetReservesFails, W!Publish, W!PricingPanics, W!PairCreated, W!PendingTrade,
       W!PendingDropped, W!NewBlock, W!goVars, S!Mine, S!Tick
  <2>2. CASE MainStep
    <3>1. CASE StartFails \/ Report
      BY <1>8, <3>1
    <3>2. CASE ~(StartFails \/ Report)
      BY <1>2, <1>3, <1>4, <1>5, <1>6, <2>2, <3>2 DEF MainStep, Startup, Purchase
    <3>. QED BY <3>1, <3>2
  <2>. QED BY <1>7, <2>1, <2>2
<1>. QED
  BY <1>2, <1>3, <1>4, <1>5, <1>6, <1>8, <1>9 DEF Next, Startup, Purchase

\* Once its trigger has to fire (the trigger then does, by DeadlineEndsTheWait and
\* AnnouncedTargetReleases of BuyTrigger), or a panic has closed its channel, nothing but
\* mining keeps main from its next step, and at most StepsLeft of them lead to the end of
\* the program; none of the other goroutines takes main back.  The nonce is always found,
\* no gap or other transaction stands before the swap, and the watcher's set-up knows what
\* to ask next.  What fairness adds to this is EndsOnceDue.
THEOREM MainIsNotHeldUp ==
  Spec => /\ [](Alive /\ (run.program = "run" \/ due = "must" \/ trigger = "broken") => MainCanStep \/ SwapCanBeMined)
          /\ [](StepsLeft \in Nat)
          /\ [][StepsLeft' <= StepsLeft /\ (MainStep => ~Alive' \/ StepsLeft' < StepsLeft)]_vars
<1>1. Init => Alone /\ Waiting
  BY SniperAssumption DEF Init, Alone, Waiting, Building, T!Init, W!Init, S!Init, S!Nonces
<1>2. IInv /\ (Alone /\ Waiting) /\ [Next]_vars => (Alone /\ Waiting)'
  BY AloneStep, WaitingStep
<1>3. Spec => [](Alone /\ Waiting)
  BY <1>1, <1>2, Inductive, PTL DEF Spec
<1>4. IInv /\ Alone /\ Waiting =>
        (Alive /\ (run.program = "run" \/ due = "must" \/ trigger = "broken") => MainCanStep \/ SwapCanBeMined)
  BY SomethingCanHappen
<1>5. IInv /\ Waiting /\ [Next]_vars =>
        /\ StepsLeft \in Nat
        /\ [StepsLeft' <= StepsLeft /\ (MainStep => ~Alive' \/ StepsLeft' < StepsLeft)]_vars
  BY MainComesCloser
<1>. QED
  BY <1>3, <1>4, <1>5, Inductive, PTL DEF Spec

-----------------------------------------------------------------------------
(* The price watcher inside the programs.                                  *)

\* The watcher's theorems, for the variables of Sniper.
WProofs == INSTANCE PriceWatcherProofs WITH main <- pricer

\* WProofs has the definitions of W.
LEMMA SameWatcher ==
  /\ W!Init => WProofs!Init
  /\ W!GetPair \/ W!GetToken0 \/ W!GetToken1 \/ W!SubscribeFails => WProofs!CallerStep
  /\ W!CallGetReserves \/ W!GetReserves \/ W!GetReservesFails \/ W!Publish \/ W!PricingPanics
       => WProofs!WatcherStep
  /\ W!PairCreated \/ W!PendingTrade \/ W!PendingDropped \/ W!NewBlock => WProofs!Environment
<1>. USE DEF W!Alive, W!goVars, W!chainVars, W!params, W!CallsMayFail,
             WProofs!Alive, WProofs!goVars, WProofs!chainVars, WProofs!params, WProofs!CallsMayFail
<1>1. W!Init => WProofs!Init
  BY DEF W!Init, WProofs!Init
<1>2. /\ W!GetPair => WProofs!GetPair
      /\ W!GetToken0 => WProofs!GetToken0
      /\ W!GetToken1 => WProofs!GetToken1
      /\ W!SubscribeFails => WProofs!SubscribeFails
  BY DEF W!GetPair, W!GetToken0, W!GetToken1, W!SubscribeFails, W!FactoryGetPair, W!PairToken0,
         W!PairToken1, WProofs!GetPair, WProofs!GetToken0, WProofs!GetToken1,
         WProofs!SubscribeFails, WProofs!FactoryGetPair, WProofs!PairToken0, WProofs!PairToken1
<1>3. /\ W!CallGetReserves => WProofs!CallGetReserves
      /\ W!GetReserves => WProofs!GetReserves
      /\ W!GetReservesFails => WProofs!GetReservesFails
  BY DEF W!CallGetReserves, W!GetReserves, W!GetReservesFails, W!View, W!PairReserves,
         WProofs!CallGetReserves, WProofs!GetReserves, WProofs!GetReservesFails, WProofs!View,
         WProofs!PairReserves
<1>4. /\ W!Publish => WProofs!Publish
      /\ W!PricingPanics => WProofs!PricingPanics
  BY DEF W!Publish, W!PricingPanics, W!TokenRatioPanics, W!Ratio, W!TokenRatio,
         WProofs!Publish, WProofs!PricingPanics, WProofs!TokenRatioPanics, WProofs!Ratio,
         WProofs!TokenRatio
<1>5. /\ W!PairCreated => WProofs!PairCreated
      /\ W!PendingTrade => WProofs!PendingTrade
      /\ W!PendingDropped => WProofs!PendingDropped
      /\ W!NewBlock => WProofs!NewBlock
  BY DEF W!PairCreated, W!PendingTrade, W!PendingDropped, W!NewBlock,
         WProofs!PairCreated, WProofs!PendingTrade, WProofs!PendingDropped, WProofs!NewBlock
<1>. QED
  BY <1>1, <1>2, <1>3, <1>4, <1>5 DEF WProofs!CallerStep, WProofs!WatcherStep, WProofs!Environment

\* What is assumed of PriceWatcher holds here.
LEMMA WatcherAssumptionHolds ==
  /\ Reserves \subseteq Nat \X Nat /\ <<0, 0>> \in Reserves
  /\ NilPrice \notin Nat \X Nat
<1>1. Reserves \subseteq Nat \X Nat
  BY SniperAssumption
<1>. QED BY <1>1, SniperAssumption

\* A step of the programs is one of the watcher, of its pair, or leaves the watcher alone
\* but for the process.
LEMMA PricerStep ==
  ASSUME IInv, [Next]_vars
  PROVE  \/ WProofs!CallerStep \/ WProofs!WatcherStep \/ WProofs!Environment
         \/ UNCHANGED pricerVarsButProcess /\ UNCHANGED seen
<1>1. CASE NewPriceWatcher \/ PricerReturns \/ Watcher \/ Pair
  BY <1>1, SameWatcher DEF NewPriceWatcher, PricerReturns, Watcher, Pair
<1>2. CASE ~(NewPriceWatcher \/ PricerReturns \/ Watcher \/ Pair)
  BY <1>2 DEF Next, Startup, LoadConfig, Connect, DialRpc, NewWallet, GetEthBalance, NewInToken,
       NewTargetToken, SetupDex, StartFails, Arm, Goto, Ends, Receive, Purchase, Buy, BuyFails,
       Report, ReceiveClosed, Trigger, ListenerFails, TriggerPanics, Crash, BecomesDue, Chain, vars, pricerVars, pricerVarsButProcess
<1>. QED BY <1>1, <1>2

\* The watcher's invariant looks at the process for its type only.
LEMMA EndKeepsPrices ==
  ASSUME WProofs!IInv, UNCHANGED pricerVarsButProcess,
         process' \in {"running", "unwinding", "fatal", "crashed", "exited"}
  PROVE  WProofs!IInv'
  BY DEF pricerVarsButProcess, WProofs!IInv, WProofs!TypeOK, WProofs!ViewShown, WProofs!Ordered,
         WProofs!Published, WProofs!RealPrices, WProofs!TruePrice

\* Whatever main, the trigger and the purchase do beside it, and whoever ends the program,
\* a price that the watcher publishes in either of them is a true ratio of reserves that the
\* pair showed together.
THEOREM PricesAreRealInside == Spec => []W!PriceWasReal
<1>1. Init => WProofs!IInv
  BY SameWatcher, WatcherAssumptionHolds, WProofs!InitIInv DEF Init
<1>2. IInv /\ IInv' /\ WProofs!IInv /\ [Next]_vars => WProofs!IInv'
  BY PricerStep, EndKeepsPrices, WatcherAssumptionHolds, WProofs!CallerKeeps, WProofs!WatcherKeeps,
     WProofs!EnvironmentKeeps DEF IInv, Typed
<1>3. WProofs!IInv => W!PriceWasReal
  BY DEF WProofs!IInv, WProofs!Published, WProofs!RealPrices, WProofs!TruePrice,
         W!PriceWasReal, W!TruePrice
<1>. QED BY <1>1, <1>2, <1>3, Inductive, PTL DEF Spec

-----------------------------------------------------------------------------
(* Refinement of the purchase by itself.                                   *)

\* An empty pair never follows one that has liquidity, and liquidity is pending before
\* it is mined.
LEMMA PairStep ==
  ASSUME IInv, Pair, pending = <<0, 0>> => latest = <<0, 0>>
  PROVE  /\ pending' = <<0, 0>> => latest' = <<0, 0>>
         /\ \/ Liquidity' = Liquidity
            \/ Liquidity = "none" /\ Liquidity' = "pending"
            \/ Liquidity = "pending" /\ Liquidity' = "mined"
            \/ Liquidity # "none" /\ Liquidity' = "none"
<1>1. \A r \in Reserves : HasLiquidity(r) <=> r # <<0, 0>>
  BY SniperAssumption DEF HasLiquidity
<1>2. pending \in Reserves /\ latest \in Reserves
  BY DEF IInv, Typed
<1>. USE <1>1, <1>2 DEF Liquidity
<1>3. CASE W!PairCreated
  BY <1>3 DEF W!PairCreated
<1>4. CASE W!PendingTrade
  BY <1>4 DEF W!PendingTrade
<1>5. CASE W!PendingDropped
  BY <1>5 DEF W!PendingDropped
<1>6. CASE W!NewBlock
  BY <1>6 DEF W!NewBlock
<1>. QED BY <1>3, <1>4, <1>5, <1>6 DEF Pair

\* Every step of the programs is one of the purchase, of its chain, or none.
LEMMA SwapStep ==
  ASSUME IInv, [Next]_vars, pending = <<0, 0>> => latest = <<0, 0>>
  PROVE  [S!Next]_(S!vars) /\ (pending' = <<0, 0>> => latest' = <<0, 0>>)
<1>. USE DEF mainVars, triggerVars, swapVars, S!vars, S!tx, S!chain, S!world
<1>1. CASE Pair
  <2>1. UNCHANGED <<pc, nonce, expires, slot, next, result, now, older, faults>>
    BY <1>1 DEF Pair, W!PairCreated, W!PendingTrade, W!PendingDropped, W!NewBlock, W!params
  <2>. QED
    BY <1>1, <2>1, PairStep DEF S!Next, S!Chain, S!AddLiquidity, S!LiquidityMined, S!RemoveLiquidity
<1>2. CASE ~Pair
  <2>1. UNCHANGED <<latest, pending, faults>>
    BY <1>2 DEF Next, Startup, LoadConfig, Connect, DialRpc, NewWallet, GetEthBalance, NewInToken,
       NewTargetToken, SetupDex, StartFails, NewPriceWatcher, PricerReturns, Arm, Goto, Ends, Receive,
       ReceiveClosed, Purchase, Buy, BuyFails, Report, Watcher, Trigger, ListenerFails, TriggerPanics,
       Crash, BecomesDue, Chain, vars,
       pricerVars, pricerVarsButProcess, W!GetPair, W!GetToken0, W!GetToken1, W!SubscribeFails,
       W!CallGetReserves, W!GetReserves, W!GetReservesFails, W!Publish, W!PricingPanics, W!goVars,
       W!chainVars, W!params
  <2>2. Liquidity' = Liquidity
    BY <2>1 DEF Liquidity, HasLiquidity
  <2>3. CASE Buy \/ BuyFails \/ Chain
    BY <2>1, <2>3 DEF Buy, BuyFails, Chain, S!Next, S!Program, S!Chain
  <2>4. CASE ~(Buy \/ BuyFails \/ Chain)
    <3>1. UNCHANGED swapVars
      BY <1>2, <2>4 DEF Next, Startup, LoadConfig, Connect, DialRpc, NewWallet, GetEthBalance,
         NewInToken, NewTargetToken, SetupDex, StartFails, NewPriceWatcher, PricerReturns, Arm, Goto,
         Ends, Receive, ReceiveClosed, Purchase, Report, Watcher, Trigger, ListenerFails, TriggerPanics,
         Crash, BecomesDue, vars
    <3>. QED BY <2>1, <2>2, <3>1
  <2>. QED BY <2>1, <2>3, <2>4
<1>. QED BY <1>1, <1>2

\* The purchase inside the programs is the purchase that DexSwap describes.
THEOREM RefinesSwap == Spec => ImplementsSwap
<1>. DEFINE Filled == pending = <<0, 0>> => latest = <<0, 0>>
<1>1. Init => S!Init /\ Filled
  BY DEF Init, W!Init, Filled, S!Init, Liquidity, HasLiquidity
<1>2. IInv /\ Filled /\ [Next]_vars => [S!Next]_(S!vars) /\ Filled'
  BY SwapStep
<1>. HIDE DEF Filled
<1>. QED
  BY <1>1, <1>2, Inductive, PTL DEF Spec, ImplementsSwap
=============================================================================
