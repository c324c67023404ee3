-------------------------------- MODULE Sniper --------------------------------
(***************************************************************************)
(* The two programs, from main to the end of the process: cmd/main.go,     *)
(* which waits for the buy trigger, and cmd/run/run.go, which buys at      *)
(* once.  The parts run together in one process:                           *)
(*                                                                         *)
(*   main      starts up, waits and buys (DexSwap);                        *)
(*   watcher   the goroutine of the price watcher (PriceWatcher);          *)
(*   trigger   the goroutines of the buy trigger, as OneShotTrigger, which *)
(*             BuyTrigger implements.                                      *)
(*                                                                         *)
(* A log.Fatalf in any of them ends all, and so does a panic, after the    *)
(* deferred calls of its goroutine: that of the trigger closes its         *)
(* channel, which lets main past the receive.  The price watcher and the   *)
(* purchase see the same pair: what the swap finds is what the watcher     *)
(* reads.                                                                  *)
(***************************************************************************)
EXTENDS Integers, FiniteSets

CONSTANTS
  Reserves, NilPrice,              \* of PriceWatcher
  MaxNonce, MaxTime, Expiration,   \* of DexSwap
  FaultSets                        \* what may happen in a run: "calls" to the node fail,
                                   \* "replies" of SendTransaction are lost

\* Bound: a pair that is not empty has both of its tokens.
ASSUME SniperAssumption ==
  /\ <<0, 0>> \in Reserves
  /\ Reserves \ {<<0, 0>>} \subseteq (Nat \ {0}) \X (Nat \ {0})
  /\ NilPrice \notin Nat \X Nat
  /\ MaxNonce \in Nat /\ MaxTime \in Nat /\ Expiration \in Nat
  /\ FaultSets \subseteq SUBSET {"calls", "replies"}

VARIABLES
  run,       \* what is started: the program, "sniper" or "run"; file, what FromYaml
             \* makes of the configuration: "config", "error", "fatal" or "panic"; key,
             \* the private key parses; triggerFails, the buy trigger may end the program
             \* with log.Fatalf or a panic
  step,      \* where main is: "config", "connect", "dial", "wallet", "balance",
             \* "inToken", "targetToken", "dex", "pricer", "arm", "wait", "buy"
  \* OneShotTrigger
  due, trigger,
  \* PriceWatcher; its `main` is `pricer` here
  process, ctx, pricer, pairAddr, sameOrder, watcher, reserves, currentPrice, seen,
  created, aIsToken0, latest, pending, shown, published, viewPending, faults,
  \* DexSwap
  pc, nonce, expires, slot, next, result, now, older

mainVars    == <<run, step>>
triggerVars == <<due, trigger>>
pricerVars  ==
  <<process, ctx, pricer, pairAddr, sameOrder, watcher, reserves, currentPrice, seen,
    created, aIsToken0, latest, pending, shown, published, viewPending, faults>>
pricerVarsButProcess ==
  <<ctx, pricer, pairAddr, sameOrder, watcher, reserves, currentPrice, seen,
    created, aIsToken0, latest, pending, shown, published, viewPending, faults>>
swapVars    == <<pc, nonce, expires, slot, next, result, now, older>>
vars == <<mainVars, triggerVars, pricerVars, swapVars>>

HasLiquidity(r) == r[1] > 0 /\ r[2] > 0

\* What the router finds in the pair, from the reserves of the two blocks.
Liquidity ==
  IF ~HasLiquidity(pending) THEN "none"
  ELSE IF HasLiquidity(latest) THEN "mined" ELSE "pending"

T == INSTANCE OneShotTrigger WITH status <- trigger
W == INSTANCE PriceWatcher WITH main <- pricer
S == INSTANCE DexSwap WITH liquidity <- Liquidity

Runs ==
  [program : {"sniper", "run"}, file : {"config", "error", "fatal", "panic"},
   key : BOOLEAN, triggerFails : BOOLEAN]

Init ==
  /\ run \in Runs /\ step = "config"
  /\ T!Init /\ due # "may"
  /\ W!Init /\ viewPending = (run.program = "sniper")
  /\ S!Init

Alive == process \in {"running", "unwinding"}

-----------------------------------------------------------------------------
(* main, up to the price watcher.                                          *)

Goto(from, to) ==
  /\ Alive /\ step = from /\ step' = to
  /\ UNCHANGED <<run, triggerVars, pricerVars, swapVars>>

LoadConfig == run.file = "config" /\ Goto("config", "connect")

\* network.Connect, then a second connection with rpc.Dial
Connect == Goto("connect", "dial")
DialRpc == Goto("dial", "wallet")

NewWallet == run.key /\ Goto("wallet", "balance")

GetEthBalance == Goto("balance", "inToken")

\* NewToken: a Symbol call that fails is only logged, the token is called TKN.
NewInToken     == Goto("inToken", "targetToken")
NewTargetToken == Goto("targetToken", "dex")

SetupDexSkipsPricer == Goto("dex", "arm")

\* No call: the ABIs are parsed and the bindings made.
SetupDex == Goto("dex", "pricer")

Ends(how) == process' = how /\ UNCHANGED <<mainVars, triggerVars, pricerVarsButProcess, swapVars>>

\* log.Fatalf, or a panic in parseValues.
StartFails ==
  /\ Alive
  /\ \/ step = "config" /\ run.file # "config"
     \/ step \in {"connect", "dial", "balance"} /\ "calls" \in faults
     \/ step = "wallet" /\ ~run.key
  /\ Ends(IF step = "config" /\ run.file = "panic" THEN "crashed" ELSE "fatal")

\* NewPriceWatcher and the calls it makes; if one fails the program is fatal.
NewPriceWatcher ==
  /\ step = "pricer"
  /\ UNCHANGED <<mainVars, triggerVars, swapVars>>
  /\ W!GetPair \/ W!GetToken0 \/ W!SubscribeFails

PricerReturnsToArm ==
  /\ step = "pricer"
  /\ step' = "arm"
  /\ UNCHANGED <<run, triggerVars, swapVars>>
  /\ W!GetToken1

\* It returns with its goroutine running; cmd/run has no trigger.
PricerReturns ==
  /\ step = "pricer"
  /\ step' = IF run.program = "sniper" THEN "arm" ELSE "buy"
  /\ UNCHANGED <<run, triggerVars, swapVars>>
  /\ W!GetToken1

-----------------------------------------------------------------------------
(* main, from the trigger on.                                              *)

ArmsWithoutWaiting == Goto("arm", "buy")

\* conf.BuyTrigger.Set
Arm == Goto("arm", "wait")

\* <-conf.BuyTrigger.Set(...)
Receive ==
  /\ Alive /\ step = "wait"
  /\ T!Fire
  /\ step' = "buy"
  /\ UNCHANGED <<run, pricerVars, swapVars>>

\* The receive finds the channel that the panic of the trigger goroutine has closed.
ReceiveClosed ==
  /\ Alive /\ step = "wait" /\ trigger = "broken"
  /\ step' = "buy"
  /\ UNCHANGED <<run, triggerVars, pricerVars, swapVars>>

Buy ==
  /\ Alive /\ step = "buy"
  /\ UNCHANGED <<mainVars, triggerVars, pricerVars>>
  /\ S!GetNonce \/ S!GetGasPrice \/ S!EstimateGas \/ S!SendTransaction \/ S!Mined

BuyFailsInWait ==
  /\ Alive /\ step = "buy"
  /\ process' = "fatal"
  /\ UNCHANGED <<mainVars, triggerVars, pricerVarsButProcess>>
  /\ \/ S!BuildFails \/ S!SendFails
     \/ /\ pc = "wait" /\ "calls" \in faults /\ pc' = "failed"
        /\ UNCHANGED <<nonce, expires, slot, next, result, now, older>>

BuyFailsGoesOn ==
  /\ Alive /\ step = "buy" /\ pc = "simulate" /\ Liquidity = "none"
  /\ pc' = "nonce"
  /\ UNCHANGED <<mainVars, triggerVars, pricerVars, nonce, expires, slot, next, result, now, older>>

\* "Failed to buy tokens": log.Fatalf
BuyFails ==
  /\ Alive /\ step = "buy"
  /\ process' = "fatal"
  /\ UNCHANGED <<mainVars, triggerVars, pricerVarsButProcess>>
  /\ S!BuildFails \/ S!SendFails

\* The report, and main returns.  That of cmd/run panics without the pair's Swap
\* event, and when the target is token1 of the pair (SwapReport).
Report ==
  /\ Alive /\ step = "buy" /\ pc = "report"
  /\ Ends(IF run.program = "run" /\ (result = "reverted" \/ ~aIsToken0)
          THEN "crashed" ELSE "exited")

-----------------------------------------------------------------------------
(* The other goroutines, and the chain.                                    *)

\* The goroutine of the price watcher; its panic finds nothing deferred and ends the
\* program.
Watcher ==
  /\ UNCHANGED <<mainVars, triggerVars, swapVars>>
  /\ W!CallGetReserves \/ W!GetReserves \/ W!GetReservesFails \/ W!Publish \/ W!PricingPanics

\* The goroutines of the buy trigger may fail from the moment Set has started them.
TriggerMayFail == Alive /\ step \in {"wait", "buy"} /\ run.program = "sniper" /\ run.triggerFails

\* The listener's log.Fatalf; it lives on while main buys.
ListenerFails ==
  /\ TriggerMayFail
  /\ T!GoDown
  /\ process' = "fatal"
  /\ UNCHANGED <<mainVars, pricerVarsButProcess, swapVars>>

\* A panic while a transaction is classified: its deferred close(trigger) has run.
TriggerPanics ==
  /\ TriggerMayFail /\ process = "running" /\ step = "wait"
  /\ T!Break
  /\ process' = "unwinding"
  /\ UNCHANGED <<mainVars, pricerVarsButProcess, swapVars>>

\* The runtime prints the panic and exits.
Crash == process = "unwinding" /\ Ends("crashed")

\* The deadline passes, or a transaction that adds liquidity is announced, for which
\* the goroutines have to be there.
BecomesDue ==
  /\ T!BecomeDue
  /\ due' = "may" => step \in {"wait", "buy"}
  /\ UNCHANGED <<mainVars, pricerVars, swapVars>>

Pair ==
  /\ UNCHANGED <<mainVars, triggerVars, swapVars>>
  /\ W!PairCreated \/ W!PendingTrade \/ W!PendingDropped \/ W!NewBlock

Chain ==
  /\ UNCHANGED <<mainVars, triggerVars, pricerVars>>
  /\ S!Mine \/ S!Tick

-----------------------------------------------------------------------------
Startup ==
  \/ LoadConfig \/ Connect \/ DialRpc \/ NewWallet \/ GetEthBalance \/ NewInToken
  \/ NewTargetToken \/ SetupDex \/ StartFails \/ NewPriceWatcher \/ PricerReturns \/ Arm

Purchase == Buy \/ BuyFails \/ Report

Trigger == ListenerFails \/ TriggerPanics \/ Crash

Next ==
  \/ Startup \/ Receive \/ ReceiveClosed \/ Purchase
  \/ Watcher \/ Trigger
  \/ BecomesDue \/ Pair \/ Chain

\* Goroutines run on and calls return; a panic ends the process; the miners include
\* what they can.  A trigger that has to fire does so when no call of it fails
\* (DeadlineEndsTheWait and AnnouncedTargetReleases of BuyTrigger); one that only may
\* fire need not.
Fairness ==
  /\ WF_vars(Startup) /\ WF_vars(Purchase) /\ WF_vars(Watcher)
  /\ WF_vars(Chain /\ S!Mine)
  /\ WF_vars(faults = {} /\ due = "must" /\ Receive)
  /\ WF_vars(ReceiveClosed) /\ WF_vars(Crash)

Spec == Init /\ [][Next]_vars /\ Fairness

-----------------------------------------------------------------------------
(* Properties.                                                             *)

Ended == ~Alive

\* The variables of main range over the values their comments list, and main is past
\* the watcher exactly when the watcher has been set up.
TypeOK ==
  /\ run \in Runs
  /\ step \in {"config", "connect", "dial", "wallet", "balance", "inToken", "targetToken",
               "dex", "pricer", "arm", "wait", "buy"}
  /\ T!TypeOK
  /\ process \in {"running", "unwinding", "fatal", "crashed", "exited"}
  /\ step \in {"arm", "wait", "buy"} <=> pricer = "returned"

\* The sniper gives the node no swap before there is a reason to: neither the start-up
\* nor the watcher let main past the receive, and the channel that a panic closes does
\* so only while the program goes down (main.go:129-130, buy_trigger.go:41).
NoSwapBeforeDue ==
  [][run.program = "sniper" /\ S!Ours = {} /\ S!Ours' # {} =>
       due # "no" \/ process = "unwinding"]_vars

\* The purchase inside the program, with the pair the watcher looks at, is a purchase
\* as DexSwap has it: a failure is final, and whatever else happens in the process
\* only stops it (main.go:22-62, 131-133).
ImplementsSwap == S!Init /\ [][S!Next]_(S!vars)

\* A program that has given its swap to the node and ends without a report was ended
\* by another goroutine, the buy trigger or the watcher with a stale reading of an
\* empty pair, or main never learnt that the node has the swap; no other failing call
\* does that (main.go:31-43, 131-132, buy_trigger.go:41, 144, price_watcher.go:86-91).
SwapNotAbandoned ==
  process \in {"fatal", "crashed"} /\ S!Ours # {} /\ pc # "report" =>
    \/ trigger \in {"down", "broken"}
    \/ watcher = "pricing" /\ reserves = <<0, 0>>
    \/ pc = "failed" /\ "replies" \in faults

\* If no call fails a program comes to an end: cmd/run by itself, the sniper once its
\* trigger has to fire; main waits for nothing else (main.go:65-134).
EndsOnceDue ==
  faults = {} /\ (run.program = "run" \/ due = "must") ~> Ended

=============================================================================
