---------------------------- MODULE PriceWatcher ----------------------------
(***************************************************************************)
(* The price watcher (pkg/swap/price_watcher.go): NewPriceWatcher looks up *)
(* the pair and the order of its tokens in the calling goroutine, then a   *)
(* goroutine polls the reserves of the pair and publishes their ratio in   *)
(* currentPrice, which CurrentPrice reads without synchronisation.         *)
(*                                                                         *)
(* A price is kept as the two amounts TokenRatio divides.  The pair, its   *)
(* reserves in the latest and in the pending block, and the node are the   *)
(* environment.                                                            *)
(***************************************************************************)
EXTENDS Naturals

CONSTANTS
  Reserves,     \* what <<reserve0, reserve1>> of the pair may be
  NilPrice,     \* a nil *big.Float
  FaultSets     \* what may go wrong in a run: "calls" to the node fail, the
                \* caller's "ctx" ends (never in this program); others do not matter here

ASSUME WatcherAssumption ==
  /\ Reserves \subseteq Nat \X Nat
  /\ <<0, 0>> \in Reserves
  /\ NilPrice \notin Nat \X Nat

VARIABLES
  process,       \* "running"; "unwinding" (another goroutine panics, this one runs on);
                 \* "fatal" (log.Fatalf), "crashed" (panic), or "exited" (main is over)
  ctx,           \* "open" or "done"
  main,          \* the caller: "getPair", "getToken0", "getToken1", "returned"
  pairAddr,      \* what GetPair returned: "none" yet, "zero" or "pair"
  sameOrder,     \* tokenA is token0 of the pair, as the watcher found
  watcher,       \* the goroutine: "off", "select", "calling", "pricing", "stopped"
  reserves,      \* its variable of that name
  currentPrice,  \* p.currentPrice
  seen,          \* what the last CurrentPrice() returned
  created,       \* the pair exists in the latest block
  aIsToken0,     \* tokenA has the lower address of the two
  latest,        \* the reserves in the latest block
  pending,       \* the reserves in the pending block
  shown,         \* every state of the reserves that calls could have read
  published,     \* every price that has been in currentPrice
  viewPending,   \* the parameter pending: TRUE in cmd/main.go, FALSE in cmd/run
  faults         \* what may go wrong in this run

goVars    == <<ctx, main, pairAddr, sameOrder, watcher, reserves, currentPrice, published>>
chainVars == <<created, aIsToken0, latest, pending, shown>>
params    == <<viewPending, faults>>
vars == <<process, goVars, seen, chainVars, params>>

Alive == process \in {"running", "unwinding"}

\* What calls of the generated bindings answer, in the block they ask for.
FactoryGetPair == IF created THEN "pair" ELSE "zero"

PairToken0 == IF aIsToken0 THEN "A" ELSE "B"

PairToken1 == IF aIsToken0 THEN "B" ELSE "A"

PairReserves(isPending) == IF isPending THEN pending ELSE latest

\* The reserves the watcher's calls read.
View == PairReserves(viewPending)

CallsMayFail == "calls" \in faults \/ ctx = "done"

Init ==
  /\ process = "running" /\ ctx = "open"
  /\ main = "getPair" /\ pairAddr = "none" /\ sameOrder = FALSE
  /\ watcher = "off" /\ reserves = <<0, 0>>
  /\ currentPrice = NilPrice /\ seen = NilPrice /\ published = {}
  /\ created \in BOOLEAN /\ aIsToken0 \in BOOLEAN
  /\ latest = <<0, 0>> /\ pending = <<0, 0>> /\ shown = {<<0, 0>>}
  /\ viewPending \in BOOLEAN /\ faults \in FaultSets

-----------------------------------------------------------------------------
(* eth.TokenRatio: big.Float.Quo panics on 0/0; x/0 is +Inf.  Its error is *)
(* never set: the decimal text of an integer always parses.                *)

TokenRatioPanics(amount0, amount1) == amount0 = 0 /\ amount1 = 0

TokenRatio(amount0, amount1) == <<amount0, amount1>>

RatioAlwaysInPairOrder(r) == TokenRatio(r[1], r[2])

\* The price the watcher computes from reserves r.
Ratio(r) == IF sameOrder THEN TokenRatio(r[1], r[2]) ELSE TokenRatio(r[2], r[1])

-----------------------------------------------------------------------------
(* subscribe, in the goroutine that calls NewPriceWatcher.                 *)

\* Factory.GetPair answers the zero address when there is no pair.
GetPair ==
  /\ Alive /\ main = "getPair"
  /\ pairAddr' = FactoryGetPair
  /\ main' = "getToken0"
  /\ UNCHANGED <<process, ctx, sameOrder, watcher, reserves, currentPrice, published, seen, chainVars, params>>

\* isAtSameOrderAsPair asks the pair for its tokens, ...
GetToken0 ==
  /\ Alive /\ main = "getToken0" /\ pairAddr = "pair"
  /\ main' = "getToken1"
  /\ UNCHANGED <<process, ctx, pairAddr, sameOrder, watcher, reserves, currentPrice, published, seen, chainVars, params>>

\* ... compares them with the caller's, and the goroutine starts.  The factory keeps
\* a pair under its own two tokens only: the third outcome does not arise.
GetToken1 ==
  /\ Alive /\ main = "getToken1"
  /\ sameOrder' = (PairToken0 = "A" /\ PairToken1 = "B")
  /\ main' = "returned" /\ watcher' = "select"
  /\ UNCHANGED <<process, ctx, pairAddr, reserves, currentPrice, published, seen, chainVars, params>>

\* A call fails, or Token0 is asked of an address without code: NewPriceWatcher
\* returns the error and main ends with log.Fatalf.
SubscribeFails ==
  /\ Alive
  /\ \/ main \in {"getPair", "getToken0", "getToken1"} /\ CallsMayFail
     \/ main = "getToken0" /\ pairAddr = "zero"
  /\ process' = "fatal"
  /\ UNCHANGED <<goVars, seen, chainVars, params>>

\* CurrentPrice(), called by whoever has the watcher.  The read races with the
\* goroutine's write: it returns any value the field has had.
CurrentPrice ==
  /\ Alive /\ main = "returned"
  /\ seen' \in published \cup {NilPrice}
  /\ UNCHANGED <<process, goVars, chainVars, params>>

-----------------------------------------------------------------------------
(* The goroutine.                                                          *)

\* case <-ctx.Done()
WatcherDone ==
  /\ Alive /\ watcher = "select" /\ ctx = "done"
  /\ watcher' = "stopped"
  /\ UNCHANGED <<process, ctx, main, pairAddr, sameOrder, reserves, currentPrice, published, seen, chainVars, params>>

\* default: taken only when ctx is not done
CallGetReserves ==
  /\ Alive /\ watcher = "select" /\ ctx = "open"
  /\ watcher' = "calling"
  /\ UNCHANGED <<process, ctx, main, pairAddr, sameOrder, reserves, currentPrice, published, seen, chainVars, params>>

GetReserves ==
  /\ Alive /\ watcher = "calling"
  /\ reserves' = View /\ watcher' = "pricing"
  /\ UNCHANGED <<process, ctx, main, pairAddr, sameOrder, currentPrice, published, seen, chainVars, params>>

ErrorIgnored ==
  /\ Alive /\ watcher = "calling" /\ CallsMayFail
  /\ reserves' = NilPrice /\ watcher' = "pricing"
  /\ UNCHANGED <<process, ctx, main, pairAddr, sameOrder, currentPrice, published, seen, chainVars, params>>

\* An error is logged and the goroutine returns for good.
GetReservesFails ==
  /\ Alive /\ watcher = "calling" /\ CallsMayFail
  /\ watcher' = "stopped"
  /\ UNCHANGED <<process, ctx, main, pairAddr, sameOrder, reserves, currentPrice, published, seen, chainVars, params>>

PublishOnce ==
  /\ Alive /\ watcher = "pricing" /\ ~TokenRatioPanics(reserves[1], reserves[2])
  /\ currentPrice' = IF currentPrice = NilPrice THEN Ratio(reserves) ELSE currentPrice
  /\ published' = published \cup {currentPrice'}
  /\ watcher' = "select"
  /\ UNCHANGED <<process, ctx, main, pairAddr, sameOrder, reserves, seen, chainVars, params>>

\* p.currentPrice = price, and the loop goes on.
Publish ==
  /\ Alive /\ watcher = "pricing" /\ ~TokenRatioPanics(reserves[1], reserves[2])
  /\ currentPrice' = Ratio(reserves)
  /\ published' = published \cup {currentPrice'}
  /\ watcher' = "select"
  /\ UNCHANGED <<process, ctx, main, pairAddr, sameOrder, reserves, seen, chainVars, params>>

\* The pair is empty: TokenRatio panics and takes the program down.
PricingPanics ==
  /\ Alive /\ watcher = "pricing" /\ TokenRatioPanics(reserves[1], reserves[2])
  /\ process' = "crashed"
  /\ UNCHANGED <<goVars, seen, chainVars, params>>

-----------------------------------------------------------------------------
(* The chain and the caller's context.                                     *)

PairCreated ==
  /\ Alive /\ ~created /\ created' = TRUE
  /\ UNCHANGED <<process, goVars, seen, aIsToken0, latest, pending, shown, params>>

\* A transaction in the pending block changes the reserves: a mint, a swap, a
\* burn or a sync.  No pair that had reserves loses all of both.
PendingTrade ==
  /\ Alive /\ created
  /\ pending' \in Reserves \ {<<0, 0>>}
  /\ shown' = IF viewPending THEN shown \cup {pending'} ELSE shown
  /\ UNCHANGED <<process, goVars, seen, created, aIsToken0, latest, params>>

\* The pending transactions are replaced or dropped.
PendingDropped ==
  /\ Alive /\ pending' = latest
  /\ UNCHANGED <<process, goVars, seen, created, aIsToken0, latest, shown, params>>

NewBlock ==
  /\ Alive /\ latest' = pending
  /\ shown' = shown \cup {pending}
  /\ UNCHANGED <<process, goVars, seen, created, aIsToken0, pending, params>>

CtxDone ==
  /\ Alive /\ "ctx" \in faults /\ ctx = "open"
  /\ ctx' = "done"
  /\ UNCHANGED <<process, main, pairAddr, sameOrder, watcher, reserves, currentPrice, published, seen, chainVars, params>>

\* Another goroutine ends the program: main returns, or the listener is fatal.
ProgramEnds ==
  /\ Alive /\ main = "returned"
  /\ process' = "exited"
  /\ UNCHANGED <<goVars, seen, chainVars, params>>

-----------------------------------------------------------------------------
CallerStep == GetPair \/ GetToken0 \/ GetToken1 \/ SubscribeFails

WatcherStep ==
  WatcherDone \/ CallGetReserves \/ GetReserves \/ GetReservesFails \/ Publish \/ PricingPanics

Environment == PairCreated \/ PendingTrade \/ PendingDropped \/ NewBlock \/ CtxDone \/ ProgramEnds

Next == CallerStep \/ CurrentPrice \/ WatcherStep \/ Environment

\* Both goroutines run on and every call to the node returns.
Fairness == WF_vars(CallerStep) /\ WF_vars(WatcherStep)

Spec == Init /\ [][Next]_vars /\ Fairness

-----------------------------------------------------------------------------
(* Properties.                                                             *)

Prices == {<<r[1], r[2]>> : r \in Reserves} \cup {<<r[2], r[1]>> : r \in Reserves}

\* The variables range over the values their comments list.
TypeOK ==
  /\ process \in {"running", "unwinding", "fatal", "crashed", "exited"}
  /\ ctx \in {"open", "done"}
  /\ main \in {"getPair", "getToken0", "getToken1", "returned"}
  /\ pairAddr \in {"none", "zero", "pair"}
  /\ sameOrder \in BOOLEAN
  /\ watcher \in {"off", "select", "calling", "pricing", "stopped"}
  /\ reserves \in Reserves
  /\ currentPrice \in Prices \cup {NilPrice}
  /\ seen \in Prices \cup {NilPrice}
  /\ created \in BOOLEAN /\ aIsToken0 \in BOOLEAN
  /\ latest \in Reserves /\ pending \in Reserves
  /\ shown \subseteq Reserves /\ published \subseteq Prices
  /\ viewPending \in BOOLEAN /\ faults \in FaultSets

\* The reserve of tokenA over the reserve of tokenB, by the addresses of the tokens.
TruePrice(r) == IF aIsToken0 THEN <<r[1], r[2]>> ELSE <<r[2], r[1]>>

\* A price that a caller reads, however late, is the ratio of tokenA to tokenB, not
\* the other way round, of two reserves the pair showed at the same time and that
\* were not both zero (price_watcher.go:86-96, 118-123).
PriceWasReal ==
  \A p \in {currentPrice, seen} \ {NilPrice} :
    \E r \in shown \ {<<0, 0>>} : p = TruePrice(r)

\* When the reserves stay the same, currentPrice ends at their ratio, unless the
\* program has ended; only a failed call or the end of the context may stop the
\* watcher and leave a stale price behind (price_watcher.go:75-97).
PriceFollows ==
  \A r \in Reserves :
    <>[](View = r /\ main = "returned")
      => <>[](\/ currentPrice = TruePrice(r)
              \/ watcher = "stopped" /\ faults \cap {"calls", "ctx"} # {}
              \/ ~Alive)

-----------------------------------------------------------------------------
(* A statement of the program that it does not keep.                       *)

\* "Failed to determine token price" ... continue (price_watcher.go:92-95): a pair
\* that has no price yet does not end the program.
UnpricedPairIsNotFatal == process # "crashed"
=============================================================================
