------------------------- MODULE PriceWatcherProofs -------------------------
(* The prices the watcher publishes, for any reserves, token order and     *)
(* node, and for a reader without synchronisation.                         *)
EXTENDS PriceWatcher, TLAPS

\* Every price so far is the true ratio of reserves that were shown.
RealPrices == {TruePrice(r) : r \in shown \ {<<0, 0>>}}

\* What a call can read has been shown, and what it read still has.
ViewShown ==
  /\ latest \in shown
  /\ viewPending => pending \in shown
  /\ watcher = "pricing" => reserves \in shown

\* The goroutine runs only after the token order is known.
Ordered ==
  /\ watcher # "off" => main = "returned"
  /\ main = "returned" => sameOrder = aIsToken0

Published ==
  /\ published \subseteq RealPrices
  /\ {currentPrice, seen} \subseteq published \cup {NilPrice}

IInv == TypeOK /\ ViewShown /\ Ordered /\ Published

LEMMA PricesPairs == \A r \in Reserves : <<r[1], r[2]>> \in Prices /\ <<r[2], r[1]>> \in Prices
  BY DEF Prices

LEMMA InitIInv == Init => IInv
  BY WatcherAssumption DEF Init, IInv, TypeOK, ViewShown, Ordered, Published

LEMMA CallerKeeps == IInv /\ (CallerStep \/ CurrentPrice) => IInv'
<1>. SUFFICES ASSUME IInv, CallerStep \/ CurrentPrice PROVE IInv'
  OBVIOUS
<1>. USE DEF IInv, TypeOK, ViewShown, Ordered, Published, RealPrices, TruePrice, goVars, chainVars, params
<1>1. CASE GetPair BY <1>1 DEF GetPair, FactoryGetPair
<1>2. CASE GetToken0 BY <1>2 DEF GetToken0
<1>5. CASE GetToken1 BY <1>5 DEF GetToken1, PairToken0, PairToken1
<1>3. CASE SubscribeFails BY <1>3 DEF SubscribeFails
<1>4. CASE CurrentPrice BY <1>4 DEF CurrentPrice
<1>. QED BY <1>1, <1>2, <1>3, <1>4, <1>5 DEF CallerStep

\* What Publish stores is the true price of the reserves it read.
LEMMA PublishedIsTrue ==
  ASSUME IInv, Publish
  PROVE  currentPrice' \in RealPrices /\ currentPrice' \in Prices
<1>1. reserves \in shown /\ reserves \in Reserves
  BY DEF IInv, TypeOK, ViewShown, Publish
<1>2. reserves # <<0, 0>>
  BY DEF Publish, TokenRatioPanics
<1>3. sameOrder = aIsToken0
  BY DEF IInv, Ordered, Publish
<1>4. currentPrice' = TruePrice(reserves)
  BY <1>3 DEF Publish, Ratio, TokenRatio, TruePrice
<1>. QED
  BY <1>1, <1>2, <1>4, PricesPairs DEF RealPrices, TruePrice

LEMMA WatcherKeeps == IInv /\ WatcherStep => IInv'
<1>. SUFFICES ASSUME IInv, WatcherStep PROVE IInv'
  OBVIOUS
<1>. USE DEF goVars, chainVars, params
<1>1. CASE Publish
  <2>1. RealPrices' = RealPrices
    BY <1>1 DEF Publish, RealPrices, TruePrice
  <2>. QED
    BY <1>1, <2>1, PublishedIsTrue
    DEF Publish, IInv, TypeOK, ViewShown, Ordered, Published
<1>2. CASE GetReserves
  BY <1>2 DEF GetReserves, View, PairReserves, IInv, TypeOK, ViewShown, Ordered, Published, RealPrices, TruePrice
<1>3. CASE WatcherDone \/ CallGetReserves \/ GetReservesFails \/ PricingPanics
  BY <1>3 DEF WatcherDone, CallGetReserves, GetReservesFails, PricingPanics,
              IInv, TypeOK, ViewShown, Ordered, Published, RealPrices, TruePrice
<1>. QED BY <1>1, <1>2, <1>3 DEF WatcherStep

LEMMA EnvironmentKeeps == IInv /\ Environment => IInv'
<1>. SUFFICES ASSUME IInv, Environment PROVE IInv'
  OBVIOUS
<1>. USE DEF goVars, chainVars, params
<1>1. shown \subseteq shown' /\ UNCHANGED aIsToken0
  BY DEF Environment, PairCreated, PendingTrade, PendingDropped, NewBlock, CtxDone, ProgramEnds
<1>2. RealPrices \subseteq RealPrices'
  BY <1>1 DEF RealPrices, TruePrice
<1>. USE DEF IInv, TypeOK, ViewShown, Ordered, Published
<1>3. CASE PairCreated
  BY <1>2, <1>3 DEF PairCreated
<1>7. CASE CtxDone
  BY <1>2, <1>7 DEF CtxDone
<1>8. CASE ProgramEnds
  BY <1>2, <1>8 DEF ProgramEnds
<1>4. CASE PendingTrade
  BY <1>2, <1>4 DEF PendingTrade
<1>5. CASE PendingDropped
  BY <1>2, <1>5 DEF PendingDropped
<1>6. CASE NewBlock
  BY <1>2, <1>6 DEF NewBlock
<1>. QED BY <1>3, <1>4, <1>5, <1>6, <1>7, <1>8 DEF Environment

LEMMA StutterKeeps == IInv /\ UNCHANGED vars => IInv'
  BY DEF vars, goVars, chainVars, params, IInv, TypeOK, ViewShown, Ordered, Published, RealPrices, TruePrice

\* The inductive invariant holds of every behaviour.
THEOREM Inductive == Spec => []IInv
<1>1. IInv /\ [Next]_vars => IInv'
  BY CallerKeeps, WatcherKeeps, EnvironmentKeeps, StutterKeeps DEF Next
<1>. QED BY <1>1, InitIInv, PTL DEF Spec

\* The variables of the watcher keep their types, for any reserves.
THEOREM TypeCorrect == Spec => []TypeOK
<1>1. IInv => TypeOK
  BY DEF IInv
<1>. QED BY <1>1, Inductive, PTL

\* Every price a reader can see is the true ratio of reserves that existed together.
THEOREM PricesAreReal == Spec => []PriceWasReal
<1>1. IInv => PriceWasReal
  BY DEF IInv, Published, RealPrices, PriceWasReal
<1>. QED BY <1>1, Inductive, PTL
-----------------------------------------------------------------------------
(* The price is not held up.                                               *)

\* The goroutine runs once NewPriceWatcher has returned, and stops for a reason.
Polling ==
  /\ main = "returned" => watcher # "off"
  /\ ctx = "done" => faults \cap {"calls", "ctx"} # {}
  /\ watcher = "stopped" => faults \cap {"calls", "ctx"} # {}

\* currentPrice is the price of the reserves a call reads now, and stays it.
Follows ==
  /\ currentPrice = TruePrice(View)
  /\ watcher = "pricing" => reserves = View

\* The guards of the goroutine's steps; one that prices publishes or panics.
WatcherCanStep ==
  \/ watcher = "select" /\ ctx \in {"open", "done"}
  \/ watcher \in {"calling", "pricing"}

\* How many steps the goroutine is from publishing that price.
Behind ==
  CASE watcher = "pricing" -> IF reserves = View THEN 1 ELSE 4
    [] watcher = "select"  -> 3
    [] watcher = "calling" -> 2
    [] OTHER -> 0

LEMMA PollingStep == Polling /\ [Next]_vars => Polling'
<1>. SUFFICES ASSUME Polling, [Next]_vars PROVE Polling'
  OBVIOUS
<1>. USE DEF Polling, goVars, chainVars, params
<1>1. CASE CallerStep \/ CurrentPrice
  BY <1>1 DEF CallerStep, CurrentPrice, GetPair, GetToken0, GetToken1, SubscribeFails
<1>2. CASE WatcherStep
  BY <1>2 DEF WatcherStep, WatcherDone, CallGetReserves, GetReserves, GetReservesFails, Publish,
              PricingPanics, CallsMayFail
<1>3. CASE Environment \/ UNCHANGED vars
  BY <1>3 DEF Environment, PairCreated, PendingTrade, PendingDropped, NewBlock, CtxDone, ProgramEnds, vars
<1>. QED BY <1>1, <1>2, <1>3 DEF Next

\* A step of the goroutine while the reserves stay the same.
LEMMA WatcherComesCloser ==
  ASSUME IInv, WatcherStep, View' = View
  PROVE  /\ Follows => Follows'
         /\ Follows' \/ watcher' = "stopped" \/ ~Alive' \/ Behind' < Behind
<1>. USE DEF Follows, Behind
<1>0. aIsToken0' = aIsToken0 /\ TruePrice(View)' = TruePrice(View)
  BY DEF WatcherStep, WatcherDone, CallGetReserves, GetReserves, GetReservesFails, Publish,
         PricingPanics, chainVars, TruePrice
<1>1. CASE Publish
  <2>1. currentPrice' = TruePrice(reserves) /\ watcher' = "select" /\ watcher = "pricing"
    BY <1>1 DEF Publish, Ratio, TokenRatio, TruePrice, IInv, Ordered
  <2>2. CASE reserves = View
    BY <1>0, <2>1, <2>2
  <2>3. CASE reserves # View
    BY <2>1, <2>3
  <2>. QED BY <2>2, <2>3
<1>2. CASE GetReserves
  BY <1>0, <1>2 DEF GetReserves
<1>3. CASE CallGetReserves
  BY <1>0, <1>3 DEF CallGetReserves
<1>4. CASE WatcherDone \/ GetReservesFails
  BY <1>0, <1>4 DEF WatcherDone, GetReservesFails
<1>5. CASE PricingPanics
  <2>1. UNCHANGED <<currentPrice, watcher, reserves>> /\ ~Alive'
    BY <1>5 DEF PricingPanics, Alive, goVars
  <2>. QED BY <1>0, <2>1
<1>. QED BY <1>1, <1>2, <1>3, <1>4, <1>5 DEF WatcherStep

\* Any other step while the reserves stay the same.
LEMMA OthersDoNotDelay ==
  ASSUME main = "returned", CallerStep \/ CurrentPrice \/ Environment \/ UNCHANGED vars, View' = View
  PROVE  /\ Follows => Follows'
         /\ Behind' = Behind
<1>1. UNCHANGED <<watcher, reserves, currentPrice, aIsToken0>>
  BY DEF CallerStep, CurrentPrice, GetPair, GetToken0, GetToken1, SubscribeFails, Environment,
         PairCreated, PendingTrade, PendingDropped, NewBlock, CtxDone, ProgramEnds, vars, goVars, chainVars
<1>. QED BY <1>1 DEF Follows, Behind, TruePrice

\* A watcher that has been set up stops only because a call failed or the context ended;
\* until then it can always go on, whatever the pair and the reader do, and as long as the
\* reserves stay the same it is at most Behind of its steps from publishing their ratio,
\* which it then keeps.  What fairness adds to this is PriceFollows.
THEOREM PriceIsNotHeldUp ==
  Spec => /\ [](main = "returned" => WatcherCanStep \/ (watcher = "stopped" /\ faults \cap {"calls", "ctx"} # {}))
          /\ [][main = "returned" /\ View' = View =>
                  /\ Follows => Follows'
                  /\ ~WatcherStep => Behind' = Behind
                  /\ WatcherStep => Follows' \/ watcher' = "stopped" \/ ~Alive' \/ Behind' < Behind]_vars
<1>1. Init => Polling
  BY DEF Init, Polling
<1>2. Spec => []Polling
  BY <1>1, PollingStep, PTL DEF Spec
<1>3. IInv /\ Polling =>
        (main = "returned" => WatcherCanStep \/ (watcher = "stopped" /\ faults \cap {"calls", "ctx"} # {}))
  BY DEF IInv, TypeOK, Polling, WatcherCanStep
<1>4. IInv /\ [Next]_vars =>
        [main = "returned" /\ View' = View =>
           /\ Follows => Follows'
           /\ ~WatcherStep => Behind' = Behind
           /\ WatcherStep => Follows' \/ watcher' = "stopped" \/ ~Alive' \/ Behind' < Behind]_vars
  <2>. SUFFICES ASSUME IInv, [Next]_vars, main = "returned", View' = View
       PROVE  /\ Follows => Follows'
              /\ ~WatcherStep => Behind' = Behind
              /\ WatcherStep => Follows' \/ watcher' = "stopped" \/ ~Alive' \/ Behind' < Behind
    OBVIOUS
  <2>1. CASE WatcherStep
    BY <2>1, WatcherComesCloser
  <2>2. CASE ~WatcherStep
    BY <2>2, OthersDoNotDelay DEF Next
  <2>. QED BY <2>1, <2>2
<1>. QED BY <1>2, <1>3, <1>4, Inductive, PTL DEF Spec
=============================================================================
