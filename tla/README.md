# Verification of eth-sniper

eth-sniper waits for liquidity to be added for a target token on PancakeSwap and
then buys it. It is one Go process with a few goroutines, a node it talks to over
JSON-RPC, and a chain that neither controls. There are two programs: `cmd/main.go`
(the sniper) waits for a trigger, `cmd/run/run.go` buys at once. These modules specify
them, the TLC configurations check small instances, and the `*Proofs` modules hold
theorems checked by TLAPS.

## Inventory

| Component | Source | State | Operations |
|---|---|---|---|
| Buy trigger | `pkg/triggers/buy_trigger.go` | channels `trigger`, `txs`, the context `deadline`, two goroutines | `Set`, the select loop, `ListenForPendingTxs` |
| Transaction filter | `isTargetTransaction`, `pkg/eth/transaction.go:35-65` | none | decode sender and call data, compare with the mempool filter |
| Sell trigger | `pkg/triggers/sell_trigger.go` | channel `trigger`, context `deadline` | `Set` (its caller in `cmd/main.go:138` is commented out) |
| Price watcher | `pkg/swap/price_watcher.go` | `currentPrice` (unsynchronised), one goroutine | `NewPriceWatcher`, `subscribe`, `CurrentPrice` |
| Swap | `pkg/swap/swap.go`, `buyTokens` in `cmd/main.go` and `cmd/run/run.go` | the transaction in flight | build options, estimate and sign, send, wait until mined, report |
| Swap report | `cmd/run/run.go:114-157` | none | find the Swap log, compute amounts, price and fees |
| Amounts | `pkg/eth/token.go:74-104` | none | `ToWei`, `FromWei`, `TokenRatio` |
| Configuration | `pkg/config/config.go` | none | `FromYaml`, `parseValues`, `parseTimeStr` |
| Start-up | `cmd/main.go:65-143`, `cmd/run/run.go` | the process | configuration, dial, wallet, tokens, dex, price watcher, trigger, buy |
| Wallet, contracts, network, dex | `pkg/eth/{wallet,contract,network}.go`, `pkg/swap/dex.go` | none that changes | constructors over go-ethereum |
| Event bindings | `contracts/**.go`: Filter, Watch and Parse functions, iterators | per iterator or subscription: a buffered channel, `done`, `fail`, goroutines | `FilterX`, `Next`, `Close`, `WatchX`, `Unsubscribe`, `ParseX` |
| Call bindings | `contracts/**.go`: callers and transactors | none | one method per contract function |

Interactions. `main` reads the configuration, dials, and starts the price watcher
goroutine; the sniper then arms the buy trigger and blocks on the channel it returns.
The trigger goroutine starts the listener and selects between the deadline and the
channel `txs`; the listener receives hashes from the RPC client's subscription, fetches
each transaction and sends it on `txs`. These channels are unbuffered; the one buffer is
the RPC client's, in front of the listener. `log.Fatalf` and panics in any goroutine end
the whole process. Released, `main` builds, sends and awaits one swap. An event iterator
or subscription of the bindings is a pair of goroutines of its own around a buffered
channel.

What is hard: goroutines meet on unbuffered channels while a deadline can pass between
any two steps; the same context ends both sides of the channel `txs`; a call without a
deadline may hang; deferred calls run before a panic kills the process and are visible to
`main`; a goroutine that only watches the price can end a purchase in flight; the state
that a transaction was built for (nonce, gas price, pending liquidity) is not the state
it is mined in; replies of the node can be lost; the end of an event subscription
overtakes the logs still in its channel; a receipt's events are recognised by the shape
of their data; amounts go through floats twice.

Correctness, by component:
- buy trigger: `main` is released at most once, only for a cause (the deadline or an
  announced target transaction), and in the end if there is one; nobody waits for
  somebody who waits for him; transactions are judged in the order announced;
- filter: it accepts exactly the calls that add liquidity for the target token;
- price watcher: a published price is the ratio, in the right orientation, of reserves
  the pair really had together, and a watcher that cannot price a pair goes on polling;
- swap: a success that is reported is a swap that happened; a failure that is reported
  is a swap that did not; the funds leave the wallet at most once;
- report and amounts: the figures are those of the swap that was made, and amounts
  survive their conversion;
- configuration: the program starts with what its file says, and a mistake in it is
  contained: it does not open the filter to every sender, nor make an instant of a string
  that is none;
- the whole: nothing is sent without a cause, a swap that was sent is followed to its
  report unless another goroutine ends the process or the reply to it was lost, and the
  program comes to an end;
- event bindings: a stream hands over what was asked for, in order, without gaps, and
  says so when it is not complete; nobody stays blocked on it.

## Modules

| Module | Models | Variables and actions against the code |
|---|---|---|
| `TxFilter` | `isTargetTransaction`, `GetTxSender`, `GetTxCallData`, the filter of `parseValues`, the methods of the router | no state: one operator per check, in the order of the code; a transaction is a record of what the checks can tell apart |
| `OneShotTrigger` | the promise of a trigger | abstract: `due`, whether there is a reason that may or that must release `main`, and `status`; a trigger can break, when a panic closes its channel |
| `BuyTrigger` | `BuyTrigger.Set`, `ListenForPendingTxs` | `main`, `trig`, `lst` are the program counters of the three goroutines, `job` and `item` their variables, `trigger` and `txs` the channels, `sub` and `buffer` the RPC client's subscription, `node` how the node behaves |
| `SellTrigger` | `SellTrigger.Set` | as `BuyTrigger`, without a listener |
| `PriceWatcher` | `NewPriceWatcher`, `subscribe`, `isAtSameOrderAsPair`, `CurrentPrice`, the four binding calls they make | `main` and `watcher` are program counters, `sameOrder`, `reserves`, `currentPrice` the variables of the code; `latest` and `pending` the pair's reserves |
| `DexSwap` | `buyTokens`, `BuildTx`, `BuildTxOpts` | `pc` is at the next call to the node; `slot` and `next` are the wallet's transactions by nonce, `result` the receipt |
| `SwapReport` | the report of `cmd/run`, its price and fees included | no state: a log is the words of its data, since the code looks at nothing else |
| `Amounts` | `ToWei`, `FromWei`, `TokenRatio` | a float is a fraction with a mantissa of `Precision` bits, rounded half to even as `big.Float` does |
| `Config` | `FromYaml`, `parseValues`, `parseTimeStr` | no state: the outcome is a configuration, an error, `log.Fatalf` or a panic, whichever field comes first; an address is a sequence of bytes, and what is written for one a sequence of pairs of digits, of which some may be none |
| `Sniper` | `main` of both programs | `step` is where `main` is; the trigger is an `OneShotTrigger`, which `BuyTrigger` implements; `PriceWatcher` and `DexSwap` are instances that share the pair, the process and the faults |
| `EventLogs` | the 11 events of the bindings | which parameters are indexed; the query of a Filter or Watch call; what `UnpackLog` makes of a log |
| `LogStream` | the promise of a stream of events | abstract: `source`, `delivered`, `status` |
| `EventIterator` | `FilterX`, `Next`, `Close` and the producer goroutine | `caller` and `producer` are program counters; the channel is the window of `retrieved` between `taken` and `sent`; `done` and `fail` are fields of the iterator |
| `EventWatcher` | `WatchX` and its goroutine | `caller` and `watcher` are program counters, `inner` the subscription to the node, the channel the window of `emitted` between `taken` and `forwarded` |

`MCBuyTrigger`, `MCPriceWatcher`, `MCDexSwap`, `MCSniper` and `MCEvents` give constants
their values for TLC; `MCEvents` runs an iterator or a subscription of any event;
`MCDecoders` evaluates the four parts without state (`task`) on every input of a small
set. `TxFilterProofs`, `BuyTriggerProofs`, `PriceWatcherProofs`, `DexSwapProofs`,
`DecodersProofs`, `SniperProofs`, `EventIteratorProofs` and `EventWatcherProofs` hold the
theorems.

Conventions. A step ends where another goroutine or the node can interfere: at a channel
operation, a select, or a call to the node. A send on an unbuffered channel and the
receive it meets are one step. A call is split into sending and returning where the
context can end in between. `process` is the whole program: `log.Fatalf` sets "fatal" and
disables every action; in `BuyTrigger` a panic sets "unwinding" until `Crash`, since its
deferred `close(trigger)` is visible to `main` before the process is gone. Reads that race
(`CurrentPrice`) return any value the field has had. History variables (`announced`,
`shown`, `published`, `older`) are read by properties and by no guard, except that the
node announces a transaction once. A constant such as `FaultSets` or `NodeBehaviours` lists
the environments of a run; the initial state picks one, so that a property can say which
faults it tolerates. Operators placed directly before the definition they distort
(`ClassifyOnce`, `NonceAt`, ...) are plausible mistakes in that code; each property is known
to fail when one of them takes the definition's place. The eleven iterators and
subscriptions are generated from one template: `PROJECT.json` maps the single steps of
`EventIterator` and `EventWatcher` to the copy for `PancakePair`'s Approval, and the
definitions that stand for several steps (`TakeLog`, `IteratorStep`, `Next`, `Spec`, ...)
each to another copy.

External behaviour is modelled from how the code uses it: the RPC client buffers the
hashes of a subscription and ends it when the buffer is full; a call whose context is done
fails, one whose context ends meanwhile may do either; the context does not end an
established subscription; `WaitMined` returns only a receipt, since its context never
ends; `SuggestGasPrice` and the simulation of the swap are calls that may fail;
`FilterLogs` fetches all logs first and then feeds them to the channel; `UnpackLog` fails
on a log with another number of topics; `big.Float.Quo` panics on 0/0;
`common.HexToAddress` drops the error of the decoder, keeps the bytes decoded before it,
crops them from the left and fills up with zeros.

## Runs

| Run | Shows |
|---|---|
| `buy_trigger` | releases of `main` have a cause, are not caused by the deferred close, keep the announced order; the trigger implements `OneShotTrigger`; the deadline, and an announced target transaction, each end the wait of `main`; the deadline ends the listener. Every deadline (nil, future, past) and every node: one that answers, one that fails calls and loses connections, one that leaves calls hanging |
| `buy_trigger_late_start` | finding: a deadline that passes before the subscription ends the program with `log.Fatalf` |
| `buy_trigger_nil_tx` | finding: at the deadline the trigger may receive nil and panic |
| `decoders` | the filter accepts exactly the liquidity calls for the token and panics only on call data without a selector; a printed report is of our own swap, whatever the token emits, with the right amounts, price and gas fees, and a total cost too high by the unused gas; for a target that is token1 of its pair the program panics instead; amounts come back from their conversions within two units of the last place; the program starts with what its file says (amounts of either sign, node, chain, instants, addresses); a broken provider entry neither empties the list nor removes another entry |
| `amounts_round_trip` | finding: `ToWei` does not undo `FromWei` for every amount |
| `price_watcher` | every price a racing reader sees is a true ratio, in the right orientation, and the price settles with the reserves unless a call has failed or the context has ended |
| `price_watcher_empty_pair` | finding: a pair without liquidity crashes the program |
| `dex_swap` | one swap at most, no displaced older transaction, a clean failure unless a reply was lost, and a swap that is sent is mined unless it is evicted or displaced; under every combination of rivals, evictions, failing calls and lost replies |
| `dex_swap_reverted` | finding: a reverted swap is reported as "Sniped" |
| `sniper` | the composition, for both programs and every outcome of the configuration, with failing calls and lost replies: no swap without a cause, except while a panic of the trigger takes the process down; a sent swap is abandoned only because of another goroutine or a lost reply; the purchase implements `DexSwap`; and the program ends once its trigger has to fire |
| `events` | all 11 events, as iterator and as subscription: both implement `LogStream` and deliver exactly what the caller asked for by parameter name, what `Next` returns as well as what reaches the sink; a failed subscription shows an error; and no caller stays blocked |
| `sell_trigger_early` | finding: the sell trigger does not wait for its deadline |

Bounds, and why they are enough.
- `BuyTrigger`: the four transactions are a target, an imitation from a stranger, another
  token, and router data without a selector, one for each answer of the filter and each
  way to get it that matters to the goroutines; two buffered hashes with one in hand and
  one being classified let the buffer overflow while both goroutines are busy, and let
  order be lost if it could.
- `MCDecoders`: router, token, provider, stranger and the zero address decide every
  comparison of the filter. `MCTokenLogs` has events of the token of one, four and five
  words, before which and between which nothing else matters. Amounts: with `Precision` 5
  and `Unit` 100 the 261 amounts up to `MaxAmount` (a file pays those of `FileAmounts`, a
  negative one and zero among them) cross three binades above 2^`Precision`, so that both
  the exact range and every kind of rounding occur; 5 bits stand for the 64 of the code, and
  a unit that is no power of two for 10^18. An address has `AddressLength` 2 bytes and an
  entry up to three pairs of digits, broken ones among them: shorter, as long and longer.
  The files vary one concern at a time (node and amounts, instants, one address, the
  providers), since no two of them are read together.
- `PriceWatcher`: an empty pair, two ratios that differ from each other's inverse
  orientation, and a pair with one reserve drained.
- `DexSwap`: three nonces allow a rival before, at and after ours; rivals leave the last
  nonce to the program (a bound, named in `RivalSends`); a clock of 0..3 with an expiry of
  1 lets the deadline pass at every step.
- `Sniper`: two nonces and two states of the reserves; a pair that is not empty has both
  of its tokens (a bound, named in `SniperAssumption`). Rivals and evictions are left
  to `DexSwap`: `ImplementsSwap` ties the two.
- `MCEvents`: two logs and a channel that holds one make the producer block, the end of
  the subscription race a log in the channel, and a bad log follow a good one; two
  addresses, one of them in a list, tell a rule at the wrong position apart. `Calls` is
  every Filter or Watch function of the bindings with every choice of those `Lists`
  (`FilterCalls`, `WatchCalls`).

Fairness. In `BuyTrigger` the steps of each goroutine are weakly fair (the Go scheduler
runs whatever can run), and the deadline case of the select is strongly fair: a select
chooses among its ready cases at random, so a case that stays ready again and again is
taken. A call returns if its context is done or the node does not hang; `NetworkID` is
called with `context.Background()` (`transaction.go:36`), so on a node that hangs nothing
makes it return, and `DeadlineEndsTheWait` says that this is the only way to miss the
deadline. The node is not obliged to announce anything, connections need not break and the
deadline need not pass. `PriceWatcher` is fair to its two goroutines, `DexSwap` to the
program and to mining of the next transaction that can be mined. `Sniper` adds that a
trigger that must fire does, but only when no call can fail, which is what
`AnnouncedTargetReleases` and `DeadlineEndsTheWait` show of `BuyTrigger`: the deadline, or a
target transaction whose sender the filter can recover. A reason that only may release
`main`, a typed transaction that adds liquidity, promises nothing. A panic under way ends
the process. In `EventIterator` the producer and a call of `Next` or `Close` under way are
fair, in `EventWatcher` the goroutine and an `Unsubscribe` under way; the goroutine takes a
quit that stays ready, since a select chooses among its ready cases at random. The caller
need not call or receive, nor the node emit or the RPC client forward.

Deadlock is not checked: all these programs end, and a stream may be left alone.

## Proofs

TLC checks the instances above; TLAPS proves the following for all values of the constants,
from the `ASSUME`s of the modules (addresses and prices are distinct from nil, the
transactions are well-formed records, the calls are those of the bindings, the bounds are
naturals). Every invariant and every action property of a passing run is among them, and
every refinement.

- `FilterExact`: by cases on the method, from the fact that the arguments of decoded data
  are a function on that method's parameters (`DecodedArgs`): a field name of another
  method cannot match.
- `BuyTriggerProofs`. None of the safety properties is inductive: that `main` was released
  for a cause needs that the goroutine about to fire has one, which needs that the
  transaction it classified was announced, hence the one being sent, fetched or buffered.
  `IInv` is `TypeOK` with `Provenance` (whatever is in hand was announced), `Closing` (only
  the deadline closes `txs`) and `Release` (who is at `fire()`, and why). From it follow
  `FiresOnlyWhenDue` (through `FilterExact`), `ClosedOnlyByPanic`,
  `NilTxOnlyAfterDeadline`, `ParkedListenerIsHarmless`, and `ImplementsOneShot`, by a step
  simulation in which a step is a release, the end of the program, a new cause, or a
  stutter. `InOrder` needs the order by positions: `Positions` says which announcement
  each buffered, held or classified transaction is, and `Starting` that no announcement
  comes before the subscription.
- `PriceWatcherProofs`: `IInv` adds that reserves in hand were shown, that the goroutine
  runs only once the order is known, and that all published prices are true ones.
- `DexSwapProofs`: `IInv` adds that the node has our swap only after the send and at the
  nonce it was built with, and that this nonce is free of older transactions.
- `DecodersProofs`: a behaviour evaluates one input, so the invariant (`Answered`) is that
  the verdict is the value of the operator; the properties are lemmas about operators.
  `TargetExact` is `FilterExact`. For the report, `LastSwapWins` shows that the loop over
  the logs keeps the last one that unpacks, and `ReportsOwnSwap` that this is the pair's
  own Swap event whatever sequence of events of the token stands before it; the price is a
  `TokenRatio`, so its bound is `RatioIsAccurate`. For the configuration, `AddressIsKept`
  shows that an address written as it should be comes through `HexToAddress` unchanged, of
  any length; a broken one becomes some address, so it counts as one entry at most.
  `AmountsAreKept` and `StartsWithItsFile` are error bounds for floats of any precision and
  any unit. `Pow2` is a recursive function, so what holds of every power of two is shown by
  least counterexample. Then every positive fraction has an exponent that puts its mantissa
  between 2^(`Precision` - 1) and 2^`Precision`; rounding there is off by half a unit of
  the last place at most; `FromWei` and `ToWei` each round once, and the truncation to a
  whole number of wei loses less than one. An amount that the mantissa holds is off by one
  wei at most. The quotient, multiplied back, misses the amount by strictly less than one
  part in 2^`Precision` (`CloseTo`): just below a power of two, where the spacing of the
  floats halves, only the strictness keeps the result within two units. `RatioIsAccurate` bounds the error of a price in the
  same way; it is the reason why `PriceWatcher` may keep a price as the pair of amounts it
  was computed from.
- `SniperProofs`: `IInv` relates `step` to the purchase (nothing is built before `step` is
  "buy", which the sniper reaches only with a cause or through a closed channel, `InStep`),
  keeps our swap at its nonce and a mined result final (`Placed`), and carries
  `SwapNotAbandoned`, which says how the process may have ended. From it follow
  `NoSwapBeforeDue` and `SwapNotAbandoned`. `RefinesSwap` maps every step of the composition
  to a step of `DexSwap` or a stutter; a change of the pair's reserves maps to a change of
  its liquidity, for which the pair must not skip the pending state. `FundsLeaveOnce` has
  the promises of `DexSwap` for the programs themselves, with the same exception: a lost
  reply. `PricesAreRealInside` carries the invariant of `PriceWatcherProofs` through the
  composition: every step is one of the watcher or of its pair, or ends the process, and
  `IInv` does not depend on how.
- `EventIteratorProofs`: `IInv` adds that every log received is delivered in its place
  (`InPlace`), that a producer that ends by itself has sent everything (`Drained`), and
  that `Next` returns false only then (`FalseMeansOver`); this is what keeps the end of
  the subscription from overtaking the logs. `IteratorStreams` is the step simulation of
  `LogStream`. `CallersGetWhatTheyWant` has two halves. Every binding puts the rule of each
  indexed parameter at the position of its topic and an empty rule where the caller gave
  none (`Named`, by cases over the eleven), and its Watch function does the same
  (`SameCalls`); a log that was retrieved, or emitted for a
  subscription, satisfies the query (`Wanted`, one in each module), and so does what
  `UnpackLog` makes of it, by name. `MCEvents` runs an iterator or a subscription;
  `WProofs` gives `EventWatcherProofs` the variables of the latter, so that its theorems
  hold there too (`SubscriptionsStream`).
- `EventWatcherProofs`: `IInv` adds that the event on offer is the next after those
  delivered, and that the goroutine and the inner subscription end together. From it
  follows the simulation of `LogStream` (`WatcherStreams`).

Liveness. Fairness and ENABLED are out of the prover's reach, so these stay with TLC:
`DeadlineEndsTheWait`, `AnnouncedTargetReleases`, `ListenerWindsDown`, `PriceFollows`,
`SwapSettles`, `EndsOnceDue`, `CallsReturn`, `UnsubscribeEnds` and `FailureIsShown`. What
makes them true is safety, and is proved: that somebody can always go on, with the guards
of the steps written out in place of ENABLED, and, where there is one, a measure that every
step towards the end decreases and no other step increases. Fairness adds only that what
can happen does.

| Liveness, by TLC | Its safety part, by TLAPS | What it rests on |
|---|---|---|
| `DeadlineEndsTheWait` | `NoCircularWait` | `Standing`: a goroutine that waits for another waits for one that can go on, or for the node. No measure: the select may classify any number of transactions first, which is why the property needs strong fairness |
| `ListenerWindsDown` | `ListenerCanEnd` | the same |
| `AnnouncedTargetReleases` | `NoTargetIsLost`, `TargetComesCloser` | `Kept`: an announced target is in the buffer, in hand or on offer until it is classified; the measure `Progress` counts the steps of both goroutines by the announcements handled, so that what is announced behind the target does not matter |
| `PriceFollows` | `PriceIsNotHeldUp` | `Polling`, and the measure `Behind`: a reading under way may be stale, the next is not |
| `SwapSettles` | `SwapIsNotHeldUp` | `InLine`: no gap among the nonces before ours; the measure `Blocks` |
| `EndsOnceDue` | `MainIsNotHeldUp` | `Alone`: without rivals the swap has the first nonce; `Waiting`; the measure `StepsLeft` |
| `CallsReturn` | `NobodyWaitsForTheOther` | `Started`; the measure `StepsLeft`: when the producer is blocked the call can drain or receive |
| `UnsubscribeEnds` | `UnsubscribeIsNotBlocked` | `Told`; the measure `ToQuit`: quit stays ready, and only taking it lowers the measure, so a caller that goes on receiving needs the fair choice of the select |
| `FailureIsShown` | `FailureIsNotHeldUp` | `Told`, which also says that a goroutine that is over has an error unless it was told to quit; the measure `ToFail` |

## Findings

The six violated runs are disagreements between the code and what its own messages and
tests say; `PROJECT.json` quotes them. Others met on the way, without a run of their own:

- A purchase of a target that is token1 of its pair succeeds and crashes the program instead
  of being reported as "Bought ...": `run.go:126-127` reads the amounts of the other
  direction, both are zero, and `TokenRatio` divides zero by zero. `ReportExactOrNone` says
  that this happens for every such target.
- "Total cost" and "Total fees" (`run.go:148-149`) are too high by the price of the gas that was
  not used, since `tx.Cost()` goes by the gas limit, and what is printed as "Dex fees" is that
  price and no fee; the fees of the exchange are in the price. `ReportExactOrNone` has the
  exact figures.
- A reply of `SendTransaction` that is lost makes the program report "Failed to buy tokens"
  while the swap may still be mined; `FailureIsClean` holds only with that exception.
- `cmd/main.go:44-45` never fills the amounts it prints: the sniper always reports zero
  tokens bought and a price of zero.
- `token_test.go:60-113` expects exact conversions. With the 64 bits of the code the
  smallest amount that does not come back is 7 wei, which comes back as 6; of amounts drawn
  at random about one in twenty loses a wei. `AmountsAreClose` says how far off an amount
  can be.
- After a panic in the trigger goroutine the deferred `close(trigger)` (`buy_trigger.go:41`)
  releases `main`, which goes on to buy without a cause until the runtime has exited. The
  window is short, but nothing in the code closes it; `NoSwapBeforeDue` and
  `ClosedOnlyByPanic` name it as their exception.
- A typo in an address of the configuration gives some other address and no error. For a
  liquidity provider that is a sender nobody wrote down (`MistakesAreContained` bounds how
  many), for a token or contract one that fails later, if at all.
- Typed transactions (EIP-1559, EIP-2930) that add liquidity are passed over: their sender is
  not recovered (`TargetExact`). If all are of that kind the sniper waits for its deadline.
- The sniper cannot wait for the first liquidity of a pair: without a pair
  `NewPriceWatcher` fails, with an empty one the watcher panics. In `Sniper` a purchase
  happens only if the pair has reserves before the watcher's first reading.
- The watcher publishes target tokens per input token, the inverse of the price that
  `run.go:132` calls the buy price.

## Not modelled

- The Parse functions of the bindings: one call of `UnpackLog`, which `Next` and the
  subscriptions make as well, and no state.
- The two prices of the configuration beyond their parsing: nothing reads them.
- `SendTx` (`pkg/eth/transaction.go:15`), `ExactTokensForEth` and `PrintBalanceAt` have no
  caller.
- The remaining call and transaction wrappers of the bindings: one line each around the
  same two functions of go-ethereum, without control of their own. Those the program
  calls, and the router's methods as the filter sees them, are modelled.
- Logging and formatting, the command-line arguments, the decoding of YAML itself.
- `TokenRatio` has an error result that can never be set, so the branch for it in the
  watcher has no action.
- Chain reorganisations: a receipt is final, and a log is never removed.

## Plan

The parts of the program that keep state or decide anything are modelled, every safety
property that a run checks is proved, and every liveness property has its safety part
proved. What could be added: the promises of `PriceWatcher` about progress, which hold in
`Sniper` too, and the sell trigger once the program has a caller for it.
