------------------------------ MODULE MCDecoders ------------------------------
(* The computations of the program that keep no state, each input once:    *)
(* the classification of a transaction, the report of a purchase, the      *)
(* conversion of amounts, and the configuration file.                      *)
EXTENDS TxFilter, Config, SwapReport

CONSTANTS
  Router, Token, Provider, Stranger,
  Entries,       \* the addresses written in the configuration files
  FileAmounts    \* the amounts written there

ASSUME DecodersAssumption ==
  /\ NilTx \notin Transaction
  /\ Entries \subseteq Seq(0 .. 255 \cup {BadPair}) /\ Entries # {}
  /\ FileAmounts \subseteq -MaxAmount .. MaxAmount
  /\ 2 <= MaxAmount /\ 3 <= Precision

MCAddress == {Router, Token, Provider, Stranger}

\* Up to three pairs: short, long and broken addresses among them.
MCEntries == UNION {[1 .. n -> {1, 2, BadPair}] : n \in 0 .. 3}

MCFileAmounts == {-40, 0, 1, 40, 250}

VARIABLES task, input, verdict

MCTransactions == [tx : Transaction, networkUp : BOOLEAN]

\* Up to two logs of the target token, of one, four or five words.
MCTokenLogs ==
  LET Logs == {<<7>>, <<1, 2, 3, 4>>, <<0, 0, 0, 0>>, <<5, 0, 0, 6, 1>>}
  IN UNION {[1 .. n -> Logs] : n \in 0 .. 2}

MCPurchases ==
  [value : 1 .. 2, bought : 1 .. 2, gasPrice : 0 .. 2, gas : 2 .. 3, gasUsed : 1 .. 2,
   targetIsToken0 : BOOLEAN, reverted : BOOLEAN, ofToken : MCTokenLogs]

Urls == {<<"host">>, <<"http", "host">>, <<"http", "host", "path">>}

ProviderLists == UNION {[1 .. n -> Entries] : n \in 0 .. 2}

SomeEntry == CHOOSE str \in Entries : TRUE

PlainFile ==
  [url |-> <<"http", "host">>, login |-> FALSE, chainID |-> 56,
   addresses |-> [f \in AddressFields |-> SomeEntry],
   buyAmount |-> Inf, priceIsNaN |-> FALSE, deadline |-> Unparsable,
   liquidityProviders |-> <<>>, sellDeadline |-> Unparsable]

\* The files that differ from a plain one in the fields about the node and the amounts, in
\* the instants, in one address, or in the providers.
NodeFile(url, login, amount, isNaN) ==
  [PlainFile EXCEPT !.url = url, !.login = login, !.buyAmount = amount, !.priceIsNaN = isNaN]

InstantFile(amount, id, buy, sell) ==
  [PlainFile EXCEPT !.buyAmount = amount, !.chainID = id, !.deadline = buy, !.sellDeadline = sell]

AddressFile(amount, field, str) ==
  [PlainFile EXCEPT !.buyAmount = amount, !.addresses[field] = str]

ProviderFile(amount, list) ==
  [PlainFile EXCEPT !.buyAmount = amount, !.liquidityProviders = list]

MCRaws ==
  LET instants == Instants \cup {Unparsable}
  IN      {NodeFile(u, l, a, p) :
             u \in Urls, l \in BOOLEAN, a \in FileAmounts \cup {Inf, NaN}, p \in BOOLEAN}
     \cup {InstantFile(a, i, b, s) :
             a \in FileAmounts, i \in {1, 56}, b \in instants, s \in instants}
     \cup {AddressFile(a, f, str) : a \in FileAmounts, f \in AddressFields, str \in Entries}
     \cup {ProviderFile(a, l) : a \in FileAmounts, l \in ProviderLists}

MCFiles ==
  [kind : {"unreadable", "not yaml"}] \cup [kind : {"yaml"}, raw : MCRaws]

Init ==
  /\ verdict = <<>>
  /\ \/ task = "classify" /\ input \in MCTransactions
     \/ task = "report"   /\ input \in MCPurchases
     \/ task = "amount"   /\ input \in 0 .. MaxAmount
     \/ task = "config"   /\ input \in MCFiles

Logs ==
  IF input.reverted THEN <<>>
  ELSE SuccessLogs(input.value, input.bought, input.targetIsToken0, input.ofToken)

Classify ==
  /\ task = "classify"
  /\ verdict' = <<isTargetTransaction(input.tx, input.networkUp)>>

ReportPurchase ==
  /\ task = "report"
  /\ verdict' = <<Report([value |-> input.value, gasPrice |-> input.gasPrice, gas |-> input.gas],
                         [logs |-> Logs, gasUsed |-> input.gasUsed])>>

Convert ==
  /\ task = "amount"
  /\ verdict' = <<ToWei(FromWei(input, Unit), Unit), InTokenBuyAmount(input)>>

Configure ==
  /\ task = "config"
  /\ verdict' = FromYaml(input)

Next ==
  /\ verdict = <<>>
  /\ Classify \/ ReportPurchase \/ Convert \/ Configure
  /\ UNCHANGED <<task, input>>

Spec == Init /\ [][Next]_<<task, input, verdict>>

Done(t) == task = t /\ verdict # <<>>

\* The filter finds exactly the transactions it is there to find, as far as the
\* sender can be recovered (buy_trigger.go:64-102): the methods and the field
\* names, matched apart, never accept a call that does not add liquidity for the
\* target token, and the typed transactions it misses are the only ones it misses.
TargetExact ==
  Done("classify") =>
    (verdict = <<"target">> <=> /\ AddsTargetLiquidity(input.tx)
                                /\ input.networkUp
                                /\ input.tx.signature \in {"eip155", "homestead"})

\* callData[:4] is out of range only for a call of an accepted sender to the
\* router that carries less than a selector (transaction.go:54).
PanicsOnlyOnShortCalls ==
  Done("classify") /\ verdict = <<"panic">> =>
    /\ input.tx.to = RouterAddress /\ input.tx.data.method = "short"
    /\ input.tx.from \in LiquidityProviders \/ LiquidityProviders = {}

\* The float is the ratio of the amounts, within four parts in 2 ^ Precision.
IsRatio(float, amount0, amount1) ==
  LET n == float[1] * amount1
      d == float[2] * amount0
  IN Pow2[Precision] * (n - d) <= 4 * d /\ Pow2[Precision] * (d - n) <= 4 * d

\* A report that is printed is of our own swap, whatever other events of four words the
\* receipt holds: its amounts, price and gas fees are those of the trade.  What it calls the
\* total cost is not what the wallet has paid, but more by what it calls the dex fees, and
\* these are no fees of the exchange but the price of the gas that was not used: tx.Cost()
\* goes by the gas limit.  Nothing is printed of a reverted swap, nor of a successful
\* purchase of a target that is token1 of its pair: the program panics (run.go:114-158).
ReportExactOrNone ==
  Done("report") =>
    IF input.targetIsToken0 /\ ~input.reverted
    THEN LET report == verdict[1]
             gasPaid == input.gasPrice * input.gasUsed
         IN /\ report.tokensBought = input.bought /\ report.tokensSpent = input.value
            /\ IsRatio(report.buyPrice, input.value, input.bought)
            /\ report.gasFees = gasPaid
            /\ report.dexFees = input.gasPrice * (input.gas - input.gasUsed)
            /\ report.totalCost = input.value + gasPaid + report.dexFees
    ELSE verdict = <<<<>>>>

\* An amount that goes through FromWei and ToWei, or that is written in the
\* configuration, is off by two units of the last place at most; below half of
\* 2 ^ Precision wei it loses at most one wei and never gains one (token.go:74-91,
\* config.go:92).
AmountsAreClose ==
  Done("amount") =>
    \A back \in ToSet(verdict) :
      /\ back \in input - 2 * Ulp(input) .. input + 2 * Ulp(input)
      /\ input < Pow2[Precision - 1] => back \in {input - 1, input}

\* A mistake in the file is contained: a provider list with broken entries does not
\* become the empty list, which lets every sender through, nor does it lose its good
\* entries or let more senders in than it has entries; an instant that does not parse
\* never comes (config.go:101-121, buy_trigger.go:73-82).  Which sender a broken entry
\* lets in is left open.
MistakesAreContained ==
  Done("config") /\ verdict[1] = "config" =>
    LET written == ToSet(input.raw.liquidityProviders)
    IN /\ verdict[2].From = {} <=> written = {}
       /\ \A str \in written : IsAddress(str) => str \in verdict[2].From
       /\ Cardinality(verdict[2].From) <= Cardinality(written)
       /\ input.raw.deadline = Unparsable => verdict[2].Deadline = Never
       /\ input.raw.sellDeadline = Unparsable => verdict[2].SellDeadline = Never

\* The program that starts does what its file says: it buys for the amount written, of
\* either sign, on the node and chain written, at the instants written, and with each
\* contract and token that is written as an address should be; an amount that is no
\* number, or a URL without "://", ends it (config.go:80-121).
StartsAsWritten ==
  Done("config") /\ verdict[1] = "config" =>
    LET raw    == input.raw
        config == verdict[2]
        wei    == raw.buyAmount
        ulp    == Ulp(IF wei < 0 THEN -wei ELSE wei)
    IN /\ wei \notin {Inf, NaN}
       /\ config.InTokenBuyAmount \in wei - 2 * ulp .. wei + 2 * ulp
       /\ config.RpcUrl.rest = "host" /\ config.RpcUrl.auth = raw.login
       /\ config.ChainID = raw.chainID
       /\ \A f \in AddressFields :
            IsAddress(raw.addresses[f]) => config.Addresses[f] = raw.addresses[f]
       /\ raw.deadline # Unparsable => config.Deadline = raw.deadline
       /\ raw.sellDeadline # Unparsable => config.SellDeadline = raw.sellDeadline

-----------------------------------------------------------------------------
(* A statement of the program that it does not keep.                       *)

\* assert.Equal(t, wei.String(), reconverted.String(), ...) (token_test.go:91): ToWei
\* undoes FromWei.
RoundTripsExactly == Done("amount") => verdict[1] = input
=============================================================================
