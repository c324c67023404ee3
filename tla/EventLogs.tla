------------------------------ MODULE EventLogs ------------------------------
(***************************************************************************)
(* The events of the generated bindings (contracts/): which parameters are *)
(* indexed, the query a Filter or Watch call sends to the node, and what   *)
(* UnpackLog makes of a log that comes back.                               *)
(*                                                                         *)
(* A log is the name of its event and its topics, the values of the        *)
(* indexed parameters in the order the contract declares them.  The rules  *)
(* of a query are matched with the topics by position; the caller names    *)
(* the parameters.                                                         *)
(***************************************************************************)
EXTENDS Naturals, Sequences, SequencesExt

CONSTANT Address   \* the values of common.Address

Event(contract, name, indexed, data) ==
  [contract |-> contract, name |-> name, indexed |-> indexed, data |-> data]

\* rules[i] lists the values the caller accepts for topic i; {} accepts them all.
Query(event, rules) == [event |-> event, rules |-> rules]

\* The node answers with the logs whose topics begin with values the rules accept.
NodeMatches(query, log) ==
  /\ log.name = query.event.name
  /\ Len(query.rules) <= Len(log.topics)
  /\ \A i \in DOMAIN query.rules : query.rules[i] = {} \/ log.topics[i] \in query.rules[i]

\* BoundContract.UnpackLog needs the event's signature and as many topics as it has
\* indexed parameters.
Unpacks(event, log) ==
  log.name = event.name /\ Len(log.topics) = Len(event.indexed)

Topic(event, log, field) ==
  log.topics[CHOOSE i \in DOMAIN event.indexed : event.indexed[i] = field]

\* The indexed fields of the struct that UnpackLog fills; <<>> is an error.
UnpackLog(event, log) ==
  IF Unpacks(event, log)
  THEN [field \in ToSet(event.indexed) |-> Topic(event, log, field)]
  ELSE <<>>

-----------------------------------------------------------------------------
(* contracts/bsc/pancakeswap/PancakePair.go                                *)

PairApproval == Event("PancakePair", "Approval", <<"owner", "spender">>, <<"value">>)
FilterPairApproval(owner, spender) == Query(PairApproval, <<owner, spender>>)
WatchPairApproval(owner, spender)  == Query(PairApproval, <<owner, spender>>)

PairBurn == Event("PancakePair", "Burn", <<"sender", "to">>, <<"amount0", "amount1">>)
FilterPairBurn(sender, to) == Query(PairBurn, <<sender, to>>)
WatchPairBurn(sender, to)  == Query(PairBurn, <<sender, to>>)

PairMint == Event("PancakePair", "Mint", <<"sender">>, <<"amount0", "amount1">>)
FilterPairMint(sender) == Query(PairMint, <<sender>>)
WatchPairMint(sender)  == Query(PairMint, <<sender>>)

PairSwap ==
  Event("PancakePair", "Swap", <<"sender", "to">>,
        <<"amount0In", "amount1In", "amount0Out", "amount1Out">>)

FilterPairSwapSwapped(sender, to) == Query(PairSwap, <<to, sender>>)

FilterPairSwap(sender, to) == Query(PairSwap, <<sender, to>>)

WatchPairSwapSwapped(sender, to) == Query(PairSwap, <<to, sender>>)

WatchPairSwap(sender, to) == Query(PairSwap, <<sender, to>>)

PairSync == Event("PancakePair", "Sync", <<>>, <<"reserve0", "reserve1">>)
FilterPairSync == Query(PairSync, <<>>)
WatchPairSync  == Query(PairSync, <<>>)

PairTransfer == Event("PancakePair", "Transfer", <<"from", "to">>, <<"value">>)
FilterPairTransfer(from, to) == Query(PairTransfer, <<from, to>>)
WatchPairTransfer(from, to)  == Query(PairTransfer, <<from, to>>)

-----------------------------------------------------------------------------
(* contracts/bsc/pancakeswap/PancakeFactory.go                             *)

PairCreated ==
  Event("PancakeFactory", "PairCreated", <<"token0", "token1">>, <<"pair", "arg3">>)
FilterPairCreated(token0, token1) == Query(PairCreated, <<token0, token1>>)
WatchPairCreated(token0, token1)  == Query(PairCreated, <<token0, token1>>)

-----------------------------------------------------------------------------
(* contracts/tokens/erc20.go, and its copy in contracts/bsc/tokens/erc20.go *)

TokenApproval == Event("erc20", "Approval", <<"owner", "spender">>, <<"value">>)
FilterTokenApproval(owner, spender) == Query(TokenApproval, <<owner, spender>>)
WatchTokenApproval(owner, spender)  == Query(TokenApproval, <<owner, spender>>)

TokenTransfer == Event("erc20", "Transfer", <<"from", "to">>, <<"value">>)
FilterTokenTransfer(from, to) == Query(TokenTransfer, <<from, to>>)
WatchTokenTransfer(from, to)  == Query(TokenTransfer, <<from, to>>)

BscTokenApproval == Event("bsc/erc20", "Approval", <<"owner", "spender">>, <<"value">>)
FilterBscTokenApproval(owner, spender) == Query(BscTokenApproval, <<owner, spender>>)
WatchBscTokenApproval(owner, spender)  == Query(BscTokenApproval, <<owner, spender>>)

BscTokenTransfer == Event("bsc/erc20", "Transfer", <<"from", "to">>, <<"value">>)
FilterBscTokenTransfer(from, to) == Query(BscTokenTransfer, <<from, to>>)
WatchBscTokenTransfer(from, to)  == Query(BscTokenTransfer, <<from, to>>)

-----------------------------------------------------------------------------
\* What a contract at the address may have emitted: the event as declared here, or,
\* by another standard with the same signature (the Transfer of ERC-721), with one
\* more indexed parameter.
WellFormed(event) ==
  [name : {event.name}, topics : [1 .. Len(event.indexed) -> Address]]

OneTopicMore(event) ==
  [name : {event.name}, topics : [1 .. Len(event.indexed) + 1 -> Address]]

Emittable(event) == WellFormed(event) \cup OneTopicMore(event)

\* The caller's lists, by the names of the indexed parameters; {} accepts any value.
Wants(wanted, fields) ==
  \A f \in DOMAIN wanted : wanted[f] = {} \/ fields[f] \in wanted[f]

\* The logs are of events the call asked for by the names of the parameters, and its
\* query leaves no such event out.
AsWanted(call, logs) ==
  LET event == call.query.event IN
  /\ \A i \in DOMAIN logs : Wants(call.wanted, UnpackLog(event, logs[i]))
  /\ \A log \in WellFormed(event) :
       Wants(call.wanted, UnpackLog(event, log)) => NodeMatches(call.query, log)

\* The calls of the Filter functions: the caller passes its lists as the parameters are
\* named.
FilterCalls(lists) ==
  {[query |-> FilterPairSync, wanted |-> <<>>]}
  \cup {[query |-> FilterPairMint(a), wanted |-> [sender |-> a]] : a \in lists}
  \cup {[query |-> FilterPairApproval(a, b), wanted |-> [owner |-> a, spender |-> b]] : a, b \in lists}
  \cup {[query |-> FilterPairBurn(a, b), wanted |-> [sender |-> a, to |-> b]] : a, b \in lists}
  \cup {[query |-> FilterPairSwap(a, b), wanted |-> [sender |-> a, to |-> b]] : a, b \in lists}
  \cup {[query |-> FilterPairTransfer(a, b), wanted |-> [from |-> a, to |-> b]] : a, b \in lists}
  \cup {[query |-> FilterPairCreated(a, b), wanted |-> [token0 |-> a, token1 |-> b]] : a, b \in lists}
  \cup {[query |-> FilterTokenApproval(a, b), wanted |-> [owner |-> a, spender |-> b]] : a, b \in lists}
  \cup {[query |-> FilterTokenTransfer(a, b), wanted |-> [from |-> a, to |-> b]] : a, b \in lists}
  \cup {[query |-> FilterBscTokenApproval(a, b), wanted |-> [owner |-> a, spender |-> b]] : a, b \in lists}
  \cup {[query |-> FilterBscTokenTransfer(a, b), wanted |-> [from |-> a, to |-> b]] : a, b \in lists}

\* The calls of the Watch functions, which build their rules anew.
WatchCalls(lists) ==
  {[query |-> WatchPairSync, wanted |-> <<>>]}
  \cup {[query |-> WatchPairMint(a), wanted |-> [sender |-> a]] : a \in lists}
  \cup {[query |-> WatchPairApproval(a, b), wanted |-> [owner |-> a, spender |-> b]] : a, b \in lists}
  \cup {[query |-> WatchPairBurn(a, b), wanted |-> [sender |-> a, to |-> b]] : a, b \in lists}
  \cup {[query |-> WatchPairSwap(a, b), wanted |-> [sender |-> a, to |-> b]] : a, b \in lists}
  \cup {[query |-> WatchPairTransfer(a, b), wanted |-> [from |-> a, to |-> b]] : a, b \in lists}
  \cup {[query |-> WatchPairCreated(a, b), wanted |-> [token0 |-> a, token1 |-> b]] : a, b \in lists}
  \cup {[query |-> WatchTokenApproval(a, b), wanted |-> [owner |-> a, spender |-> b]] : a, b \in lists}
  \cup {[query |-> WatchTokenTransfer(a, b), wanted |-> [from |-> a, to |-> b]] : a, b \in lists}
  \cup {[query |-> WatchBscTokenApproval(a, b), wanted |-> [owner |-> a, spender |-> b]] : a, b \in lists}
  \cup {[query |-> WatchBscTokenTransfer(a, b), wanted |-> [from |-> a, to |-> b]] : a, b \in lists}
=============================================================================
