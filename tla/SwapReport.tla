------------------------------ MODULE SwapReport ------------------------------
(***************************************************************************)
(* The report of a purchase in cmd/run: buyTokens looks for the Swap event *)
(* of the pair among the logs of the receipt, by unpacking the data of     *)
(* each log, and computes prices and fees from what it finds.              *)
(*                                                                         *)
(* The amounts are in wei; FromWei and the printing are left out.  A log   *)
(* is the sequence of the words of its data: the event's name, its topics  *)
(* and its address are not looked at.                                      *)
(***************************************************************************)
EXTENDS Amounts, Sequences, SequencesExt

\* The non-indexed parameters of Swap, by their place in the data.
SwapInputs == <<"amount0In", "amount1In", "amount0Out", "amount1Out">>

\* pairABI.Unpack("Swap", txLog.Data): the data holds at least the four words.
UnpacksAsSwap(log) == Len(log) >= Len(SwapInputs)

FirstSwapData(logs) ==
  logs[CHOOSE i \in DOMAIN logs :
         UnpacksAsSwap(logs[i]) /\ \A j \in 1 .. i - 1 : ~UnpacksAsSwap(logs[j])]

\* The loop keeps the amounts of the last log that unpacks.
SwapData(logs) ==
  logs[CHOOSE i \in DOMAIN logs :
         UnpacksAsSwap(logs[i]) /\ \A j \in i + 1 .. Len(logs) : ~UnpacksAsSwap(logs[j])]

\* logData[1] and logData[2]
weiSpent(logs)  == SwapData(logs)[2]
weiBought(logs) == SwapData(logs)[3]

\* FromWei dereferences nil when no log unpacks; TokenRatio divides zero by zero.
ReportPanics(logs) ==
  \/ ~\E i \in DOMAIN logs : UnpacksAsSwap(logs[i])
  \/ RatioPanics(weiSpent(logs), weiBought(logs))

\* The float that prints +Inf.
Infinite == <<1, 0>>

buyPrice(logs) ==
  IF RatioIsInf(weiSpent(logs), weiBought(logs)) THEN Infinite
  ELSE TokenRatio(weiSpent(logs), weiBought(logs))

\* tx.Cost(): the gas limit is part of it.
Cost(tx) == tx.value + tx.gasPrice * tx.gas

\* What is printed; <<>> if the program panics before.
Report(tx, receipt) ==
  IF ReportPanics(receipt.logs) THEN <<>>
  ELSE LET spent     == weiSpent(receipt.logs)
           gasFees   == receipt.gasUsed * tx.gasPrice
           totalFees == Cost(tx) - spent
       IN [tokensBought |-> weiBought(receipt.logs),
           tokensSpent  |-> spent,
           buyPrice     |-> buyPrice(receipt.logs),
           gasFees      |-> gasFees,
           dexFees      |-> totalFees - gasFees,
           totalFees    |-> totalFees,
           totalCost    |-> Cost(tx)]

-----------------------------------------------------------------------------
(* The receipts of the swap, as the contracts write them.                  *)

\* What PancakePair.swap emits last: value in, bought out, for either token order.
OwnSwap(value, bought, targetIsToken0) ==
  IF targetIsToken0 THEN <<0, value, bought, 0>> ELSE <<value, 0, 0, bought>>

\* The WBNB deposit and transfer, whatever the target token emits when it is
\* transferred, the pair's Sync and its Swap.  A reverted swap leaves no log.
SuccessLogs(value, bought, targetIsToken0, ofToken) ==
  <<<<value>>, <<value>>>> \o ofToken
    \o <<<<bought, value>>, OwnSwap(value, bought, targetIsToken0)>>
=============================================================================
