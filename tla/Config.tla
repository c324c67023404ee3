-------------------------------- MODULE Config --------------------------------
(***************************************************************************)
(* The configuration of the program (pkg/config/config.go): what FromYaml  *)
(* and parseValues make of the file, and how a field that does not parse   *)
(* ends.                                                                   *)
(*                                                                         *)
(* A URL is the sequence of its parts between "://".  An address as it is  *)
(* written is the sequence of its pairs of digits, without the 0x: a pair  *)
(* is the byte it denotes, or BadPair.  An address is a sequence of bytes. *)
(***************************************************************************)
EXTENDS Amounts, Sequences, SequencesExt

CONSTANTS
  AddressLength, \* the bytes of an address (common.AddressLength)
  BadPair,       \* two characters that are no hexadecimal digits
  Inf, NaN,      \* amounts that YAML accepts as numbers
  Unparsable,    \* a string that is no instant
  Never,         \* a nil *time.Time
  Instants       \* the instants a deadline may denote

ASSUME ConfigAssumption == AddressLength \in Nat \ {0}

\* hex.DecodeString returns what it has decoded when it meets a bad pair.
Decoded(str) ==
  LET n == CHOOSE n \in 0 .. Len(str) :
             /\ \A i \in 1 .. n : str[i] # BadPair
             /\ n = Len(str) \/ str[n + 1] = BadPair
  IN SubSeq(str, 1, n)

\* HexToAddress drops the error, crops from the left and fills up with zeros.
HexToAddress(str) ==
  LET bytes == Decoded(str)
      crop  == Len(bytes) - AddressLength
  IN [i \in 1 .. AddressLength |-> IF i + crop < 1 THEN 0 ELSE bytes[i + crop]]

\* The address is written as it should be.
IsAddress(str) == Len(str) = AddressLength /\ \A i \in 1 .. Len(str) : str[i] # BadPair

-----------------------------------------------------------------------------
(* ConfigFile, as far as parsing tells its fields apart.  The amounts are  *)
(* written in wei here, or Inf or NaN.                                     *)

AddressFields == {"router", "factory", "inToken", "targetToken"}

ConfigFile(urls, ids, amounts, strings, lists) ==
  [url                : urls,
   login              : BOOLEAN,
   chainID            : ids,
   addresses          : [AddressFields -> strings],
   buyAmount          : amounts \cup {Inf, NaN},
   priceIsNaN         : BOOLEAN,   \* startingPrice or maxBuyPrice
   deadline           : Instants \cup {Unparsable},
   liquidityProviders : lists,
   sellDeadline       : Instants \cup {Unparsable}]

\* big.NewFloat(NaN) panics.
AmountPanics(raw) == raw.buyAmount = NaN

\* ToWei of an infinite float is an error: log.Fatalf.
AmountIsFatal(raw) == raw.buyAmount = Inf

\* big.NewFloat of the nearest float64, to wei: both are symmetric about zero.
InTokenBuyAmount(wei) ==
  IF wei < 0 THEN -ToWei(Round(-wei, Unit), Unit) ELSE ToWei(Round(wei, Unit), Unit)

\* rpcUrl[1] is out of range without a "://".
UrlPanics(raw) == Len(raw.url) < 2

RpcUrl(raw) == [scheme |-> raw.url[1], auth |-> raw.login, rest |-> raw.url[2]]

\* The caller logs the error and keeps the nil.
parseTimeStr(str) == IF str = Unparsable THEN Never ELSE str

ProvidersSkipMalformed(raw) ==
  {HexToAddress(str) : str \in {s \in ToSet(raw.liquidityProviders) : IsAddress(s)}}

\* MempoolFilter.From; the other fields are TxFilter's MempoolFilter.
Providers(raw) == {HexToAddress(str) : str \in ToSet(raw.liquidityProviders)}

\* What parseValues returns, the private key and the symbols left out.
Parsed(raw) ==
  [RpcUrl           |-> RpcUrl(raw),
   ChainID          |-> raw.chainID,
   Addresses        |-> [f \in AddressFields |-> HexToAddress(raw.addresses[f])],
   InTokenBuyAmount |-> InTokenBuyAmount(raw.buyAmount),
   Deadline         |-> parseTimeStr(raw.deadline),
   From             |-> Providers(raw),
   SellDeadline     |-> parseTimeStr(raw.sellDeadline)]

parseValuesIgnoringAmounts(raw) ==
  IF UrlPanics(raw) \/ raw.priceIsNaN THEN <<"panic">>
  ELSE IF raw.buyAmount \in {Inf, NaN} THEN <<"config", Parsed([raw EXCEPT !.buyAmount = 0])>>
  ELSE <<"config", Parsed(raw)>>

\* The fields in the order of the code: the first that ends the program decides.
parseValues(raw) ==
  IF UrlPanics(raw) \/ AmountPanics(raw) THEN <<"panic">>
  ELSE IF AmountIsFatal(raw) THEN <<"fatal">>
  ELSE IF raw.priceIsNaN THEN <<"panic">>
  ELSE <<"config", Parsed(raw)>>

\* A file that cannot be read, or that is not YAML, is an error of FromYaml: main
\* ends with log.Fatalf.
FromYaml(file) ==
  CASE file.kind \in {"unreadable", "not yaml"} -> <<"error">>
    [] file.kind = "yaml"                       -> parseValues(file.raw)
=============================================================================
