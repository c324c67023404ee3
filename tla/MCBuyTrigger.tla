---------------------------- MODULE MCBuyTrigger ----------------------------
(* BuyTrigger with a handful of addresses and one transaction of each kind *)
(* the filter tells apart.                                                 *)
EXTENDS BuyTrigger

CONSTANTS Router, Token, Provider, Stranger

MCAddress == {Router, Token, Provider, Stranger}

AddLiquidityETH(token) ==
  [method |-> "addLiquidityETH", args |-> [token |-> token, to |-> Provider]]

AddLiquidity(a, b) ==
  [method |-> "addLiquidity", args |-> [tokenA |-> a, tokenB |-> b, to |-> Provider]]

ToRouter(from, data) ==
  [to |-> Router, from |-> from, signature |-> "eip155", data |-> data]

Target       == ToRouter(Provider, AddLiquidityETH(Token))
Imitation    == ToRouter(Stranger, AddLiquidity(Stranger, Token))
TypedTarget  == [Target EXCEPT !.signature = "typed"]
ShortData    == ToRouter(Provider, [method |-> "short", args |-> <<>>])

AllKinds == {Target, TypedTarget, Imitation, ShortData}
Harmless == {Imitation}
=============================================================================
