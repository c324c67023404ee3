------------------------------ MODULE MCSniper ------------------------------
(* Sniper with an empty pair and one that has liquidity.                   *)
EXTENDS Sniper

MCReserves == {<<0, 0>>, <<1, 2>>}
=============================================================================
