--------------------------- MODULE MCPriceWatcher ---------------------------
(* PriceWatcher with an empty pair, two ratios and one drained reserve.    *)
EXTENDS PriceWatcher

MCReserves == {<<0, 0>>, <<0, 2>>, <<1, 2>>, <<2, 1>>}
=============================================================================
