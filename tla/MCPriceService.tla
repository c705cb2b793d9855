--------------------------- MODULE MCPriceService ---------------------------
(* The token of one contract address on two platforms, both falling back to *)
(* one ticker that is listed, has three letters and a development price.    *)
EXTENDS PriceService

ETH == <<"ETH">>
MCTokens == {<<"ethereum", "weth">>, <<"base", "weth">>}
MCSymbols == {ETH}
MCPriceSymbol == [t \in MCTokens |-> ETH]
MCCoinOf == [s \in MCSymbols |-> <<"coin", "ether">>]
=============================================================================
