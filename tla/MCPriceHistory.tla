--------------------------- MODULE MCPriceHistory ---------------------------
(* One contract in two spellings, and a currency of a manual wallet.        *)
EXTENDS PriceHistory

Contract(text) ==
    [chain |-> "base", symbol |-> "weth",
     address |-> [text |-> text, lower |-> "0xab", hex |-> TRUE]]
Euro == [chain |-> "manual", symbol |-> "EUR", address |-> None]

MCBalances == {Contract("0xab"), Contract("0xAB"), Euro}

\* Two wallets in the first run.
MCMaxWallets == <<2, 1>>
=============================================================================
