\* Entries outlive the TTL by a clock set back, and answers come late.
CONSTANTS
    None = None
    Tokens <- MCTokens
    Symbols <- MCSymbols
    PriceSymbol <- MCPriceSymbol
    CoinOf <- MCCoinOf
    Currencies <- MCSymbols
    DevPriced <- MCSymbols
    TTL = 2
    MaxShift = 1
    MaxFetch = 1
    MaxWait = 1
    MaxTime = 4
SPECIFICATION Spec
CHECK_DEADLOCK FALSE
INVARIANTS
    TypeOK
    PricesAreFresh
    SourceTellsOrigin
    HistoryHoldsMarketPrices
