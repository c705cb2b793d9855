---------------------------- MODULE PriceService ----------------------------
(***************************************************************************)
(* How a balance gets its price: PriceService with its cache, the lookup   *)
(* of the EVM, Solana and manual collectors on top of it, and the choice   *)
(* PriceHistoryRecorder makes of what is worth recording.  An instance     *)
(* belongs to one worker loop, which asks for one price at a time.         *)
(*                                                                         *)
(* The cache compares stamps of the wall clock, which may be set forwards  *)
(* and backwards; now is real time.  A quote is a record of who gave it,   *)
(* what it is the price of, when, and whether it is positive.              *)
(***************************************************************************)
EXTENDS Integers

CONSTANTS
    Tokens,      \* <<platform, contract>> of the configured ERC-20 tokens
    Symbols,     \* tickers, upper-cased
    PriceSymbol, \* the ticker a token falls back to
    CoinOf,      \* symbol_to_coingecko: from the listed tickers to coins
    Currencies,  \* tickers of three letters, which may be a currency
    DevPriced,   \* tickers with a development price
    TTL,         \* price_cache_ttl_seconds
    MaxShift,    \* most the wall clock is ahead of its slowest setting
    MaxFetch,    \* most that passes while one provider is asked
    MaxWait,     \* most that passes from the pricing of a balance to its row
    MaxTime,     \* bound: the clock stops here
    None

ASSUME AssetsAssumption ==
    /\ PriceSymbol \in [Tokens -> Symbols]
    /\ DOMAIN CoinOf \subseteq Symbols
    /\ Currencies \subseteq Symbols /\ DevPriced \subseteq Symbols
    /\ Tokens \cap Symbols = {}
ASSUME TimeAssumption ==
    /\ TTL \in Nat /\ MaxShift \in Nat /\ MaxFetch \in Nat
    /\ MaxWait \in Nat /\ MaxTime \in Nat

Assets == Tokens \cup Symbols
Providers == {"coingecko", "frankfurter"}    \* PROVIDER_PRICE_SOURCES
Sources == Providers \cup {"static_dev", "manual"}
ASSUME NoneAssumption == None \notin Sources

Coins == {CoinOf[s] : s \in DOMAIN CoinOf}
Quote == [by : Sources, of : Assets \cup Coins, at : Nat, positive : BOOLEAN]

VARIABLES
    now,      \* real time
    shift,    \* how far the wall clock is ahead of it
    secure,   \* the environment is staging or production
    cache,    \* _cache: stamp, price and source by key
    asking,   \* the lookup under way: for what, under which key, with which
              \* stamp, whom it asks, and since when
    held,     \* the last balance priced: its asset, price, source and time
    row       \* the last prices_history row, if held was recorded

vars == <<now, shift, secure, cache, asking, held, row>>

-----------------------------------------------------------------------------
(* Keys and quotes.                                                        *)

\* Mutant: tokens keyed by their contract alone.
ContractKey(asset) == IF asset \in Tokens THEN <<asset[2]>> ELSE asset

\* "token:<platform>:<contract>", or the ticker.
CacheKey(asset) == asset

Keys == {CacheKey(asset) : asset \in Assets}

Entry == [stamp : Nat, price : Quote, source : Providers \cup {"static_dev"}]

Lookup == [asset : Assets, stage : {"token", "coin", "currency"},
           key : Keys, stamp : Nat, since : Nat]

Priced == [asset : Assets, price : Quote \cup {None}, source : Sources \cup {None},
           time : Nat]

TypeOK ==
    /\ now \in Nat
    /\ shift \in 0 .. MaxShift
    /\ secure \in BOOLEAN
    /\ cache \in [Keys -> Entry \cup {None}]
    /\ asking \in Lookup \cup {None}
    /\ held \in Priced \cup {None}
    /\ row \in [price : Quote, source : Providers, time : Nat] \cup {None}

Init ==
    /\ now = 0
    /\ shift \in 0 .. MaxShift
    /\ secure \in BOOLEAN
    /\ cache = [k \in Keys |-> None]
    /\ asking = None
    /\ held = None
    /\ row = None

-----------------------------------------------------------------------------
(* The cache.                                                              *)

Wall == now + shift                          \* time.time()

\* A stamp of the future counts as fresh too: the difference is negative.
Fresh(entry) == entry # None /\ Wall < entry.stamp + TTL

\* The end of a lookup: the balance is priced, or it is not.
Hold(asset, price, source) ==
    /\ held' = [asset |-> asset, price |-> price, source |-> source, time |-> now]
    /\ row' = None
    /\ asking' = None

\* Mutant: the entry is stamped when the answer is there.
StampNow(lookup) == Wall

\* The stamp of a new entry: the time read before anyone was asked.
StampOf(lookup) == lookup.stamp

Store(price, source) ==
    /\ cache' = [cache EXCEPT ![asking.key] =
                    [stamp |-> StampOf(asking), price |-> price, source |-> source]]
    /\ Hold(asking.asset, price, source)

\* get_usd_price for a balance of the asset: a cached entry, or the coin is asked
\* for.
AskTicker(asset, symbol) ==
    LET entry == cache[CacheKey(symbol)]
    IN  /\ IF Fresh(entry)
           THEN Hold(asset, entry.price, entry.source)
           ELSE /\ asking' = [asset |-> asset, stage |-> "coin", key |-> CacheKey(symbol),
                              stamp |-> Wall, since |-> now]
                /\ held' = None /\ row' = None
        /\ UNCHANGED <<now, shift, secure, cache>>

\* get_token_usd_price.
AskToken(token) ==
    LET entry == cache[CacheKey(token)]
    IN  /\ IF Fresh(entry)
           THEN Hold(token, entry.price, entry.source)
           ELSE /\ asking' = [asset |-> token, stage |-> "token", key |-> CacheKey(token),
                              stamp |-> Wall, since |-> now]
                /\ held' = None /\ row' = None
        /\ UNCHANGED <<now, shift, secure, cache>>

\* The collectors: a token by its contract, everything else by its ticker.
Ask(asset) ==
    /\ asking = None
    /\ IF asset \in Tokens THEN AskToken(asset) ELSE AskTicker(asset, asset)

\* ManualCollector, when the balance has a price_usd of its own.
TakeManual(symbol) ==
    /\ asking = None
    /\ \E p \in BOOLEAN :
          Hold(symbol, [by |-> "manual", of |-> symbol, at |-> now, positive |-> p], "manual")
    /\ UNCHANGED <<now, shift, secure, cache>>

-----------------------------------------------------------------------------
(* The providers.                                                          *)

Asked == asking # None

TickerAsked == IF asking.asset \in Tokens THEN PriceSymbol[asking.asset] ELSE asking.asset

\* The quote may be from any time since the request was sent.
QuoteOf(provider, subject, positive) ==
    {[by |-> provider, of |-> subject, at |-> t, positive |-> positive] :
        t \in asking.since .. now}

\* /simple/token_price: a price that is not positive is no price.
TokenAnswered ==
    /\ Asked /\ asking.stage = "token"
    /\ \E q \in QuoteOf("coingecko", asking.asset, TRUE) : Store(q, "coingecko")
    /\ UNCHANGED <<now, shift, secure>>

\* No price for the contract: the collector asks for the canonical ticker.
TokenUnanswered ==
    /\ Asked /\ asking.stage = "token"
    /\ AskTicker(asking.asset, PriceSymbol[asking.asset])

\* /simple/price: whatever number there is.
CoinAnswered ==
    /\ Asked /\ asking.stage = "coin"
    /\ TickerAsked \in DOMAIN CoinOf
    /\ \E p \in BOOLEAN : \E q \in QuoteOf("coingecko", CoinOf[TickerAsked], p) :
          Store(q, "coingecko")
    /\ UNCHANGED <<now, shift, secure>>

CoinUnanswered ==
    /\ Asked /\ asking.stage = "coin"
    /\ asking' = [asking EXCEPT !.stage = "currency", !.since = now]
    /\ UNCHANGED <<now, shift, secure, cache, held, row>>

\* /rate; the rate of USD itself is not asked for but always 1.
RateAnswered ==
    /\ Asked /\ asking.stage = "currency"
    /\ TickerAsked \in Currencies
    /\ \E q \in QuoteOf("frankfurter", TickerAsked, TRUE) : Store(q, "frankfurter")
    /\ UNCHANGED <<now, shift, secure>>

\* Mutant: development prices wherever there is one.
DevelopmentEverywhere(symbol) == symbol \in DevPriced

HasDevPrice(symbol) == ~secure /\ symbol \in DevPriced

\* No provider has a price: the development price, and it is cached, or none.
RateUnanswered ==
    /\ Asked /\ asking.stage = "currency"
    /\ IF HasDevPrice(TickerAsked)
       THEN Store([by |-> "static_dev", of |-> TickerAsked, at |-> now, positive |-> TRUE],
                  "static_dev")
       ELSE Hold(asking.asset, None, None) /\ UNCHANGED cache
    /\ UNCHANGED <<now, shift, secure>>

-----------------------------------------------------------------------------
(* Recording.                                                              *)

\* Mutant: whatever has a price is recorded.
HasPrice(balance) == balance.price # None

Recordable(balance) ==
    /\ balance.source \in Providers
    /\ balance.price # None
    /\ balance.price.positive

\* _write_chain_result, once all balances of the chain are priced.
Record ==
    /\ held # None
    /\ row = None
    /\ Recordable(held)
    /\ row' = [price |-> held.price, source |-> held.source, time |-> now]
    /\ UNCHANGED <<now, shift, secure, cache, asking, held>>

-----------------------------------------------------------------------------
(* Time.                                                                   *)

Tick ==
    /\ now < MaxTime
    /\ Asked => now < asking.since + MaxFetch
    /\ held # None /\ row = None => now < held.time + MaxWait
    /\ now' = now + 1
    /\ UNCHANGED <<shift, secure, cache, asking, held, row>>

\* The wall clock is set.
SetClock ==
    /\ shift' \in 0 .. MaxShift
    /\ shift' # shift
    /\ UNCHANGED <<now, secure, cache, asking, held, row>>

Next ==
    \/ \E asset \in Assets : Ask(asset)
    \/ \E symbol \in Symbols : TakeManual(symbol)
    \/ TokenAnswered \/ TokenUnanswered
    \/ CoinAnswered \/ CoinUnanswered
    \/ RateAnswered \/ RateUnanswered
    \/ Record
    \/ Tick \/ SetClock

Spec == Init /\ [][Next]_vars

-----------------------------------------------------------------------------
(* Properties.                                                             *)

\* A time at which a quote may still be in use: within the TTL but for what the
\* clock was set back, or while it was on its way.
InTime(t, quote) == t < quote.at + TTL + MaxShift \/ t <= quote.at + MaxFetch

\* A provider's price is never used for longer than that, however late the
\* answers came, wherever the clock was set meanwhile, and whichever of a token's
\* two entries it comes from.
PricesAreFresh ==
    held # None /\ held.source \in Providers => InTime(held.time, held.price)

\* What a price may be a price of: the contract itself, the coin its ticker
\* stands for, or the ticker as a currency or development price.
Meant(asset) ==
    LET symbol == IF asset \in Tokens THEN PriceSymbol[asset] ELSE asset
    IN  {asset, symbol} \cup (IF symbol \in DOMAIN CoinOf THEN {CoinOf[symbol]} ELSE {})

\* The source a balance shows is who gave its price, and it is a price of that
\* very asset, also when it comes from the cache: "networks cannot share a price
\* accidentally" (README).  Secure environments show no development prices.
SourceTellsOrigin ==
    held # None /\ held.price # None =>
        /\ held.price.by = held.source
        /\ held.price.of \in Meant(held.asset)
        /\ secure => held.source # "static_dev"

\* prices_history holds market prices only: from a provider, positive, and older
\* than a price in use by no more than the rest of the collection took.
\* "Manual overrides and development fallback prices are deliberately excluded."
HistoryHoldsMarketPrices ==
    row # None =>
        /\ row.source \in Providers /\ row.price.by = row.source
        /\ row.price.positive
        /\ \E t \in row.time - MaxWait .. row.time : InTime(t, row.price)
=============================================================================
