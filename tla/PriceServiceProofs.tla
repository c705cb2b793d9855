------------------------- MODULE PriceServiceProofs -------------------------
(***************************************************************************)
(* Proofs about PriceService, for every set of tokens and tickers, every   *)
(* time-to-live and every bound on clock shifts and delays.  The inductive *)
(* invariant says of every entry of the cache, and of the lookup under     *)
(* way, whose price it is and how far its stamp can be ahead of its quote. *)
(***************************************************************************)
EXTENDS PriceService, TLAPS

\* What an entry under a key may be a price of.
KeyMeans(k) ==
    {k} \cup (IF k \in DOMAIN CoinOf THEN {CoinOf[k]} ELSE {})

\* An entry shows who gave its price, is a price of what its key names, and is
\* stamped at most the clock's shift after its quote.
CacheOK ==
    \A k \in Keys : cache[k] # None =>
        /\ cache[k].price.by = cache[k].source
        /\ cache[k].price.of \in KeyMeans(k)
        /\ secure => cache[k].source # "static_dev"
        /\ cache[k].stamp <= cache[k].price.at + MaxShift

\* A lookup has its own key, and an answer to come cannot be older than its stamp
\* but for the shift.
AskingOK ==
    asking # None =>
        /\ asking.since <= now /\ now <= asking.since + MaxFetch
        /\ asking.stamp <= asking.since + MaxShift
        /\ asking.stage = "token" => asking.asset \in Tokens /\ asking.key = asking.asset
        /\ asking.stage # "token" => asking.key = TickerAsked

\* A balance is recorded within MaxWait of its pricing.
HeldOK ==
    held # None =>
        /\ held.time <= now
        /\ row = None => now <= held.time + MaxWait

IInv ==
    /\ TypeOK
    /\ CacheOK
    /\ AskingOK
    /\ HeldOK
    /\ PricesAreFresh
    /\ SourceTellsOrigin
    /\ HistoryHoldsMarketPrices

-----------------------------------------------------------------------------

\* Every ticker a lookup can ask for is a configured one.
LEMMA TickerIsSymbol ==
    ASSUME TypeOK, asking # None
    PROVE  TickerAsked \in Symbols
BY AssetsAssumption DEF TypeOK, Lookup, TickerAsked, Assets

\* A price that is held, fresh and of its asset, and nothing recorded of it yet:
\* what every end of a lookup has to establish.
GoodPrice(asset, price, source, t) ==
    /\ asset \in Assets
    /\ price \in Quote \cup {None}
    /\ source \in Sources \cup {None}
    /\ source \in Providers => price \in Quote /\ InTime(t, price)
    /\ price # None => /\ price.by = source
                       /\ price.of \in Meant(asset)
                       /\ secure => source # "static_dev"

\* The end of a lookup keeps all that is said of the balance and its row.
LEMMA HoldGood ==
    ASSUME IInv, NEW asset, NEW price, NEW source,
           GoodPrice(asset, price, source, now), Hold(asset, price, source),
           UNCHANGED <<now, secure>>
    PROVE  /\ held' \in Priced \cup {None}
           /\ row' = None /\ asking' = None
           /\ HeldOK' /\ PricesAreFresh' /\ SourceTellsOrigin' /\ HistoryHoldsMarketPrices'
<1> DEFINE new == [asset |-> asset, price |-> price, source |-> source, time |-> now]
<1>1. held' = new /\ row' = None /\ asking' = None
  BY DEF Hold
<1>2. now \in Nat /\ MaxWait \in Nat
  BY TimeAssumption DEF IInv, TypeOK
<1>3. new \in Priced
  BY <1>2 DEF GoodPrice, Priced
<1>4. HeldOK'
  BY <1>1, <1>2 DEF HeldOK
<1>5. PricesAreFresh'
  BY <1>1 DEF PricesAreFresh, GoodPrice, InTime
<1>6. SourceTellsOrigin'
  BY <1>1 DEF SourceTellsOrigin, GoodPrice, Meant
<1>7. HistoryHoldsMarketPrices'
  BY <1>1 DEF HistoryHoldsMarketPrices
<1> QED BY <1>1, <1>3, <1>4, <1>5, <1>6, <1>7

\* A fresh entry is a good price for whoever may use its key: it expires in the
\* TTL after its stamp, which is at most MaxShift after its quote.
LEMMA FreshEntryGood ==
    ASSUME IInv, NEW asset \in Assets, NEW k \in Keys, KeyMeans(k) \subseteq Meant(asset),
           Fresh(cache[k])
    PROVE  GoodPrice(asset, cache[k].price, cache[k].source, now)
<1> DEFINE entry == cache[k]
<1>1. entry # None /\ now + shift < entry.stamp + TTL
  BY DEF Fresh, Wall
<1>2. entry \in Entry /\ now \in Nat /\ shift \in Nat /\ TTL \in Nat /\ MaxShift \in Nat
  BY <1>1, TimeAssumption DEF IInv, TypeOK
<1>3. /\ entry.price \in Quote /\ entry.price.at \in Nat /\ entry.stamp \in Nat
      /\ entry.source \in Sources
  BY <1>2 DEF Entry, Quote, Sources
<1>4. entry.stamp <= entry.price.at + MaxShift
  BY <1>1 DEF IInv, CacheOK
<1>5. InTime(now, entry.price)
  BY <1>1, <1>2, <1>3, <1>4 DEF InTime
<1>6. /\ entry.price.by = entry.source
      /\ entry.price.of \in Meant(asset)
      /\ secure => entry.source # "static_dev"
  BY <1>1 DEF IInv, CacheOK
<1> QED BY <1>3, <1>5, <1>6 DEF GoodPrice

\* An unanswered lookup keeps balance and row forgotten; only asking changes.
LEMMA AskingStep ==
    ASSUME IInv, held' = None, row' = None, UNCHANGED <<now, shift, secure, cache>>,
           asking' \in Lookup, AskingOK'
    PROVE  IInv'
<1>1. TypeOK'
  BY DEF IInv, TypeOK
<1>2. CacheOK'
  BY DEF IInv, CacheOK
<1> QED BY <1>1, <1>2 DEF IInv, HeldOK, PricesAreFresh, SourceTellsOrigin,
                          HistoryHoldsMarketPrices

\* A lookup that ends without a new entry.
LEMMA HoldStep ==
    ASSUME IInv, NEW asset, NEW price, NEW source,
           GoodPrice(asset, price, source, now), Hold(asset, price, source),
           UNCHANGED <<now, shift, secure, cache>>
    PROVE  IInv'
<1>1. /\ held' \in Priced \cup {None}
      /\ row' = None /\ asking' = None
      /\ HeldOK' /\ PricesAreFresh' /\ SourceTellsOrigin' /\ HistoryHoldsMarketPrices'
  BY HoldGood
<1>2. TypeOK'
  BY <1>1 DEF IInv, TypeOK
<1>3. CacheOK' /\ AskingOK'
  BY <1>1 DEF IInv, CacheOK, AskingOK
<1> QED BY <1>1, <1>2, <1>3 DEF IInv

\* A lookup by ticker, for a balance that has this ticker.
LEMMA AskTickerStep ==
    ASSUME IInv, NEW asset \in Assets,
           NEW symbol \in Symbols,
           symbol = IF asset \in Tokens THEN PriceSymbol[asset] ELSE asset,
           AskTicker(asset, symbol)
    PROVE  IInv'
<1>1. CacheKey(symbol) = symbol /\ symbol \in Keys
  BY DEF CacheKey, Keys, Assets
<1>2. KeyMeans(symbol) \subseteq Meant(asset)
  BY DEF KeyMeans, Meant
<1>3. CASE Fresh(cache[symbol])
  BY <1>1, <1>2, <1>3, FreshEntryGood, HoldStep DEF AskTicker
<1>4. CASE ~Fresh(cache[symbol])
  <2> DEFINE new == [asset |-> asset, stage |-> "coin", key |-> symbol,
                     stamp |-> Wall, since |-> now]
  <2>1. /\ asking' = new /\ held' = None /\ row' = None
        /\ UNCHANGED <<now, shift, secure, cache>>
    BY <1>1, <1>4 DEF AskTicker
  <2>2. /\ now \in Nat /\ Wall \in Nat /\ Wall <= now + MaxShift
        /\ MaxFetch \in Nat
    BY TimeAssumption DEF IInv, TypeOK, Wall
  <2>3. new \in Lookup
    BY <1>1, <2>2 DEF Lookup
  <2>4. AskingOK'
    BY <2>1, <2>2 DEF AskingOK, TickerAsked
  <2> QED BY <2>1, <2>3, <2>4, AskingStep
<1> QED BY <1>3, <1>4

\* A lookup by contract.
LEMMA AskTokenStep ==
    ASSUME IInv, NEW token \in Tokens, AskToken(token)
    PROVE  IInv'
<1>1. CacheKey(token) = token /\ token \in Keys /\ token \in Assets
  BY DEF CacheKey, Keys, Assets
<1>2. KeyMeans(token) \subseteq Meant(token)
  BY AssetsAssumption DEF KeyMeans, Meant
<1>3. CASE Fresh(cache[token])
  BY <1>1, <1>2, <1>3, FreshEntryGood, HoldStep DEF AskToken
<1>4. CASE ~Fresh(cache[token])
  <2> DEFINE new == [asset |-> token, stage |-> "token", key |-> token,
                     stamp |-> Wall, since |-> now]
  <2>1. /\ asking' = new /\ held' = None /\ row' = None
        /\ UNCHANGED <<now, shift, secure, cache>>
    BY <1>1, <1>4 DEF AskToken
  <2>2. /\ now \in Nat /\ Wall \in Nat /\ Wall <= now + MaxShift
        /\ MaxFetch \in Nat
    BY TimeAssumption DEF IInv, TypeOK, Wall
  <2>3. new \in Lookup
    BY <1>1, <2>2 DEF Lookup
  <2>4. AskingOK'
    BY <2>1, <2>2 DEF AskingOK
  <2> QED BY <2>1, <2>3, <2>4, AskingStep
<1> QED BY <1>3, <1>4

\* An answer: the new entry is stamped before its quote, and is of its key.
LEMMA StoreStep ==
    ASSUME IInv, asking # None,
           NEW source \in Providers \cup {"static_dev"},
           NEW q \in Quote,
           q.by = source, q.at \in asking.since .. now,
           q.of \in KeyMeans(asking.key),
           secure => source # "static_dev",
           Store(q, source), UNCHANGED <<now, shift, secure>>
    PROVE  IInv'
<1> DEFINE entry == [stamp |-> asking.stamp, price |-> q, source |-> source]
<1>1. /\ asking \in Lookup /\ asking.asset \in Assets /\ asking.key \in Keys
      /\ asking.stamp \in Nat /\ asking.since \in Nat /\ now \in Nat
      /\ MaxShift \in Nat /\ MaxFetch \in Nat /\ TTL \in Nat
  BY TimeAssumption DEF IInv, TypeOK, Lookup
<1>2. cache' = [cache EXCEPT ![asking.key] = entry] /\ Hold(asking.asset, q, source)
  BY DEF Store, StampOf
<1>3. q.at \in Nat /\ asking.stamp <= q.at + MaxShift /\ now <= q.at + MaxFetch
  BY <1>1 DEF IInv, AskingOK
<1>4. KeyMeans(asking.key) \subseteq Meant(asking.asset)
  BY <1>1, AssetsAssumption DEF IInv, AskingOK, KeyMeans, Meant, TickerAsked
<1>5. GoodPrice(asking.asset, q, source, now)
  BY <1>1, <1>3, <1>4 DEF GoodPrice, InTime, Sources
<1>6. /\ held' \in Priced \cup {None}
      /\ row' = None /\ asking' = None
      /\ HeldOK' /\ PricesAreFresh' /\ SourceTellsOrigin' /\ HistoryHoldsMarketPrices'
  BY <1>2, <1>5, HoldGood
<1>7. entry \in Entry
  BY <1>1 DEF Entry
<1>8. TypeOK'
  BY <1>2, <1>6, <1>7 DEF IInv, TypeOK
<1>9. CacheOK'
  <2> SUFFICES ASSUME NEW k \in Keys, cache'[k] # None
               PROVE  /\ cache'[k].price.by = cache'[k].source
                      /\ cache'[k].price.of \in KeyMeans(k)
                      /\ secure => cache'[k].source # "static_dev"
                      /\ cache'[k].stamp <= cache'[k].price.at + MaxShift
    BY DEF CacheOK
  <2>1. CASE k = asking.key
    <3>1. cache'[k] = entry
      BY <1>2, <2>1 DEF IInv, TypeOK
    <3> QED BY <3>1, <1>3, <2>1
  <2>2. CASE k # asking.key
    <3>1. cache'[k] = cache[k]
      BY <1>2, <2>2 DEF IInv, TypeOK
    <3> QED BY <3>1 DEF IInv, CacheOK
  <2> QED BY <2>1, <2>2
<1> QED BY <1>6, <1>8, <1>9 DEF IInv, AskingOK

-----------------------------------------------------------------------------
(* The actions.                                                            *)

LEMMA AskPreserves ==
    ASSUME IInv, NEW asset \in Assets, Ask(asset)
    PROVE  IInv'
<1>1. CASE asset \in Tokens
  BY <1>1, AskTokenStep DEF Ask
<1>2. CASE asset \notin Tokens
  BY <1>2, AskTickerStep DEF Ask, Assets
<1> QED BY <1>1, <1>2

LEMMA TakeManualPreserves ==
    ASSUME IInv, NEW symbol \in Symbols, TakeManual(symbol)
    PROVE  IInv'
<1>1. PICK p \in BOOLEAN :
         Hold(symbol, [by |-> "manual", of |-> symbol, at |-> now, positive |-> p], "manual")
  BY DEF TakeManual
<1> DEFINE q == [by |-> "manual", of |-> symbol, at |-> now, positive |-> p]
<1>2. q \in Quote
  BY DEF IInv, TypeOK, Quote, Sources, Assets
<1>3. GoodPrice(symbol, q, "manual", now)
  BY <1>2 DEF GoodPrice, Meant, Assets, Sources, Providers
<1> QED BY <1>1, <1>3, HoldStep DEF TakeManual

\* What the providers answer: quotes of the subject from the time of the request.
LEMMA QuoteFacts ==
    ASSUME IInv, asking # None, NEW provider \in Sources,
           NEW subject \in Assets \cup Coins, NEW positive \in BOOLEAN,
           NEW q \in QuoteOf(provider, subject, positive)
    PROVE  /\ q \in Quote
           /\ q.by = provider /\ q.of = subject
           /\ q.at \in asking.since .. now
<1>1. PICK t \in asking.since .. now :
         q = [by |-> provider, of |-> subject, at |-> t, positive |-> positive]
  BY DEF QuoteOf
<1>2. asking.since \in Nat /\ now \in Nat
  BY DEF IInv, TypeOK, Lookup
<1> QED BY <1>1, <1>2 DEF Quote

LEMMA TokenAnsweredPreserves ==
    ASSUME IInv, TokenAnswered
    PROVE  IInv'
<1>1. asking # None /\ asking.asset \in Tokens /\ asking.key = asking.asset
  BY DEF TokenAnswered, Asked, IInv, AskingOK
<1>2. PICK q \in QuoteOf("coingecko", asking.asset, TRUE) : Store(q, "coingecko")
  BY DEF TokenAnswered
<1>3. PICK t \in asking.since .. now :
         q = [by |-> "coingecko", of |-> asking.asset, at |-> t, positive |-> TRUE]
  BY DEF QuoteOf
<1>4. /\ q \in Quote /\ q.by = "coingecko" /\ q.of = asking.asset
      /\ q.at \in asking.since .. now
  BY <1>1, <1>3 DEF IInv, TypeOK, Lookup, Quote, Assets, Sources, Providers
<1> QED BY <1>1, <1>2, <1>4, StoreStep DEF TokenAnswered, Providers, KeyMeans

LEMMA TokenUnansweredPreserves ==
    ASSUME IInv, TokenUnanswered
    PROVE  IInv'
<1>1. asking # None /\ asking.asset \in Tokens
  BY DEF TokenUnanswered, Asked, IInv, AskingOK
<1> QED BY <1>1, AskTickerStep, AssetsAssumption DEF TokenUnanswered, Assets

LEMMA CoinAnsweredPreserves ==
    ASSUME IInv, CoinAnswered
    PROVE  IInv'
<1>1. asking # None /\ asking.key = TickerAsked /\ TickerAsked \in DOMAIN CoinOf
  BY DEF CoinAnswered, Asked, IInv, AskingOK
<1>2. CoinOf[TickerAsked] \in Coins
  BY <1>1 DEF Coins
<1>3. PICK p \in BOOLEAN :
         \E q \in QuoteOf("coingecko", CoinOf[TickerAsked], p) : Store(q, "coingecko")
  BY DEF CoinAnswered
<1>4. PICK q \in QuoteOf("coingecko", CoinOf[TickerAsked], p) : Store(q, "coingecko")
  BY <1>3
<1>5. /\ q \in Quote /\ q.by = "coingecko" /\ q.of = CoinOf[TickerAsked]
      /\ q.at \in asking.since .. now
  BY <1>1, <1>2, QuoteFacts DEF Sources, Providers
<1> QED BY <1>1, <1>4, <1>5, StoreStep DEF CoinAnswered, Providers, KeyMeans

LEMMA CoinUnansweredPreserves ==
    ASSUME IInv, CoinUnanswered
    PROVE  IInv'
<1> DEFINE new == [asking EXCEPT !.stage = "currency", !.since = now]
<1>1. /\ asking # None /\ asking \in Lookup /\ asking' = new
      /\ UNCHANGED <<now, shift, secure, cache, held, row>>
      /\ now \in Nat /\ MaxFetch \in Nat /\ MaxShift \in Nat
  BY TimeAssumption DEF CoinUnanswered, Asked, IInv, TypeOK
<1>2. new \in Lookup
  BY <1>1 DEF Lookup
<1>3. /\ new.asset = asking.asset /\ new.key = asking.key /\ new.stamp = asking.stamp
      /\ new.since = now /\ new.stage = "currency"
  BY <1>1 DEF Lookup
<1>4. asking.stamp <= now + MaxShift /\ asking.key = TickerAsked
  BY <1>1 DEF IInv, AskingOK, CoinUnanswered, Lookup
<1>5. AskingOK'
  BY <1>1, <1>3, <1>4 DEF AskingOK, TickerAsked
<1>6. TypeOK'
  BY <1>1, <1>2 DEF IInv, TypeOK
<1> QED BY <1>1, <1>5, <1>6 DEF IInv, CacheOK, HeldOK, PricesAreFresh, SourceTellsOrigin,
                                HistoryHoldsMarketPrices

LEMMA RateAnsweredPreserves ==
    ASSUME IInv, RateAnswered
    PROVE  IInv'
<1>1. asking # None /\ asking.key = TickerAsked /\ TickerAsked \in Symbols
  BY TickerIsSymbol DEF RateAnswered, Asked, IInv, AskingOK
<1>2. PICK q \in QuoteOf("frankfurter", TickerAsked, TRUE) : Store(q, "frankfurter")
  BY DEF RateAnswered
<1>3. /\ q \in Quote /\ q.by = "frankfurter" /\ q.of = TickerAsked
      /\ q.at \in asking.since .. now
  BY <1>1, QuoteFacts DEF Assets, Sources, Providers
<1> QED BY <1>1, <1>2, <1>3, StoreStep DEF RateAnswered, Providers, KeyMeans

LEMMA RateUnansweredPreserves ==
    ASSUME IInv, RateUnanswered
    PROVE  IInv'
<1>1. /\ asking # None /\ asking.key = TickerAsked /\ TickerAsked \in Symbols
      /\ asking \in Lookup /\ now \in Nat
  BY TickerIsSymbol DEF RateUnanswered, Asked, IInv, AskingOK, TypeOK
<1>2. CASE HasDevPrice(TickerAsked)
  <2> DEFINE q == [by |-> "static_dev", of |-> TickerAsked, at |-> now, positive |-> TRUE]
  <2>1. Store(q, "static_dev") /\ ~secure
    BY <1>2 DEF RateUnanswered, HasDevPrice
  <2>2. q \in Quote
    BY <1>1 DEF Quote, Sources, Assets
  <2>3. q.at \in asking.since .. now
    BY <1>1 DEF IInv, AskingOK, Lookup
  <2> QED BY <1>1, <2>1, <2>2, <2>3, StoreStep DEF RateUnanswered, KeyMeans
<1>3. CASE ~HasDevPrice(TickerAsked)
  <2>1. GoodPrice(asking.asset, None, None, now)
    BY <1>1, NoneAssumption DEF GoodPrice, Lookup, Sources
  <2> QED BY <1>3, <2>1, HoldStep DEF RateUnanswered
<1> QED BY <1>2, <1>3

LEMMA RecordPreserves ==
    ASSUME IInv, Record
    PROVE  IInv'
<1>1. /\ held # None /\ held \in Priced /\ row = None
      /\ held.source \in Providers /\ held.price # None /\ held.price.positive
      /\ row' = [price |-> held.price, source |-> held.source, time |-> now]
      /\ UNCHANGED <<now, shift, secure, cache, asking, held>>
  BY DEF Record, Recordable, IInv, TypeOK
<1>2. row'.price \in Quote /\ row' \in [price : Quote, source : Providers, time : Nat]
  BY <1>1 DEF IInv, TypeOK, Priced
<1>3. TypeOK'
  BY <1>1, <1>2 DEF IInv, TypeOK
<1>4. HistoryHoldsMarketPrices'
  <2>1. held.time \in Nat /\ now \in Nat /\ MaxWait \in Nat
    BY <1>1, TimeAssumption DEF IInv, TypeOK, Priced
  <2>2. held.time \in row'.time - MaxWait .. row'.time
    BY <1>1, <2>1 DEF IInv, HeldOK
  <2>3. InTime(held.time, row'.price) /\ row'.price.by = row'.source
    BY <1>1 DEF IInv, PricesAreFresh, SourceTellsOrigin
  <2> QED BY <1>1, <2>2, <2>3 DEF HistoryHoldsMarketPrices
<1> QED BY <1>1, <1>3, <1>4 DEF IInv, CacheOK, AskingOK, HeldOK, TickerAsked,
                                PricesAreFresh, SourceTellsOrigin

LEMMA TickPreserves ==
    ASSUME IInv, Tick
    PROVE  IInv'
<1>1. /\ now \in Nat /\ now' = now + 1
      /\ UNCHANGED <<shift, secure, cache, asking, held, row>>
      /\ MaxFetch \in Nat /\ MaxWait \in Nat
  BY TimeAssumption DEF Tick, IInv, TypeOK
<1>2. TypeOK'
  BY <1>1 DEF IInv, TypeOK
<1>3. AskingOK'
  <2> SUFFICES ASSUME asking # None
               PROVE  AskingOK'
    BY <1>1 DEF AskingOK
  <2>1. asking.since \in Nat /\ now < asking.since + MaxFetch
    BY DEF Tick, Asked, IInv, TypeOK, Lookup
  <2> QED BY <1>1, <2>1 DEF IInv, AskingOK, TickerAsked
<1>4. HeldOK'
  <2> SUFFICES ASSUME held # None
               PROVE  HeldOK'
    BY <1>1 DEF HeldOK
  <2>1. held.time \in Nat /\ (row = None => now < held.time + MaxWait)
    BY DEF Tick, IInv, TypeOK, Priced
  <2> QED BY <1>1, <2>1 DEF IInv, HeldOK
<1> QED BY <1>1, <1>2, <1>3, <1>4 DEF IInv, CacheOK, PricesAreFresh, SourceTellsOrigin,
                                      HistoryHoldsMarketPrices

LEMMA SetClockPreserves ==
    ASSUME IInv, SetClock
    PROVE  IInv'
<1>1. TypeOK'
  BY DEF IInv, TypeOK, SetClock
<1> QED BY <1>1 DEF SetClock, IInv, CacheOK, AskingOK, HeldOK, TickerAsked,
                    PricesAreFresh, SourceTellsOrigin, HistoryHoldsMarketPrices

-----------------------------------------------------------------------------
(* The theorems.                                                           *)

LEMMA InitIInv == Init => IInv
<1> SUFFICES ASSUME Init PROVE IInv
  OBVIOUS
<1>1. TypeOK
  BY DEF Init, TypeOK
<1> QED BY <1>1 DEF Init, IInv, CacheOK, AskingOK, HeldOK, PricesAreFresh,
                    SourceTellsOrigin, HistoryHoldsMarketPrices

LEMMA NextIInv == IInv /\ [Next]_vars => IInv'
<1> SUFFICES ASSUME IInv, [Next]_vars PROVE IInv'
  OBVIOUS
<1>1. ASSUME NEW asset \in Assets, Ask(asset) PROVE IInv'
  BY <1>1, AskPreserves
<1>2. ASSUME NEW symbol \in Symbols, TakeManual(symbol) PROVE IInv'
  BY <1>2, TakeManualPreserves
<1>3. CASE TokenAnswered BY <1>3, TokenAnsweredPreserves
<1>4. CASE TokenUnanswered BY <1>4, TokenUnansweredPreserves
<1>5. CASE CoinAnswered BY <1>5, CoinAnsweredPreserves
<1>6. CASE CoinUnanswered BY <1>6, CoinUnansweredPreserves
<1>7. CASE RateAnswered BY <1>7, RateAnsweredPreserves
<1>8. CASE RateUnanswered BY <1>8, RateUnansweredPreserves
<1>9. CASE Record BY <1>9, RecordPreserves
<1>10. CASE Tick BY <1>10, TickPreserves
<1>11. CASE SetClock BY <1>11, SetClockPreserves
<1>12. CASE UNCHANGED vars
  BY <1>12 DEF vars, IInv, TypeOK, CacheOK, AskingOK, HeldOK, TickerAsked,
               PricesAreFresh, SourceTellsOrigin, HistoryHoldsMarketPrices
<1> QED BY <1>1, <1>2, <1>3, <1>4, <1>5, <1>6, <1>7, <1>8, <1>9, <1>10, <1>11, <1>12 DEF Next

LEMMA Invariance == Spec => []IInv
<1> QED BY InitIInv, NextIInv, PTL DEF Spec

\* Every variable of the price service keeps its type.
THEOREM PriceServiceTypes == Spec => []TypeOK
<1>1. IInv => TypeOK
  BY DEF IInv
<1> QED BY <1>1, Invariance, PTL

\* A provider's price is out of use once the TTL, and what the clock was set back,
\* are over: whatever the keys, the order of the answers and the jumps of the clock.
THEOREM PricesStayFresh == Spec => []PricesAreFresh
<1>1. IInv => PricesAreFresh
  BY DEF IInv
<1> QED BY <1>1, Invariance, PTL

\* A price is shown under its true source and is one of the asset it is shown for:
\* no two tokens or tickers ever share an entry of the cache.
THEOREM PricesKeepTheirOrigin == Spec => []SourceTellsOrigin
<1>1. IInv => SourceTellsOrigin
  BY DEF IInv
<1> QED BY <1>1, Invariance, PTL

\* Only positive prices of providers, of about the time of the row, are recorded.
THEOREM HistoryIsMarketOnly == Spec => []HistoryHoldsMarketPrices
<1>1. IInv => HistoryHoldsMarketPrices
  BY DEF IInv
<1> QED BY <1>1, Invariance, PTL
=============================================================================
