------------------------- MODULE RpcFailoverProofs -------------------------
(***************************************************************************)
(* Proofs about RpcFailover, for any chains, endpoints and lists, whatever *)
(* network each endpoint serves.  What a theorem needs to know of the      *)
(* configuration is named in its statement.                                *)
(***************************************************************************)
EXTENDS RpcFailover, WellFoundedInduction, TLAPS

\* A configured list names no endpoint twice.
Distinct ==
    \A c \in Chains : \A i, j \in DOMAIN Urls[c] : Urls[c][i] = Urls[c][j] => i = j

\* Nobody asks for more than the longest cooldown.
ShortAsks == MaxAsk <= Cap

\* No endpoint is listed both for Solana and for an EVM chain.
SolanaApart ==
    \A c \in Chains \ {Solana} : Solana \in Chains =>
        \A i \in DOMAIN Urls[c], j \in DOMAIN Urls[Solana] : Urls[c][i] # Urls[Solana][j]

\* A healthy endpoint is listed for no EVM chain but the one it serves.
HealthyKnown ==
    \A c \in Chains \ {Solana} : \A i \in DOMAIN Urls[c] :
        Urls[c][i] \in Healthy => Network[Urls[c][i]] = c

\* The assumptions on the constants, under one name.
LEMMA ConstantFacts ==
    /\ \A c \in Chains : /\ DOMAIN Urls[c] \subseteq Nat
                         /\ \A i \in DOMAIN Urls[c] : Urls[c][i] \in Endpoints
                         /\ DOMAIN Urls[c] # {} => Urls[c] # << >>
    /\ \A e \in Endpoints : Network[e] \in Chains
    /\ None \notin Chains
    /\ Cooldown \in Nat \ {0} /\ Cap \in Nat \ {0} /\ MaxAsk \in Nat /\ MaxEscapes \in Nat
    /\ ClockError \in Nat \ {0}
BY UrlsAssumption, NetworkAssumption, NoneAssumption, TimeAssumption, ClockAssumption

-----------------------------------------------------------------------------
(* The endpoint being tried.                                               *)

\* Among natural numbers there is a least one.
LEMMA LeastPosition ==
    ASSUME NEW T, T \subseteq Nat, T # {}
    PROVE  \E t \in T : \A u \in T : t <= u
<1>1. PICK t \in T : \A u \in T : ~(<<u, t>> \in OpToRel(<, Nat))
  BY NatLessThanWellFounded, WFMin, Zenon
<1>2. \A u \in T : ~(u < t)
  BY <1>1 DEF OpToRel
<1>3. QED
  BY <1>2

\* While a chain is collected, the endpoint being tried is one of its list.
LEMMA CurrentEndpoint ==
    ASSUME TypeOK, chain # None
    PROVE  /\ chain \in Chains /\ First \in queue
           /\ queue \subseteq DOMAIN Urls[chain] /\ queue \subseteq Nat
           /\ Current = Urls[chain][First] /\ Current \in Endpoints
<1>1. chain \in Chains /\ queue \subseteq DOMAIN Urls[chain] /\ queue # {}
  BY DEF TypeOK
<1>2. queue \subseteq Nat
  BY <1>1, ConstantFacts
<1>3. \E i \in queue : \A j \in queue : i <= j
  BY <1>1, <1>2, LeastPosition
<1>4. First \in queue
  BY <1>3 DEF First
<1>5. QED
  BY <1>1, <1>2, <1>4, ConstantFacts DEF Current

\* Without a change of queue and chain it stays the same.
LEMMA SameCurrent ==
    ASSUME queue' = queue, chain' = chain
    PROVE  Current' = Current
BY DEF Current, First

\* A cooldown is one of the times until the longest.
LEMMA CooldownRange ==
    ASSUME NEW ask \in Nat
    PROVE  /\ CooldownFor(ask) \in 0 .. Cap
           /\ ask <= Cap => ask <= CooldownFor(ask)
BY ConstantFacts DEF CooldownFor

\* The collector hears some time, and of an EVM endpoint's ask no more is lost than
\* the clocks' error, and nothing when it gives a number.
LEMMA HeardRange ==
    ASSUME NEW ask \in Nat, NEW form, NEW heard \in Heard(ask, form)
    PROVE  /\ heard \in Nat
           /\ form = "seconds" => ask <= heard
           /\ form = "date" /\ chain # Solana => ask <= heard + ClockError
<1>1. CASE form = "seconds"
  BY <1>1 DEF Heard, Longer
<1>2. CASE form = "date" /\ chain # Solana
  <2>1. PICK error \in -ClockError .. ClockError : heard = Longer(1, ask - error)
    BY <1>2 DEF Heard
  <2>2. QED
    BY <1>2, <2>1, ConstantFacts DEF Longer
<1>3. CASE form # "seconds" /\ ~(form = "date" /\ chain # Solana)
  BY <1>3 DEF Heard
<1>4. QED
  BY <1>1, <1>2, <1>3

-----------------------------------------------------------------------------
(* Types.                                                                  *)

LEMMA TypesNextEndpoint ==
    ASSUME TypeOK, chain # None, NextEndpoint
    PROVE  /\ chain' \in Chains \cup {None}
           /\ queue' \subseteq (IF chain' = None THEN {} ELSE DOMAIN Urls[chain'])
           /\ chain' # None <=> queue' # {}
           /\ stage' \in Stages
           /\ result' \in [Chains -> Results]
<1>1. /\ chain \in Chains /\ First \in queue /\ queue \subseteq DOMAIN Urls[chain]
  BY CurrentEndpoint
<1>2. CASE queue = {First}
  BY <1>1, <1>2 DEF NextEndpoint, End, TypeOK, Stages, Results
<1>3. CASE queue # {First}
  BY <1>1, <1>3 DEF NextEndpoint, TypeOK, FirstStage, Stages
<1>4. QED
  BY <1>2, <1>3

LEMMA TypesNext == TypeOK /\ [Next]_vars => TypeOK'
<1> SUFFICES ASSUME TypeOK, [Next]_vars
             PROVE  TypeOK'
  OBVIOUS
<1>1. ASSUME NEW c \in Chains, Begin(c)
      PROVE  TypeOK'
  <2>1. Available(c) \subseteq DOMAIN Urls[c] /\ c # None
    BY ConstantFacts DEF Available
  <2>2. FirstStage(c) \in Stages
    BY DEF FirstStage, Stages
  <2>3. CASE Available(c) # {}
    BY <1>1, <2>1, <2>2, <2>3 DEF Begin, TypeOK, caches, asks
  <2>4. CASE Available(c) = {}
    BY <1>1, <2>4 DEF Begin, TypeOK, caches, asks, Results
  <2>5. QED
    BY <2>3, <2>4
<1>2. CASE Verify
  BY <1>2, CurrentEndpoint DEF Verify, TypeOK, asks, Stages
<1>3. CASE Balance
  BY <1>3 DEF Balance, TypeOK, caches, asks, Stages
<1>4. CASE Decimals
  <2>1. chain \in Chains /\ Network[Current] \in Chains
    BY <1>4, CurrentEndpoint, ConstantFacts DEF Decimals
  <2>2. decimals' \in [Chains -> Chains \cup {None}]
    BY <1>4, <2>1 DEF Decimals, TypeOK
  <2>3. QED
    BY <1>4, <2>2 DEF Decimals, TypeOK, asks, Stages
<1>5. CASE Token
  <2>1. chain \in Chains /\ Current \in Endpoints
    BY <1>5, CurrentEndpoint DEF Token
  <2>2. cooling' \in [Endpoints -> 0 .. Cap]
    BY <1>5, <2>1, ConstantFacts DEF Token, TypeOK
  <2>3. QED
    BY <1>5, <2>1, <2>2 DEF Token, End, TypeOK, caches, asks, Stages, Results
<1>6. ASSUME NEW ask \in 0 .. MaxAsk, NEW form, Fail(ask, form)
      PROVE  TypeOK'
  <2>1. /\ chain # None /\ NextEndpoint /\ Asks(ask, form) /\ UNCHANGED <<caches, escapes>>
    BY <1>6 DEF Fail
  <2>2. PICK heard \in Heard(ask, form) :
            cooling' = [cooling EXCEPT ![Current] = CooldownFor(heard)]
    BY <1>6 DEF Fail
  <2>3. ask \in Nat /\ Current \in Endpoints
    BY <2>1, CurrentEndpoint, ConstantFacts
  <2>4. CooldownFor(heard) \in 0 .. Cap
    BY <2>3, HeardRange, CooldownRange
  <2>5. cooling' \in [Endpoints -> 0 .. Cap]
    BY <2>2, <2>3, <2>4 DEF TypeOK
  <2>6. asked' \in [Endpoints -> 0 .. MaxAsk] /\ dated' \subseteq Endpoints
    BY <2>1, <2>3 DEF Asks, asks, TypeOK
  <2>7. QED
    BY <2>1, <2>5, <2>6, TypesNextEndpoint DEF TypeOK, caches
<1>7. CASE WrongChain
  <2>1. CooldownFor(0) \in 0 .. Cap
    BY CooldownRange
  <2>2. cooling' \in [Endpoints -> 0 .. Cap]
    BY <1>7, <2>1 DEF WrongChain, TypeOK
  <2>3. QED
    BY <1>7, <2>2, TypesNextEndpoint DEF WrongChain, TypeOK, caches, asks
<1>8. CASE Escape
  BY <1>8, ConstantFacts DEF Escape, End, TypeOK, caches, asks, Stages, Results
<1>9. CASE Tick
  BY <1>9, ConstantFacts DEF Tick, TypeOK, caches
<1>10. CASE UNCHANGED vars
  BY <1>10 DEF vars, caches, asks, TypeOK
<1>11. QED
  <2>1. 0 \in 0 .. MaxAsk
    BY ConstantFacts
  <2>2. QED
    BY <2>1, <1>1, <1>2, <1>3, <1>4, <1>5, <1>6, <1>7, <1>8, <1>9, <1>10 DEF Next

\* The queue of a collection holds places of its chain's list, and is empty between
\* collections; cooldowns stay within their cap.
THEOREM TypeCorrect == Spec => []TypeOK
<1>1. Init => TypeOK
  BY ConstantFacts DEF Init, TypeOK, caches, Stages, Results
<1>2. QED
  BY <1>1, TypesNext, PTL DEF Spec

-----------------------------------------------------------------------------
(* Networks.                                                               *)

\* An endpoint counts as validated for the chain it serves and no other; a Solana
\* collection asks for neither a chain id nor the decimals of a token.
CachesAreTrue ==
    /\ \A p \in validated : Network[p[1]] = p[2]
    /\ chain # None /\ chain = Solana => stage \notin {"verify", "decimals"}

Trust == TypeOK /\ CachesAreTrue /\ NetworksAreNotMixed

\* A collection that ends, or goes on with the next endpoint from its first
\* request, has trusted nobody yet.
LEMMA FreshEndpoint ==
    ASSUME Trust, UNCHANGED caches,
           \/ chain' = None
           \/ stage' = FirstStage(chain')
    PROVE  CachesAreTrue' /\ NetworksAreNotMixed'
BY DEF Trust, CachesAreTrue, NetworksAreNotMixed, FirstStage, caches

\* Every step of a collection keeps the caches true and the networks apart.
LEMMA TrustNext == Trust /\ [Next]_vars => Trust'
<1> SUFFICES ASSUME Trust, [Next]_vars
             PROVE  CachesAreTrue' /\ NetworksAreNotMixed'
  BY TypesNext DEF Trust
<1> USE DEF Trust, CachesAreTrue, NetworksAreNotMixed, caches
<1>1. ASSUME NEW c \in Chains, Begin(c)
      PROVE  CachesAreTrue' /\ NetworksAreNotMixed'
  <2>1. CASE Available(c) # {}
    BY <1>1, <2>1, FreshEndpoint DEF Begin
  <2>2. CASE Available(c) = {}
    BY <1>1, <2>2, SameCurrent DEF Begin
  <2>3. QED
    BY <2>1, <2>2
<1>2. CASE Verify
  <2>1. Network[Current] = chain /\ Current' = Current
    BY <1>2, SameCurrent DEF Verify, Validated
  <2>2. \A p \in validated' : Network[p[1]] = p[2]
    BY <1>2, <2>1 DEF Verify
  <2>3. QED
    BY <1>2, <2>1, <2>2 DEF Verify
<1>3. CASE Balance
  BY <1>3, SameCurrent DEF Balance
<1>4. CASE Decimals
  <2>1. chain # Solana /\ Network[Current] = chain /\ Current' = Current
    BY <1>4, SameCurrent DEF Decimals
  <2>2. \A c \in Chains : c # Solana => decimals'[c] \in {None, c}
    BY <1>4, <2>1 DEF Decimals, TypeOK
  <2>3. QED
    BY <1>4, <2>1, <2>2 DEF Decimals
<1>5. CASE Token
  BY <1>5, FreshEndpoint DEF Token, End
<1>6. ASSUME NextEndpoint, UNCHANGED caches
      PROVE  CachesAreTrue' /\ NetworksAreNotMixed'
  BY <1>6, FreshEndpoint DEF NextEndpoint, End
<1>7. ASSUME NEW ask, NEW form, Fail(ask, form)
      PROVE  CachesAreTrue' /\ NetworksAreNotMixed'
  BY <1>7, <1>6 DEF Fail
<1>8. CASE WrongChain
  BY <1>8, <1>6 DEF WrongChain
<1>9. CASE Escape
  BY <1>9, FreshEndpoint DEF Escape, End
<1>10. CASE Tick \/ UNCHANGED vars
  BY <1>10, SameCurrent DEF Tick, vars
<1>11. QED
  BY <1>1, <1>2, <1>3, <1>4, <1>5, <1>7, <1>8, <1>9, <1>10 DEF Next

LEMMA TrustAlways == Spec => []Trust
<1>1. Init => Trust
  BY ConstantFacts DEF Init, Trust, TypeOK, CachesAreTrue, NetworksAreNotMixed, caches, Stages, Results
<1>2. QED
  BY <1>1, TrustNext, PTL DEF Spec

\* What one endpoint answered is never taken for another network's, although an
\* endpoint may be listed for several chains and the caches outlive collections.
THEOREM NetworksStayApart == Spec => []NetworksAreNotMixed
<1>1. Trust => NetworksAreNotMixed
  BY DEF Trust
<1>2. QED
  BY <1>1, TrustAlways, PTL

-----------------------------------------------------------------------------
(* Cooldowns.                                                              *)

\* The endpoints left to try are all in rotation.
QueueInRotation == chain # None => \A i \in queue : cooling[Urls[chain][i]] = 0

\* Only the failure of the endpoint being tried takes one out of rotation.
LEMMA QueueAfterFailure ==
    ASSUME TypeOK, QueueInRotation, Distinct, chain # None, NextEndpoint,
           NEW until, cooling' = [cooling EXCEPT ![Current] = until]
    PROVE  QueueInRotation'
<1>1. /\ chain \in Chains /\ First \in queue /\ queue \subseteq DOMAIN Urls[chain]
      /\ Current = Urls[chain][First]
  BY CurrentEndpoint
<1>2. CASE queue = {First}
  BY <1>2 DEF NextEndpoint, End, QueueInRotation
<1>3. CASE queue # {First}
  <2>1. queue' = queue \ {First} /\ chain' = chain
    BY <1>3 DEF NextEndpoint
  <2>2. \A i \in queue' : Urls[chain][i] # Current /\ Urls[chain][i] \in Endpoints
    BY <1>1, <2>1, ConstantFacts DEF Distinct
  <2>3. QED
    BY <2>1, <2>2 DEF QueueInRotation, TypeOK
<1>4. QED
  BY <1>2, <1>3

LEMMA QueueNext == TypeOK /\ Distinct /\ QueueInRotation /\ [Next]_vars => QueueInRotation'
<1> SUFFICES ASSUME TypeOK, Distinct, QueueInRotation, [Next]_vars
             PROVE  QueueInRotation'
  OBVIOUS
<1>1. ASSUME NEW c \in Chains, Begin(c)
      PROVE  QueueInRotation'
  BY <1>1 DEF Begin, Available, QueueInRotation
<1>2. CASE Verify \/ Balance \/ Decimals
  BY <1>2 DEF Verify, Balance, Decimals, QueueInRotation
<1>3. CASE Token \/ Escape
  BY <1>3 DEF Token, Escape, End, QueueInRotation
<1>4. ASSUME NEW ask, NEW form, Fail(ask, form)
      PROVE  QueueInRotation'
  <2>1. PICK until : cooling' = [cooling EXCEPT ![Current] = until]
    BY <1>4 DEF Fail
  <2>2. QED
    BY <1>4, <2>1, QueueAfterFailure DEF Fail
<1>5. CASE WrongChain
  BY <1>5, QueueAfterFailure DEF WrongChain
<1>6. CASE Tick
  <2>1. \A e \in Endpoints : cooling[e] = 0 => cooling'[e] = 0
    BY <1>6 DEF Tick
  <2>2. chain # None => \A i \in queue : Urls[chain][i] \in Endpoints
    BY CurrentEndpoint, ConstantFacts
  <2>3. QED
    BY <1>6, <2>1, <2>2 DEF Tick, QueueInRotation
<1>7. CASE UNCHANGED vars
  BY <1>7 DEF vars, QueueInRotation
<1>8. QED
  BY <1>1, <1>2, <1>3, <1>4, <1>5, <1>6, <1>7 DEF Next

\* An endpoint out of rotation gets no request, as long as no list names one twice.
THEOREM CoolingIsRespected == Distinct /\ Spec => []CoolingIsLeftAlone
<1>1. Init => QueueInRotation
  BY DEF Init, QueueInRotation
<1>2. TypeOK /\ QueueInRotation => CoolingIsLeftAlone
  BY CurrentEndpoint DEF QueueInRotation, CoolingIsLeftAlone
<1>3. Distinct => Distinct'
  BY DEF Distinct
<1>4. QED
  BY <1>1, <1>2, <1>3, QueueNext, TypeCorrect, PTL DEF Spec

\* How much earlier than it asked an endpoint may be tried again, when those of D
\* gave a date.
Early(D, e) == IF e \in D THEN ClockError ELSE 0

\* Endpoints of EVM chains are out of rotation for as long as they asked, but for
\* the error of a date.
AskedIsCooling ==
    \A c \in Chains \ {Solana} : \A i \in DOMAIN Urls[c] :
        asked[Urls[c][i]] <= cooling[Urls[c][i]] + Early(dated, Urls[c][i])

\* The endpoint being tried may be put back for any time it has not asked about.
LEMMA AskedAfterFailure ==
    ASSUME TypeOK, QueueInRotation, AskedIsCooling, SolanaApart, chain # None,
           NEW until \in Nat, NEW ask \in Nat,
           chain # Solana => ask <= until + Early(dated', Current),
           cooling' = [cooling EXCEPT ![Current] = until],
           asked' = [asked EXCEPT ![Current] = ask],
           \A e \in Endpoints : e # Current => (e \in dated' <=> e \in dated)
    PROVE  AskedIsCooling'
<1>1. /\ chain \in Chains /\ First \in DOMAIN Urls[chain]
      /\ Current = Urls[chain][First] /\ Current \in Endpoints
  BY CurrentEndpoint
<1>2. SUFFICES ASSUME NEW c \in Chains \ {Solana}, NEW i \in DOMAIN Urls[c]
               PROVE  asked'[Urls[c][i]] <= cooling'[Urls[c][i]] + Early(dated', Urls[c][i])
  BY DEF AskedIsCooling
<1>3. Urls[c][i] \in Endpoints
  BY ConstantFacts
<1>4. CASE Urls[c][i] = Current
  <2>1. chain # Solana
    BY <1>1, <1>4 DEF SolanaApart
  <2>2. QED
    BY <1>1, <1>4, <2>1 DEF TypeOK
<1>5. CASE Urls[c][i] # Current
  <2>1. asked'[Urls[c][i]] = asked[Urls[c][i]] /\ cooling'[Urls[c][i]] = cooling[Urls[c][i]]
    BY <1>3, <1>5 DEF TypeOK
  <2>2. Early(dated', Urls[c][i]) = Early(dated, Urls[c][i])
    BY <1>3, <1>5 DEF Early
  <2>3. QED
    BY <2>1, <2>2 DEF AskedIsCooling
<1>6. QED
  BY <1>4, <1>5

\* It may be put back for any time, too, when it leaves what it asked for before.
LEMMA AskStands ==
    ASSUME TypeOK, QueueInRotation, AskedIsCooling, SolanaApart, chain # None,
           NEW until \in Nat, cooling' = [cooling EXCEPT ![Current] = until],
           UNCHANGED asks
    PROVE  AskedIsCooling'
<1>1. /\ chain \in Chains /\ First \in DOMAIN Urls[chain] /\ Current = Urls[chain][First]
      /\ Current \in Endpoints /\ cooling[Current] = 0
  BY CurrentEndpoint DEF QueueInRotation
<1>2. asked[Current] \in Nat /\ asked' = [asked EXCEPT ![Current] = asked[Current]]
  BY <1>1, ConstantFacts DEF TypeOK, asks
<1>3. chain # Solana => asked[Current] <= cooling[Current] + Early(dated, Current)
  BY <1>1 DEF AskedIsCooling
<1>4. dated' = dated /\ Early(dated, Current) \in Nat
  BY ConstantFacts DEF asks, Early
<1>5. chain # Solana => asked[Current] <= until + Early(dated', Current)
  BY <1>1, <1>2, <1>3, <1>4
<1>6. QED
  BY <1>2, <1>4, <1>5, AskedAfterFailure

LEMMA AskedNext ==
    ASSUME TypeOK, QueueInRotation, AskedIsCooling, SolanaApart, ShortAsks, [Next]_vars
    PROVE  AskedIsCooling'
<1>1. ASSUME UNCHANGED <<cooling, asks>>
      PROVE  AskedIsCooling'
  BY <1>1 DEF AskedIsCooling, asks
<1>2. CASE (\E c \in Chains : Begin(c)) \/ Verify \/ Balance \/ Decimals \/ Escape \/ UNCHANGED vars
  BY <1>1, <1>2 DEF Begin, Verify, Balance, Decimals, Escape, vars
<1>3. ASSUME NEW ask \in 0 .. MaxAsk, NEW form \in {"none", "seconds", "date"}, Fail(ask, form)
      PROVE  AskedIsCooling'
  <2>1. ask \in Nat /\ ask <= Cap /\ chain # None /\ Asks(ask, form)
    BY <1>3, ConstantFacts DEF ShortAsks, Fail
  <2>2. PICK heard \in Heard(ask, form) :
            cooling' = [cooling EXCEPT ![Current] = CooldownFor(heard)]
    BY <1>3 DEF Fail
  <2>3. heard \in Nat /\ CooldownFor(heard) \in 0 .. Cap /\ CooldownFor(heard) \in Nat
    BY <2>1, HeardRange, CooldownRange, ConstantFacts
  <2>4. CASE form = "none"
    BY <2>1, <2>2, <2>3, <2>4, AskStands DEF Asks
  <2>5. CASE form # "none"
    <3>1. /\ asked' = [asked EXCEPT ![Current] = ask]
          /\ dated' = IF form = "date" THEN dated \cup {Current} ELSE dated \ {Current}
      BY <2>1, <2>5 DEF Asks
    <3>2. chain # Solana => ask <= heard + Early(dated', Current)
      BY <1>3, <2>1, <2>3, <2>5, <3>1, HeardRange, ConstantFacts DEF Early
    <3>3. \/ CooldownFor(heard) >= heard
          \/ CooldownFor(heard) >= ask
      BY <2>1, <2>3, ConstantFacts DEF CooldownFor
    <3>4. Early(dated', Current) \in Nat
      BY ConstantFacts DEF Early
    <3>5. chain # Solana => ask <= CooldownFor(heard) + Early(dated', Current)
      BY <2>1, <2>3, <3>2, <3>3, <3>4
    <3>6. \A e \in Endpoints : e # Current => (e \in dated' <=> e \in dated)
      BY <3>1
    <3>7. QED
      BY <2>1, <2>2, <2>3, <3>1, <3>5, <3>6, AskedAfterFailure
  <2>6. QED
    BY <2>4, <2>5
<1>4. CASE WrongChain \/ Token
  <2>1. PICK until \in Nat : cooling' = [cooling EXCEPT ![Current] = until]
    BY <1>4, CooldownRange, ConstantFacts DEF WrongChain, Token
  <2>2. QED
    BY <1>4, <2>1, AskStands DEF WrongChain, Token
<1>5. CASE Tick
  <2>1. \A e \in Endpoints : /\ asked[e] \in Nat /\ cooling[e] \in Nat
                             /\ Early(dated, e) \in Nat
    BY ConstantFacts DEF TypeOK, Early
  <2>2. \A e \in Endpoints : asked[e] <= cooling[e] + Early(dated, e)
                                => asked'[e] <= cooling'[e] + Early(dated, e)
    BY <1>5, <2>1 DEF Tick
  <2>3. dated' = dated
    BY <1>5 DEF Tick
  <2>4. QED
    BY <2>2, <2>3, ConstantFacts DEF AskedIsCooling
<1>6. QED
  <2>1. 0 \in 0 .. MaxAsk
    BY ConstantFacts
  <2>2. QED
    BY <2>1, <1>2, <1>3, <1>4, <1>5 DEF Next

\* No endpoint is asked again before the number of seconds it gave is over, or
\* earlier before a date than the error of the clocks, as long as it asks for no more
\* than the longest cooldown and serves no Solana collection.
THEOREM AskedIsHonored ==
    Distinct /\ ShortAsks /\ SolanaApart /\ Spec => []RetryAfterHonored
<1> DEFINE Known == Distinct /\ ShortAsks /\ SolanaApart
<1> DEFINE Patience == TypeOK /\ QueueInRotation /\ AskedIsCooling
<1>1. Init => Patience
  BY ConstantFacts DEF Init, TypeOK, caches, Stages, Results, QueueInRotation, AskedIsCooling, Early
<1>2. Known /\ Patience /\ [Next]_vars => Patience'
  BY TypesNext, QueueNext, AskedNext
<1>3. Patience => RetryAfterHonored
  <2> SUFFICES ASSUME Patience, chain # None, chain # Solana
               PROVE  asked[Current] <= Early(dated, Current)
    BY DEF RetryAfterHonored, Early
  <2>1. /\ chain \in Chains /\ First \in DOMAIN Urls[chain]
        /\ Current = Urls[chain][First] /\ Current \in Endpoints /\ cooling[Current] = 0
    BY CurrentEndpoint DEF QueueInRotation
  <2>2. asked[Current] <= cooling[Current] + Early(dated, Current)
    BY <2>1 DEF AskedIsCooling
  <2>3. Early(dated, Current) \in Nat
    BY ConstantFacts DEF Early
  <2>4. QED
    BY <2>1, <2>2, <2>3
<1>4. Known => Known'
  BY DEF Distinct, ShortAsks, SolanaApart
<1>5. QED
  BY <1>1, <1>2, <1>3, <1>4, PTL DEF Spec

-----------------------------------------------------------------------------
(* Healthy endpoints.                                                      *)

\* A healthy endpoint is always in rotation, it stays in the queue of a collection
\* that has it in its list, and no such collection has failed but by an exception.
HealthyStay ==
    /\ \A c \in Chains : \A i \in DOMAIN Urls[c] :
          Urls[c][i] \in Healthy => cooling[Urls[c][i]] = 0
    /\ chain # None => \A i \in DOMAIN Urls[chain] : Urls[chain][i] \in Healthy => i \in queue
    /\ OneHealthyEndpointSuffices

\* When an endpoint that is not healthy fails, the healthy ones stay.
LEMMA HealthyAfterFailure ==
    ASSUME TypeOK, HealthyStay, chain # None, Current \notin Healthy, NextEndpoint,
           NEW until, cooling' = [cooling EXCEPT ![Current] = until]
    PROVE  HealthyStay'
<1>1. /\ chain \in Chains /\ First \in queue /\ Current = Urls[chain][First]
      /\ chain # None
  BY CurrentEndpoint
<1>2. \A c \in Chains : \A i \in DOMAIN Urls[c] :
         Urls[c][i] \in Healthy => cooling'[Urls[c][i]] = 0
  BY ConstantFacts DEF HealthyStay, TypeOK
<1>3. \A i \in DOMAIN Urls[chain] : Urls[chain][i] \in Healthy => i \in queue \ {First}
  BY <1>1 DEF HealthyStay
<1>4. CASE queue = {First}
  <2>1. chain' = None /\ result' = [result EXCEPT ![chain] = "failed"]
    BY <1>4 DEF NextEndpoint, End
  <2>2. ~\E i \in DOMAIN Urls[chain] : Urls[chain][i] \in Healthy
    BY <1>3, <1>4
  <2>3. OneHealthyEndpointSuffices'
    BY <2>1, <2>2 DEF HealthyStay, OneHealthyEndpointSuffices, TypeOK
  <2>4. QED
    BY <1>2, <2>1, <2>3 DEF HealthyStay
<1>5. CASE queue # {First}
  <2>1. queue' = queue \ {First} /\ UNCHANGED <<chain, result>>
    BY <1>5 DEF NextEndpoint
  <2>2. OneHealthyEndpointSuffices'
    BY <2>1 DEF HealthyStay, OneHealthyEndpointSuffices
  <2>3. QED
    BY <1>2, <1>3, <2>1, <2>2 DEF HealthyStay
<1>6. QED
  BY <1>4, <1>5

LEMMA HealthyNext ==
    ASSUME Trust, HealthyStay, HealthyKnown, [Next]_vars
    PROVE  HealthyStay'
<1>1. TypeOK
  BY DEF Trust
<1>2. ASSUME NEW c \in Chains, Begin(c)
      PROVE  HealthyStay'
  <2>1. \A i \in DOMAIN Urls[c] : Urls[c][i] \in Healthy => i \in Available(c)
    BY DEF HealthyStay, Available
  <2>2. CASE Available(c) # {}
    <3>1. OneHealthyEndpointSuffices'
      BY <1>2, <2>2 DEF Begin, HealthyStay, OneHealthyEndpointSuffices
    <3>2. QED
      BY <1>2, <2>1, <2>2, <3>1 DEF Begin, HealthyStay
  <2>3. CASE Available(c) = {}
    <3>1. ~\E i \in DOMAIN Urls[c] : Urls[c][i] \in Healthy
      BY <2>1, <2>3
    <3>2. /\ UNCHANGED <<cooling, chain, queue>>
          /\ \E outcome : result' = [result EXCEPT ![c] = outcome]
      BY <1>2, <2>3 DEF Begin
    <3>3. OneHealthyEndpointSuffices'
      BY <1>1, <3>1, <3>2 DEF HealthyStay, OneHealthyEndpointSuffices, TypeOK
    <3>4. QED
      BY <3>2, <3>3 DEF HealthyStay
  <2>4. QED
    BY <2>2, <2>3
<1>3. CASE Verify \/ Balance \/ Decimals \/ UNCHANGED vars
  BY <1>3 DEF Verify, Balance, Decimals, vars, HealthyStay, OneHealthyEndpointSuffices
<1>4. CASE Token \/ Escape
  <2>1. chain # None /\ chain' = None
    BY <1>4 DEF Token, Escape, End
  <2>2. \A e \in Endpoints : cooling[e] = 0 => cooling'[e] = 0
    BY <1>1, <1>4 DEF Token, Escape, TypeOK
  <2>3. ASSUME Token
        PROVE  OneHealthyEndpointSuffices'
    <3>1. result' = [result EXCEPT ![chain] = "success"]
      BY <2>3 DEF Token, End
    <3>2. QED
      BY <1>1, <3>1 DEF HealthyStay, OneHealthyEndpointSuffices, TypeOK
  <2>4. ASSUME Escape
        PROVE  OneHealthyEndpointSuffices'
    <3>1. result' = [result EXCEPT ![chain] = "exception"] /\ Current \notin Healthy
      BY <2>4 DEF Escape, End
    <3>2. /\ chain \in Chains /\ First \in DOMAIN Urls[chain] /\ queue \subseteq Nat
          /\ queue \subseteq DOMAIN Urls[chain] /\ queue # {} /\ Current = Urls[chain][First]
      BY <1>1, <2>1, CurrentEndpoint
    <3>3. \A i \in queue : First <= i
      BY <3>2, LeastPosition DEF First
    <3>4. First \in queue
      BY <1>1, <2>1, CurrentEndpoint
    <3>5. ASSUME NEW i \in DOMAIN Urls[chain], Urls[chain][i] \in Healthy
          PROVE  First < i
      <4>1. i \in queue /\ i # First
        BY <2>1, <3>1, <3>2, <3>5 DEF HealthyStay
      <4>2. QED
        BY <3>2, <3>3, <3>4, <4>1
    <3>6. QED
      BY <1>1, <3>1, <3>2, <3>5 DEF HealthyStay, OneHealthyEndpointSuffices, TypeOK
  <2>5. QED
    BY <1>4, <2>1, <2>2, <2>3, <2>4, ConstantFacts DEF HealthyStay
<1>5. ASSUME NEW ask, NEW form, Fail(ask, form)
      PROVE  HealthyStay'
  <2>1. PICK until : cooling' = [cooling EXCEPT ![Current] = until]
    BY <1>5 DEF Fail
  <2>2. QED
    BY <1>1, <1>5, <2>1, HealthyAfterFailure DEF Fail
<1>6. CASE WrongChain
  <2>1. chain # None /\ chain \in Chains /\ chain # Solana /\ Network[Current] # chain
    BY <1>1, <1>6, CurrentEndpoint DEF WrongChain, Trust, CachesAreTrue
  <2>2. First \in DOMAIN Urls[chain] /\ Current = Urls[chain][First]
    BY <1>1, <2>1, CurrentEndpoint
  <2>3. Current \notin Healthy
    BY <2>1, <2>2 DEF HealthyKnown
  <2>4. QED
    BY <1>1, <1>6, <2>3, HealthyAfterFailure DEF WrongChain
<1>7. CASE Tick
  <2>1. \A e \in Endpoints : cooling[e] = 0 => cooling'[e] = 0
    BY <1>7 DEF Tick
  <2>2. QED
    BY <1>7, <2>1, ConstantFacts DEF Tick, HealthyStay, OneHealthyEndpointSuffices
<1>8. QED
  BY <1>2, <1>3, <1>4, <1>5, <1>6, <1>7 DEF Next

\* A chain with an endpoint that always answers never fails and is never without an
\* endpoint to try; what its collections can end with besides success is an exception,
\* and only by the answer of an endpoint before that one.  That endpoint must not be
\* listed for a network it does not serve as well.
THEOREM HealthySuffices == HealthyKnown /\ Spec => []OneHealthyEndpointSuffices
<1>1. Init => HealthyStay
  BY ConstantFacts DEF Init, HealthyStay, OneHealthyEndpointSuffices
<1>2. HealthyKnown /\ Trust /\ HealthyStay /\ [Next]_vars => HealthyStay'
  BY HealthyNext
<1>3. HealthyStay => OneHealthyEndpointSuffices
  BY DEF HealthyStay
<1>4. HealthyKnown => HealthyKnown'
  BY DEF HealthyKnown
<1>5. QED
  BY <1>1, <1>2, <1>3, <1>4, TrustAlways, PTL DEF Spec
=============================================================================
