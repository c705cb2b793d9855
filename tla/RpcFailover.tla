---------------------------- MODULE RpcFailover ----------------------------
(***************************************************************************)
(* The provider rotation of EvmCollector and SolanaCollector: which of the *)
(* configured endpoints a collection tries, when a failed one is taken out *)
(* of rotation and for how long, and what the caches remember.             *)
(*                                                                         *)
(* A worker collects one chain of one wallet at a time; it keeps cooldowns *)
(* and caches between jobs.  Amounts and prices are left out.              *)
(***************************************************************************)
EXTENDS Integers, Sequences

CONSTANTS
    Chains,      \* EVM chains, and possibly Solana
    Solana,      \* the name of the chain SolanaCollector is for
    Endpoints,   \* RPC URLs
    Urls,        \* the configured list of each chain, primary first
    Network,     \* the chain an endpoint really serves
    Healthy,     \* endpoints that always answer well
    None,
    Cooldown,    \* RPC_COOLDOWN_SECONDS
    Cap,         \* longest cooldown, 3600 in the code
    MaxAsk,      \* bound: time asked for in a Retry-After header
    ClockError,  \* how far the time until a date is misjudged: host and endpoint
                 \* may disagree about the time, and int() cuts a part of a second
    MaxEscapes   \* bound: answers that raise something else than RpcAttemptError

ASSUME UrlsAssumption == Urls \in [Chains -> Seq(Endpoints)]
ASSUME NetworkAssumption == Network \in [Endpoints -> Chains]
ASSUME HealthyAssumption == Healthy \subseteq Endpoints
ASSUME NoneAssumption == None \notin Chains \cup Endpoints
ASSUME TimeAssumption ==
    Cooldown \in Nat \ {0} /\ Cap \in Nat \ {0} /\ MaxAsk \in Nat /\ MaxEscapes \in Nat
ASSUME ClockAssumption == ClockError \in Nat \ {0}

VARIABLES
    cooling,    \* time until an endpoint is back in rotation
    asked,      \* time until an endpoint wants to be asked again
    dated,      \* endpoints that said so by a date
    validated,  \* _validated_chain_ids
    decimals,   \* _token_decimals: the network a chain's decimals came from
    chain,      \* the chain being collected, or None
    queue,      \* positions in its list left to try, the least being tried
    stage,      \* next RPC call to it
    result,     \* outcome of the last collection of each chain
    escapes

caches == <<validated, decimals>>
asks == <<asked, dated>>
vars == <<cooling, asks, caches, chain, queue, stage, result, escapes>>

Stages == {"verify", "balance", "decimals", "token"}
Results == {"none", "success", "failed", "circuit_open", "missing_rpc_url", "exception"}

TypeOK ==
    /\ cooling \in [Endpoints -> 0 .. Cap]
    /\ asked \in [Endpoints -> 0 .. MaxAsk]
    /\ dated \subseteq Endpoints
    /\ validated \subseteq Endpoints \X Chains
    /\ decimals \in [Chains -> Chains \cup {None}]
    /\ chain \in Chains \cup {None}
    /\ queue \subseteq (IF chain = None THEN {} ELSE DOMAIN Urls[chain])
    /\ chain # None <=> queue # {}
    /\ stage \in Stages
    /\ result \in [Chains -> Results]
    /\ escapes \in 0 .. MaxEscapes

Init ==
    /\ cooling = [e \in Endpoints |-> 0]
    /\ asked = [e \in Endpoints |-> 0]
    /\ dated = {}
    /\ validated = {}
    /\ decimals = [c \in Chains |-> None]
    /\ chain = None
    /\ queue = {}
    /\ stage = "verify"
    /\ result = [c \in Chains |-> "none"]
    /\ escapes = 0

-----------------------------------------------------------------------------

\* Mutant: the cooldowns are not looked at.
AllUrls(c) == DOMAIN Urls[c]

\* The endpoints in rotation, by their places in the configured order.
Available(c) == {i \in DOMAIN Urls[c] : cooling[Urls[c][i]] = 0}

FirstStage(c) == IF c = Solana THEN "balance" ELSE "verify"

\* collect_chain, collect_wallet: up to the first request.
Begin(c) ==
    /\ chain = None
    /\ IF Available(c) # {}
       THEN /\ chain' = c
            /\ queue' = Available(c)
            /\ stage' = FirstStage(c)
            /\ UNCHANGED result
       ELSE /\ result' = [result EXCEPT ![c] =
                 IF Urls[c] = << >> THEN "missing_rpc_url" ELSE "circuit_open"]
            /\ UNCHANGED <<chain, queue, stage>>
    /\ UNCHANGED <<cooling, asks, caches, escapes>>

First == CHOOSE i \in queue : \A j \in queue : i <= j

\* The endpoint being tried.
Current == Urls[chain][First]

\* The collection ends and the collector is ready for the next.
End(outcome) ==
    /\ result' = [result EXCEPT ![chain] = outcome]
    /\ chain' = None
    /\ queue' = {}
    /\ stage' = "verify"

-----------------------------------------------------------------------------
(* Requests that succeed.                                                  *)

\* Mutant: an endpoint validated for one chain is not asked again for another.
ValidatedUrl(e, c) == \E d \in Chains : <<e, d>> \in validated

Validated(e, c) == <<e, c>> \in validated

\* _verify_chain_id: cached, or the endpoint reports the expected id.
Verify ==
    /\ chain # None
    /\ stage = "verify"
    /\ Validated(Current, chain) \/ Network[Current] = chain
    /\ validated' = validated \cup {<<Current, chain>>}
    /\ stage' = "balance"
    /\ UNCHANGED <<cooling, asks, decimals, chain, queue, result, escapes>>

\* eth_getBalance, or getBalance.  Decimals of tracked Solana tokens are fixed.
Balance ==
    /\ chain # None
    /\ stage = "balance"
    /\ stage' = IF chain = Solana THEN "token" ELSE "decimals"
    /\ UNCHANGED <<cooling, asks, caches, chain, queue, result, escapes>>

\* decimals() of a token, asked once per chain; what was learnt stays when the
\* endpoint fails afterwards.
Decimals ==
    /\ chain # None
    /\ stage = "decimals"
    /\ decimals' = IF decimals[chain] # None THEN decimals
                   ELSE [decimals EXCEPT ![chain] = Network[Current]]
    /\ stage' = "token"
    /\ UNCHANGED <<cooling, asks, validated, chain, queue, result, escapes>>

\* balanceOf, or the token accounts; the last request of a collection.
Token ==
    /\ chain # None
    /\ stage = "token"
    /\ cooling' = [cooling EXCEPT ![Current] = 0]
    /\ End("success")
    /\ UNCHANGED <<asks, caches, escapes>>

-----------------------------------------------------------------------------
(* Requests that fail.                                                     *)

\* Mutant: a long Retry-After is cut to the usual cooldown.
UsualCooldown(ask) == IF ask # 0 /\ ask < Cooldown THEN ask ELSE Cooldown

CooldownFor(ask) ==
    IF ask = 0 THEN (IF Cooldown < Cap THEN Cooldown ELSE Cap)
    ELSE IF ask < Cap THEN ask ELSE Cap

\* Mutants: the first failure ends the collection; the last one does not.
GiveUp == End("failed")
NeverEnds ==
    /\ queue' = queue \ {First}
    /\ stage' = FirstStage(chain)
    /\ UNCHANGED <<chain, result>>

\* The next endpoint in the queue is tried from its first request on.
NextEndpoint ==
    IF queue = {First}
    THEN End("failed")
    ELSE /\ queue' = queue \ {First}
         /\ stage' = FirstStage(chain)
         /\ UNCHANGED <<chain, result>>

Longer(s, t) == IF s < t THEN t ELSE s

\* What the collector may make of a Retry-After header: a number of seconds is
\* taken as it is, but never for less than one; the time until a date is computed
\* from the host's clock by EvmCollector, and not read by SolanaCollector.
Heard(ask, form) ==
    CASE form = "seconds" -> {Longer(1, ask)}
      [] form = "date" /\ chain # Solana ->
            {Longer(1, ask - error) : error \in -ClockError .. ClockError}
      [] OTHER -> {0}

\* An endpoint asks for the time from now on, or leaves what it asked for before.
Asks(ask, form) ==
    IF form = "none" THEN UNCHANGED asks
    ELSE /\ asked' = [asked EXCEPT ![Current] = ask]
         /\ dated' = IF form = "date" THEN dated \cup {Current} ELSE dated \ {Current}

\* RpcAttemptError: a timeout, a refused connection, an HTTP or JSON-RPC error,
\* or HTTP 429, which may have a Retry-After header of either form.
Fail(ask, form) ==
    /\ chain # None
    /\ Current \notin Healthy
    /\ stage = "verify" => ~Validated(Current, chain)
    /\ stage = "decimals" => decimals[chain] = None
    /\ \E heard \in Heard(ask, form) :
          cooling' = [cooling EXCEPT ![Current] = CooldownFor(heard)]
    /\ Asks(ask, form)
    /\ NextEndpoint
    /\ UNCHANGED <<caches, escapes>>

\* The endpoint serves another network than the one it is configured for.
WrongChain ==
    /\ chain # None
    /\ stage = "verify"
    /\ ~Validated(Current, chain)
    /\ Network[Current] # chain
    /\ cooling' = [cooling EXCEPT ![Current] = CooldownFor(0)]
    /\ NextEndpoint
    /\ UNCHANGED <<asks, caches, escapes>>

\* An answer the collector does not expect: for EvmCollector, a JSON body that is
\* not an object; for SolanaCollector, a mint that is not hashable or an amount of
\* digits that int() refuses.  The error leaves the collector and fails the run.
Escape ==
    /\ chain # None
    /\ chain = Solana => stage = "token"
    /\ Current \notin Healthy
    /\ stage = "verify" => ~Validated(Current, chain)
    /\ stage = "decimals" => decimals[chain] = None
    /\ escapes < MaxEscapes
    /\ escapes' = escapes + 1
    /\ End("exception")
    /\ UNCHANGED <<cooling, asks, caches>>

\* Time passes, also while a request is under way.
Tick ==
    /\ \E e \in Endpoints : cooling[e] > 0 \/ asked[e] > 0
    /\ cooling' = [e \in Endpoints |-> IF cooling[e] > 0 THEN cooling[e] - 1 ELSE 0]
    /\ asked' = [e \in Endpoints |-> IF asked[e] > 0 THEN asked[e] - 1 ELSE 0]
    /\ UNCHANGED <<dated, caches, chain, queue, stage, result, escapes>>

Next ==
    \/ \E c \in Chains : Begin(c)
    \/ Verify \/ Balance \/ Decimals \/ Token
    \/ Fail(0, "none")
    \/ \E ask \in 0 .. MaxAsk, form \in {"seconds", "date"} : Fail(ask, form)
    \/ WrongChain
    \/ Escape
    \/ Tick

Spec == Init /\ [][Next]_vars

-----------------------------------------------------------------------------
(* Properties.                                                             *)

\* An endpoint out of rotation gets no request, although a collection decides
\* once which endpoints it will try and others fail, and time passes, before it
\* comes to the last of them.
CoolingIsLeftAlone == chain # None => cooling[Current] = 0

\* An endpoint that answered 429 gets no request before the time it asked for is
\* over (README: "HTTP 429 responses honor Retry-After"): to the second when it
\* gave a number, and no earlier than the clocks' error before a date.  For EVM
\* chains: SolanaCollector does not read the form with a date.
RetryAfterHonored ==
    chain # None /\ chain # Solana =>
        asked[Current] <= (IF Current \in dated THEN ClockError ELSE 0)

\* A collection of a chain that has an endpoint that always answers neither fails
\* nor finds every endpoint out of rotation, whatever the others did before: it
\* succeeds, unless an endpoint listed before that one answers with something that
\* raises another error than RpcAttemptError; the chain is then not collected.
OneHealthyEndpointSuffices ==
    \A c \in Chains : \A i \in DOMAIN Urls[c] :
        Urls[c][i] \in Healthy /\ Network[Urls[c][i]] = c =>
            /\ result[c] \in {"none", "success", "exception"}
            /\ result[c] = "exception" => \E j \in DOMAIN Urls[c] :
                   j < i /\ Urls[c][j] \notin Healthy

\* No balance or decimals of another network are ever taken for the chain's, in
\* spite of endpoints listed for the wrong chain, or for two.
NetworksAreNotMixed ==
    /\ \A c \in Chains : c # Solana => decimals[c] \in {None, c}
    /\ chain # None /\ chain # Solana /\ stage # "verify" => Network[Current] = chain
=============================================================================
