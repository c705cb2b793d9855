\* Two EVM chains share an endpoint, and Solana; one answer of an unexpected form.
CONSTANTS
    None = None
    Chains = {"main", "base", "solana"}
    Solana = "solana"
    Endpoints = {"primary", "shared", "other", "sol"}
    Urls <- MCUrls
    Network <- MCNetwork
    Healthy = {"other"}
    Cooldown = 1
    Cap = 2
    MaxAsk = 2
    ClockError = 1
    MaxEscapes = 1
SPECIFICATION Spec
INVARIANTS
    TypeOK
    CoolingIsLeftAlone
    RetryAfterHonored
    OneHealthyEndpointSuffices
    NetworksAreNotMixed
