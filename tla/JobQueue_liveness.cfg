\* A run of an older release, a crash, and the README's advice: the lease outlasts a wallet.
CONSTANTS
    None = None
    Jobs = {1, 2}
    Legacy = {1}
    Workers = {w1, w2}
    Creators = {c1}
    Targets = {t1}
    WalletOutcomes = {"success", "failed"}
    Lease = 2
    MaxSkew = 0
    MaxStall = 1
    MaxWallet = 1
    MaxWallets = 1
    MaxTime = 2
    MaxAbandons = 1
SPECIFICATION FairSpec
INVARIANTS
    LiveOwnerKeepsRun
PROPERTIES
    EveryRunEnds
