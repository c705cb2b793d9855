\* Two creators race on one scope and on the retries of one parent.
CONSTANTS
    None = None
    Jobs = {1, 2, 3}
    Legacy = {}
    Workers = {w1}
    Creators = {c1, c2}
    Targets = {t1}
    WalletOutcomes = {"success", "failed"}
    Lease = 2
    MaxSkew = 0
    MaxStall = 1
    MaxWallet = 3
    MaxWallets = 1
    MaxTime = 1
    MaxAbandons = 0
SPECIFICATION Spec
SYMMETRY CreatorSymmetry
INVARIANTS
    OneActivePerScope
    RetriesFollowFailure
PROPERTIES
    ImplementsLifecycle
    ImplementsRecords
