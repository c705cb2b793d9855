\* A worker may stall between two statements for longer than the lease.
CONSTANTS
    None = None
    Jobs = {1}
    Legacy = {}
    Workers = {w1, w2}
    Creators = {c1}
    Targets = {t1}
    WalletOutcomes = {"success", "failed"}
    Lease = 2
    MaxSkew = 0
    MaxStall = 3
    MaxWallet = 1
    MaxWallets = 1
    MaxTime = 4
    MaxAbandons = 0
SPECIFICATION Spec
PROPERTIES
    RecoveredStaysFailed
