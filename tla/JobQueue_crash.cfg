\* Two crashes or database errors anywhere, runs of two wallets, clocks one unit apart:
\* the lease just covers twice the skew.
CONSTANTS
    None = None
    Jobs = {1}
    Legacy = {}
    Workers = {w1, w2}
    Creators = {c1}
    Targets = {t1}
    WalletOutcomes = {"success", "failed"}
    Lease = 3
    MaxSkew = 1
    MaxStall = 0
    MaxWallet = 3
    MaxWallets = 2
    MaxTime = 3
    MaxAbandons = 2
SPECIFICATION Spec
SYMMETRY WorkerSymmetry
INVARIANTS
    TypeOK
    OneWorkerPerRun
    OutcomeCountedOnce
    WritesGoToOwnRun
    LeaseIffRunning
    StatusMatchesContents
PROPERTIES
    TerminalIsFinal
