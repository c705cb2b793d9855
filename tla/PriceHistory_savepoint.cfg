\* Two workers, two runs, one contract in two spellings and a currency, one failure.
CONSTANTS
    None = None
    Workers = {w1, w2}
    Balances <- MCBalances
    Jobs = {1, 2}
    MaxWallets <- MCMaxWallets
    MaxErrors = 1
SPECIFICATION FairSpec
CHECK_DEADLOCK FALSE
INVARIANTS
    TypeOK
    OneObservationPerJob
    RecordedIsWritten
    BalancesSurvive
PROPERTIES
    ImplementsLedger
    EveryWalletEnds
