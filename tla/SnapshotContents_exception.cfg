\* An exception while the second of three chains is written, and a retry of that run.
CONSTANTS
    None = None
    Runs = {1, 2}
    Wallets = {1}
    Scopes = {{1}}
    EvmChains = {"mainnet", "base", "arbitrum"}
    TypeOf <- OneEvm
    AddressOf <- OneAddress
    Lower <- LowerCase
    Listed <- AsListed
    Named <- AsNamed
    MaxTime = 0
    MaxEdits = 0
    MaxSubmits = 1
SPECIFICATION Spec
CHECK_DEADLOCK FALSE
INVARIANTS
    SuccessIsComplete
