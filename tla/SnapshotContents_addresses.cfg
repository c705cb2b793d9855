\* An EVM address in two spellings, two Solana addresses that differ in case only,
\* and a wallet of an unknown type; a run and its retry, with an edit between.
CONSTANTS
    None = None
    Runs = {1, 2}
    Wallets = {1, 2, 3, 4, 5}
    Scopes = {{1, 2, 3, 4, 5}}
    EvmChains = {"mainnet"}
    TypeOf <- FiveTypes
    AddressOf <- FiveAddresses
    Lower <- LowerCase
    Listed <- AsListed
    Named <- AsNamed
    MaxTime = 0
    MaxEdits = 1
    MaxSubmits = 2
SPECIFICATION Spec
CHECK_DEADLOCK FALSE
INVARIANTS
    TypeOK
    OneWalletPerAddress
    VerdictMatchesChains
PROPERTIES
    NoAddressLeftOut
