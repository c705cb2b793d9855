\* Three generations of retries of one EVM wallet, with two deployments or edits.
CONSTANTS
    None = None
    Runs = {1, 2, 3}
    Wallets = {1}
    Scopes = {}
    EvmChains = {"mainnet", "base"}
    TypeOf <- OneEvm
    AddressOf <- OneAddress
    Lower <- LowerCase
    Listed <- AsListed
    Named <- AsNamed
    MaxTime = 1
    MaxEdits = 2
    MaxSubmits = 1
SPECIFICATION Spec
CHECK_DEADLOCK FALSE
INVARIANTS
    RetryCarriesTheRest
    ConservativeTimestamps
PROPERTIES
    ImplementsRecords
