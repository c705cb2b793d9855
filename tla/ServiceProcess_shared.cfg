\* One user who always has wallets and one who may, two requests, two connections.
CONSTANTS
    None = None
    Users = {1, 2}
    Settled = {2}
    Retried = {1}
    Requests = {r1, r2}
    Readers = {r2}
    Connections = 2
SPECIFICATION FairSpec
CHECK_DEADLOCK FALSE
INVARIANTS
    TypeOK
    NoCircularWait
    StoppedLeavesNothing
PROPERTIES
    ShutdownCompletes
    EveryUserServed
