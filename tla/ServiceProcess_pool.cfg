\* The same instance: a pool smaller than what the threads can hold.
CONSTANTS
    None = None
    Users = {1, 2}
    Settled = {2}
    Retried = {1}
    Requests = {r1, r2}
    Readers = {r2}
    Connections = 2
SPECIFICATION Spec
CHECK_DEADLOCK FALSE
INVARIANTS
    RunsAreSettled
