\* Two transfer requests, an opener and one worker; one fault of the service, two failures
\* of the outbox; fair.
SPECIFICATION SystemSpec
CONSTANTS
    r1 = r1  r2 = r2  o1 = o1  k1 = k1  k2 = k2  w1 = w1
    Request = {r1, r2}
    Opener = {o1}
    Key = {k1, k2}
    UsableKey = {k1, k2}
    Account <- MCAccount
    Currency <- MCCurrency
    Wording <- MCWording
    UsableWording <- MCWording
    Slot <- MCSlot
    Hash <- MCHash
    InitialAccounts <- MCAccounts
    Workload <- MCWorkload
    Openings <- MCOpenings
    MaxBalance = 3
    PoolSize = 3
    MaxFaults = 1
    Worker = {w1}
    BatchSize = 2
    Lingering = FALSE
    MaxFailures = 2
INVARIANTS StreamFollowsStatement
PROPERTIES ImplementsOutbox EveryTransferAnnounced
