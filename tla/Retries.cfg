\* Requests of one key race, lose answers and die; a pool of two connections.
SPECIFICATION FairSpec
CONSTANTS
    r1 = r1  r2 = r2  r3 = r3  o1 = o1  o2 = o2
    k1 = k1  k2 = k2  k3 = k3  blank = blank
    Request = {r1, r2, r3}
    Opener = {}
    Key = {k1, k2, k3}
    UsableKey <- MCUsableKey
    Account <- MCAccount
    Currency <- MCCurrency
    Wording <- MCWording
    UsableWording <- MCUsableWording
    Slot <- MCSlot
    Hash <- MCHash
    InitialAccounts <- TwoAccounts
    Workload <- RetryWorkload
    Openings <- NoOpenings
    MaxBalance = 4
    PoolSize = 2
    MaxFaults = 2
INVARIANTS LookupStaysMissed ExactlyOncePerKey AnswersAgree
PROPERTIES NoRefusalAfterPosting ImplementsLedger EveryRequestAnswered
