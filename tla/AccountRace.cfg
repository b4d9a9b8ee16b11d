\* Two openers of one account race with transfers that name it.
SPECIFICATION Spec
CONSTANTS
    r1 = r1  r2 = r2  r3 = r3  o1 = o1  o2 = o2
    k1 = k1  k2 = k2  k3 = k3  blank = blank
    Request = {r1, r2}
    Opener = {o1, o2}
    Key = {k1, k2, k3, blank}
    UsableKey <- MCUsableKey
    Account <- MCAccount
    Currency <- MCCurrency
    Wording <- MCWording
    UsableWording <- MCUsableWording
    Slot <- MCSlot
    Hash <- MCHash
    InitialAccounts <- OpenAccounts
    Workload <- RefusalWorkload
    Openings <- RefusalOpenings
    MaxBalance = 4
    PoolSize = 3
    MaxFaults = 1
INVARIANTS TypeOK OneCreator
PROPERTIES BalancesFollowEntries ImplementsLedger
