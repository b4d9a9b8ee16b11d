\* Three transfers of three keys, no faults, a pool of three connections.
SPECIFICATION Spec
CONSTANTS
    r1 = r1  r2 = r2  r3 = r3  o1 = o1  o2 = o2
    k1 = k1  k2 = k2  k3 = k3  blank = blank
    Request = {r1, r2, r3}
    Opener = {}
    Key = {k1, k2, k3}
    UsableKey <- MCUsableKey
    Account <- MCAccount
    Currency <- MCCurrency
    Wording <- MCWording
    UsableWording <- MCUsableWording
    Slot <- MCSlot
    Hash <- MCHash
    InitialAccounts <- ThreeAccounts
    Workload <- ContentionWorkload
    Openings <- NoOpenings
    MaxBalance = 3
    PoolSize = 3
    MaxFaults = 0
INVARIANTS SnapshotsCurrent NoWaitCycle StatementOrder StatementsReconcile
PROPERTIES NoOverdraft BalancesFollowEntries ImplementsLedger
