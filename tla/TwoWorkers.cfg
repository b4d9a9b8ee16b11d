\* Two workers, two failures or outages, sessions that outlive their worker; fair.
SPECIFICATION FairSpec
CONSTANTS
    w1 = w1  w2 = w2
    Event <- MCEvent
    Account <- MCAccount
    Payload <- MCPayload
    Worker = {w1, w2}
    BatchSize = 2
    Lingering = TRUE
    MaxFaults = 2
INVARIANTS TypeOK DispatchedWasPublished DuplicatesNeedFailures
PROPERTIES ImplementsDelivery EventuallyDispatched
