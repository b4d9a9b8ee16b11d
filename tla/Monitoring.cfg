\* The row of a failed publication, as a monitor of the table sees it.
SPECIFICATION Spec
CONSTANTS
    w1 = w1  w2 = w2
    Event <- MCEvent
    Account <- MCAccount
    Payload <- MCPayload
    Worker = {w1}
    BatchSize = 2
    Lingering = FALSE
    MaxFaults = 1
INVARIANTS FailuresRecorded
