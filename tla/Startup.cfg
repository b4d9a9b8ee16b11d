\* Two API processes and a worker on an empty or an existing database; two kills; fair.
SPECIFICATION Spec
CONSTANTS
    a1 = a1  a2 = a2  w1 = w1
    Api = {a1, a2}
    Poller = {w1}
    Tables <- MCTables
    Outbox = "outbox_events"
    MaxCrashes = 2
INVARIANTS SchemaIsWhole
PROPERTIES EventuallyUp
