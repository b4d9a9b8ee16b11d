\* Two transfers between three accounts, from below zero to above the widths.
SPECIFICATION Spec
CONSTANTS
    Account <- MCAccount
    Grain = 4
    Asked <- MCAsked
    MaxPrecise = 6
    MaxStored = 5
    Openings <- MCOpenings
    MaxTransfers = 2
INVARIANTS RoundsHalfEven ExactBooks
