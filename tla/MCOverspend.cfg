CONSTANTS
    Budgets = {b1, b2}
    Clients = {c1}
    Amounts = {0, 1}
    NoBudget = NoBudget
    MaxPeriod = 2
    MaxSpend = 2
    MaxPending = 2
    MaxMissed = 1
    MaxLost = 1
SPECIFICATION Spec
CONSTRAINT Bounded
SYMMETRY Symmetry
INVARIANTS TypeOK DuplicatesAccounted OverspendNoticed
PROPERTIES DeletedStaysDeleted
CHECK_DEADLOCK FALSE
