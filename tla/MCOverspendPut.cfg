CONSTANTS
    Budgets = {b1}
    Clients = {c1}
    Amounts = {0, 1, 2}
    NoBudget = NoBudget
    MaxPeriod = 2
    MaxSpend = 2
    MaxPending = 1
    MaxMissed = 1
    MaxLost = 1
SPECIFICATION Spec
INVARIANT NoLostPut
CHECK_DEADLOCK FALSE
