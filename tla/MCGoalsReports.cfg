CONSTANTS
    Goals = {g1}
    Tabs = {b1, b2}
    MaxTime = 3
    LastDate = 3
    MaxProgress = 1
    Milli = 2
    NoGoal = NoGoal
    Txs = {1, 2, 3, 4, 5}
    Incomes = {5}
    Cats = {k1, k2}
    k1 = k1
    Dates = {1, 2, 3, 4, 5}
    PageSize = 2
    MaxPages = 2
    MaxPageSize = 2
    MaxBudgets = 2
    MaxChanges = 2
    None = None
SPECIFICATION MCSpec
INVARIANTS BudgetTypeOK DatesWereVetted  ProgressKept
           SlipsWithinChurn QuietLoopReadsAll QuietSumIsExact
PROPERTIES SummaryAnswers
CHECK_DEADLOCK FALSE
