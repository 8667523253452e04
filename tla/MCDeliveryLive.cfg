CONSTANTS
    r1 = r1
    m1 = m1
    Rows = {r1}
    NoRow = NoRow
    MsgIds = {m1}
    NoMsg = NoMsg
    MsgOf <- OneId
    MaxDeliver = 2
    MaxSeq = 2
    MaxLapses = 1
    MaxLate = 1
    MaxAged = 1
SPECIFICATION FairSpec
PROPERTIES EnqueuedIsSettled
CHECK_DEADLOCK FALSE
