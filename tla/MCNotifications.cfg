CONSTANTS
    r1 = r1
    m1 = m1
    Rows = {r1}
    NoRow = NoRow
    MsgIds = {m1}
    NoMsg = NoMsg
    MsgOf <- OneId
    MaxDeliver = 2
    MaxSeq = 2
    MaxLapses = 1
    MaxLate = 1
    MaxAged = 1
    Notes = {n1, n2}
    NoteUsers = {u1, u2}
    Recipient = u1
    NoUser = NoUser
SPECIFICATION NoteSpec
SYMMETRY Sym
INVARIANTS PublishedWasStored NeverRepublishMarked OneCopyPerWindow AckedWasHandled RunsWithinMaxDeliver AckedIsNotified NotesWithinDeliveries
PROPERTIES ImplementsAtLeastOnce
CHECK_DEADLOCK FALSE
