CONSTANTS
    b1 = b1
    b2 = b2
    c1 = c1
    c2 = c2
    c3 = c3
    Procs = {p1}
    Users = {u1}
    Emails = {e1}
    Tokens = {t1, t2}
    None = None
    Tabs = {b1, b2}
    Calls = {c1, c2, c3}
    TabOf <- TwoTabs
    Address = e1
SPECIFICATION SessionSpec
SYMMETRY Symmetry
INVARIANTS SessionTypeOK ReuseHasCause SignedOutStays
CHECK_DEADLOCK FALSE
