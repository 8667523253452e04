CONSTANTS
    Procs = {p1, p2}
    Users = {u1}
    Emails = {e1}
    Tokens = {t1, t2, t3}
    None = None
SYMMETRY Symmetry
SPECIFICATION Spec
INVARIANT RotationIsLinear
CHECK_DEADLOCK FALSE
