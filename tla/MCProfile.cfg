CONSTANTS
    Procs = {p1, p2}
    Users = {u1, u2}
    Emails = {e1}
    Tokens = {t1, t2, t3}
    None = None
    Editors = {q1, q2}
    Names = {n1}
    BadName = BadName
    Currencies = {usd, eur}
    Usd = usd
    BadCurrency = BadCurrency
    Zones = {utc, cet}
    Utc = utc
    BadZone = BadZone
    MaxMishaps = 1
SYMMETRY Symmetry
SPECIFICATION MCSpec
INVARIANTS EmailUnique ReplayRefused ContainmentUpToInFlight ProfileTypeOK EditsKept
CHECK_DEADLOCK FALSE
