CONSTANTS
    u1 = u1
    u2 = u2
    u3 = u3
    a1 = a1
    a2 = a2
    a3 = a3
    t1 = t1
    t2 = t2
    t3 = t3
    usd = usd
    eur = eur
    gbp = gbp
    Procs = {p1, p2}
    Users = {u1, u2, u3}
    Accounts = {a1, a2, a3}
    Categories = {c1}
    Txs = {t1, t2, t3}
    Currencies = {usd, eur, gbp}
    Rows <- ThreeRows
    MaxRows = 2
    MaxImportErrors = 1
    MaxAmount = 3
    BlankId = BlankId
    None = None
SPECIFICATION MCSpec
SYMMETRY Sym
INVARIANTS TypeOK OwnReferences EveryTransactionAnnounced ImportAccounting ImportHasOneCurrency CashEffectPreserved
CHECK_DEADLOCK FALSE
