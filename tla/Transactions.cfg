SPECIFICATION MCLiveSpec
CONSTANTS
    m1 = m1
    m2 = m2
    k1 = k1
    k2 = k2
    p1 = p1
    r1 = r1
    r2 = r2
    None = None
    c1 = c1
    c2 = c2
    d1 = d1
    w1 = w1
    w2 = w2
    h1 = h1
    n1 = n1
    Creates = {c1, c2}
    Demotions = {d1}
    Dispatches = {w1, w2}
    Webhooks = {h1}
    Notes = {n1}
INVARIANTS LedgerTellsRows AlterationLocated AppendsUndisturbed
PROPERTIES Served EveryTransactionEnds
