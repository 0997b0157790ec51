CONSTANTS
    w1 = w1
    w2 = w2
    t1 = t1
    t2 = t2
    r1 = r1
    r2 = r2
    Workers = {w1, w2}
    Turns = {t1, t2}
    Ceiling = 1
    Threshold = 1
    MaxClaims = 3
    MaxEvents = 1
    Readers = {r1, r2}
    Cooldown = 1
    TTL = 1
    Stale = 5
    MaxClock = 4
    MaxReads = 3
    MaxServices = 2
SPECIFICATION Together
SYMMETRY Symmetric
CONSTRAINT Few
INVARIANTS
    OverrunBounded
    CreditedToAuthor
    AskedAgainForAReason
CHECK_DEADLOCK FALSE
