SPECIFICATION LimiterSpec
CONSTANTS
    Clients = {c1, c2}
    Attempts = {t1, t2, t3}
    Limit = 2
    Window = 2
INVARIANT OvershootBounded
PROPERTY RefusalEnds
