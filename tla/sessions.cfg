SPECIFICATION Spec
CONSTANTS
    Sids = {s1, s2}
    NoSid = NoSid
    b1 = b1
    Browsers = {b1}
    Tasks = {t1, t2}
    Owner <- MCOwner
    Sweeper = Sweeper
    Lifespan = Lifespan
    PoolSize = 1
    IdleTimeout = 1
    ClientMayVanish = TRUE
INVARIANTS NoPoolLeaked HeldByRunningTask
PROPERTIES ImplementsAccess OrphansEvicted RequestsEnd
