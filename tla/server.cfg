SPECIFICATION MCSpec
CONSTANTS
    Schema <- MCSchema
    Edited = {2}
    NoSum = NoSum
    Fixed = {d1, d2}
    Free = {g1, g2}
    d1 = d1
    d2 = d2
    g1 = g1
    g2 = g2
    Contents <- MCContents
    Unfit <- MCUnfit
    Broken = Broken
    NoConfig = NoConfig
    Timers = {t1}
    MaxRequests = 1
    Accounts = {a1}
    Addresses = {ip1}
    Secrets = {k1, k2}
    NoSecret = NoSecret
    Callers = {c1, c2}
    MaxAttempts = 2
INVARIANTS ServerIInv SchemaIsWhole FixedUntilRestart AgreeWhenIdle PoolOutlivesRequests AuthIInv RetiredStays GuessesBounded
PROPERTIES TornStays ReloadReaches StopsOnTerm PendingGoes
