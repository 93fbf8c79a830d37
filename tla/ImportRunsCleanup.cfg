SPECIFICATION Spec
CONSTANTS
    Runs = {r1, r2}
    Clients = {c1, c2}
    Tasks = {t1, t2}
    NoRun = NoRun
    Nobody = Nobody
    MaxChunks = 1
    MaxTokens = 1
    MaxCrashes = 0
INVARIANTS
    ActiveRunsAreKept
CHECK_DEADLOCK FALSE
