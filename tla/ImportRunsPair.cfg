SPECIFICATION FairSpec
CONSTANTS
    Runs = {r1, r2}
    Clients = {c1}
    Tasks = {t1, t2}
    NoRun = NoRun
    Nobody = Nobody
    MaxChunks = 1
    MaxTokens = 2
    MaxCrashes = 0
INVARIANTS
    OneImportAtATime
    CompletedRunsAreComplete
PROPERTIES
    StartedRunsEnd
CHECK_DEADLOCK FALSE
