SPECIFICATION Spec
CONSTANTS
    Runs = {r1}
    Clients = {c1, c2, c3}
    Tasks = {t1, t2}
    NoRun = NoRun
    Nobody = Nobody
    MaxChunks = 2
    MaxTokens = 2
    MaxCrashes = 1
INVARIANTS
    NotStartedWroteNothing
    CancelStopsTheNextChunk
PROPERTIES
    EndedRunsAreFinal
    LatestTokenStarts
SYMMETRY Actors
CHECK_DEADLOCK FALSE
