SPECIFICATION FairPageSpec
CONSTANTS
    Requests = {"r1", "r2", "r3", "r4", "r5", "r6", "u1", "u2", "u3"}
    Principals = {"p1", "p2"}
    PrincipalOf <- MCPrincipalOf
    Kind <- MCKind
    Asks <- MCAsks
    Pops = {"pop", "upop"}
    Arrivals <- MCArrivals
    Callers = {"r1", "r2", "r3", "r4", "r5", "r6", "u1", "u2", "u3", "pop", "upop"}
    Saves = {"r1", "r2", "r3", "r4", "r5", "r6", "u1", "u2", "u3"}
    Threads = {"t1", "t2", "t3", "t4", "t5"}
    Volatile = {"t1", "t2"}
    Faulty = {"r1", "r2", "r4", "pop"}
    ThreadOf <- MCThreadOf
    Questions = {"a", "b"}
    QuestionOf <- MCQuestionOf
    MaxConcurrency = 1
    MaxInflight = 1
    DailyLimit = 2
    MaxTurns = 2
    MaxSessions = 1
    Attempts = 2
    MaxFaults = 1
    Owners = {"p1", "p2"}
    Sources = {"r1", "r2", "r3", "r4", "r5", "r6", "u1", "u2", "u3"}
    OwnerOf <- MCPrincipalOf
    MemoryKeys = {"role"}
    States <- MCStates
    Refers = {"r6"}
    MaxEpisodes = 1
    Unstated = "unstated"
    PageAsks = {"u1", "u2", "u3"}
    PagePops = {"upop"}
    PageThreads <- MCPageThreads
    MaxAsks = 2
    Nothing = "nothing"
INVARIANTS
    PageTypeOK
    SlotsAreConserved
    AnswersRestOnEvidence
    ContextIsComplete
    PromptsFollowThePage
PROPERTIES
    StoresAreLogs
    ForgottenStaysForgotten
    SlotsComeBack
CHECK_DEADLOCK FALSE
