SPECIFICATION Spec
CONSTANTS
    Calls <- MCCalls
    KindOf <- MCKindOf
    UserOf <- MCUserOf
    NameOf <- MCNameOf
    AddressOf <- MCAddressOf
    Users = {"admin", "ann"}
    Bootstrap = {"admin"}
    Passwords = {"first", "second"}
    FirstPassword = "first"
    Arrivals <- MCArrivals
    Buckets <- MCBuckets
    LimitOf <- MCLimitOf
    WindowOf <- MCWindowOf
    Keys <- MCKeys
    FailureLimit = 2
    FailureWindow = 2
    LockSeconds = 2
    MaxStore = 1
    MaxNow = 4
INVARIANTS
    TypeOK
    EndedSessionsStayEnded
    GuessesAreLimited
PROPERTIES
    PasswordsAreKept
CHECK_DEADLOCK FALSE
