SPECIFICATION Spec
CONSTANTS
    Requests = {c1, c2, c3}
    Functions = {"kpi", "summary"}
    RfmFunctions = {"summary"}
    Locks = {1, 2, 3}
    MaxVersion = 2
    MaxFaults = 2
INVARIANTS
    OneRebuilder
    VersionedEntriesHold
    AnswersAreFresh
    SnapshotLocksAreInUse

SYMMETRY AnyRequest
