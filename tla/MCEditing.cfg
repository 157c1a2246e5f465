SPECIFICATION FairSpec
CONSTANTS
    None = None
    Admin = Admin
    Callers = {c1, c2}
    Ids = {r1}
    MaxRequests = 2
    MaxTombstones = 1
    Contents = {1, 2}
    f1 = f1 f2 = f2 d1 = d1 d2 = d2
    SessionFiles = {f1, f2}
    Keys = {k1, k2}
    Tasks = {t1, t2}
    Watched = FALSE
    SyncNone = FALSE
    MaxCalls = 2
    MaxEdits = 1
    MaxFaults = 2
    Previews = {1, 2}
    Spent = Spent
    MaxOutside = 1
    MaxEpoch = 2
INVARIANTS
    SlotsAreOwned
    SessionIsTheProcess
    OutcomeIsExact
PROPERTIES
    CallsEnd
    OutsideWritesSurvive
    ApplyEnds
CHECK_DEADLOCK FALSE
