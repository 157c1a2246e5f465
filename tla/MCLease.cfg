SPECIFICATION MCSpec
CONSTANTS
    k1 = k1 w1 = w1 w2 = w2 q1 = q1 q2 = q2
    Keys <- MCKeys
    Workers <- MCWorkers
    Requests <- MCRequests
    Ttls = {1, 2}
    RecoverLimit = 1
    ClockMayStepBack = TRUE
    MaxTime = 3
    MaxAttempt = 3
    NoRequest = NoRequest
    NoWorker = NoWorker
    NoResult = NoResult
INVARIANTS MonotoneLeasesAreExclusive FencedResult TrailFaithful
PROPERTIES ImplementsOutcome
CHECK_DEADLOCK FALSE
