SPECIFICATION MCSpec
CONSTANTS
    s1 = s1 s2 = s2 n1 = n1 h1 = h1 h2 = h2 c1 = c1 c2 = c2
    Sessions <- MCSessions
    Natives <- MCNatives
    Handlers <- MCHandlers
    Contents <- MCContents
    MaxAttempts = 2
    Retention = TRUE
    MaxOrdinal = 2
    MaxRev = 3
    NoSession = NoSession
    NoNative = NoNative
    NoContent = NoContent
SYMMETRY MCSymmetry
CHECK_DEADLOCK FALSE
INVARIANTS DenseOrdinals AckedTurnIsOwn
PROPERTIES AppendsAtEnd
