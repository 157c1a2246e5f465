SPECIFICATION MCSpec
CONSTANTS
    s1 = s1 s2 = s2 n1 = n1 h1 = h1 h2 = h2 c1 = c1 c2 = c2
    Sessions <- MCOneSession
    Natives = {}
    Handlers <- MCOneHandler
    Contents <- MCOneContent
    MaxAttempts = 2
    Retention = TRUE
    MaxOrdinal = 1
    MaxRev = 2
    NoSession = NoSession
    NoNative = NoNative
    NoContent = NoContent
CHECK_DEADLOCK FALSE
INVARIANTS NextOrdinalIsFree
