SPECIFICATION Spec
CHECK_DEADLOCK FALSE
CONSTANTS
    ChunkBytes = 4
    ChunkLines = 2
    Wide = Wide
    LF = LF
    CR = CR
    Error = Error
    MaxFiles = 2
    MaxEdits = 2
    MaxBytes = 4
    Star = Star
    AnyChar = AnyChar
    Globstar = Globstar
    None = None
    MaxFragments = 2
    MaxRuleFiles = 2
    MaxRuleDirs = 2
    MaxNameMatches = 2
    ExcerptBytes = 2
    MaxSources = 2
    MaxGaps = 3
    MaxWarnings = 3
    MaxInferred = 5
    ExcerptLines = 3
    MaxClosure = 3
    MaxProjectSources = 5
    MaxProjectBytes = 9
INVARIANTS
    RetrievalIsComplete
    EditsAreSimultaneous
    SearchIsFaithful
    AnswersAreHonest
    AuthorityIsDecided
    RelationsAreExact
    LogsAreRedacted
