SPECIFICATION FairSpec
CONSTANTS
    Manifest = m
    Code = {a}
    Sql = {q}
    Excluded = {a}
    MaxDigest = 3
    Large = {2}
    Empty = {3}
    None = None
    MaxPerPass = 1
    MaxEdits = 1
    MaxRestarts = 1
    MaxFailures = 1
CHECK_DEADLOCK FALSE
INVARIANTS FactsMatchSnapshot ProjectionMatchesFingerprint
PROPERTIES CatalogSettles
