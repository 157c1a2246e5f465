SPECIFICATION MCSpec
CONSTANTS
    c1 = c1 p1 = p1 h1 = h1 h2 = h2 v1 = v1 v2 = v2
    Clients <- MCClients
    CliClients <- MCClients
    Workspaces <- MCWorkspaces
    Handlers <- MCHandlers
    Versions <- MCVersions
    Listed = {}
    Ttls = {1}
    ReceiptTtls = {1}
    BatchLimit = 2
    QueueLag = 1
    MaxTime = 3
    MaxRev = 2
    MaxId = 2
    MaxReceipts = 0
    NoVersion = NoVersion
    NoReceipt = NoReceipt
SYMMETRY MCHandlerSymmetry
CHECK_DEADLOCK FALSE
INVARIANTS LiveBindingAnchored NoLostRegistration BindingsFollowTheirRows PurgeBlockedOnlyByLag
