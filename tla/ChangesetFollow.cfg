SPECIFICATION FairSpec
CONSTANTS
    g = g
    a1 = a1
    a2 = a2
    a3 = a3
    b2 = b2
    b3 = b3
    c1 = c1
    acct = acct
    slot = slot
    code = code
    Block <- MCBlock
    Genesis = g
    Number <- MCNumber
    Ancestors <- MCAncestors
    ZeroHash = ZeroHash
    Account = {acct}
    Slot = {slot}
    Owner <- MCOwner
    Touched <- MCTouched
    Destroyed <- NoneDestroyed
    Deployed <- MCDeployed
    Code = {code}
    Gone = Gone
    Unheld = Unheld
    Depth = 2
    ReadAt <- ExactReads
    Lossy = FALSE
    Overlaps = TRUE
    Reverts = TRUE
    Logging <- MCLogging
    SinkDepth = 1
    MaxPending = 2
    MaxNotified = 3
    MaxHashReads = 0
INVARIANTS TypeOK ServesTruth InStep HistoryContiguous
PROPERTIES CodeKept AllHandled
CHECK_DEADLOCK FALSE
