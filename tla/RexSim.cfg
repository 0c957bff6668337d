SPECIFICATION Spec
CONSTANTS
    g = g
    a1 = a1
    a2 = a2
    c1 = c1
    acct = acct
    slot = slot
    r1 = r1
    r2 = r2
    Block <- MCBlock
    Genesis = g
    Number <- MCNumber
    Ancestors <- MCAncestors
    ZeroHash = ZeroHash
    Account = {acct}
    Slot = {slot}
    Owner <- MCOwner
    Touched <- MCTouched
    Destroyed <- NoneOf
    Deployed <- NoneOf
    Code = {}
    Gone = Gone
    Unheld = Unheld
    Depth = 2
    Call <- Readers
    NotFound = NotFound
    Failed = Failed
    Torn = Torn
    Permits = 1
    CompletionDepth = 1
    MaxPending = 2
    MaxNotified = 3
SYMMETRY Interchangeable
INVARIANTS WrongHasReason HealedWhenCaughtUp RepliesRightUnlessLeft
CHECK_DEADLOCK FALSE
