SPECIFICATION HintSpec
CONSTANTS
    c1 = c1
    c2 = c2
    k1 = k1
    k2 = k2
    v1 = v1
    v2 = v2
    proxy = proxy
    twin = twin
    zero = zero
    Call <- MCCallPair
    Key <- MCKey
    Tag <- MCTag
    ZeroHash = zero
    Value <- MCValue
    NotFound = NotFound
    Failed = Failed
    Absent = Absent
    Account <- MCAccount
    HashOf <- MCHashOf
    CodeOf <- MCCodeOf
    NoHint = NoHint
    Permits = 1
    CompletionDepth = 1
    MaxFlushes = 1
    MaxRegistrations = 2
    EpochGuarded = FALSE
    Tagged = FALSE
INVARIANT ToldIsHinted
CHECK_DEADLOCK FALSE
