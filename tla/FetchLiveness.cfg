SPECIFICATION FairSpec
CONSTANTS
    c1 = c1
    c2 = c2
    c3 = c3
    k1 = k1
    zero = zero
    tA = tA
    tB = tB
    v1 = v1
    v2 = v2
    Call <- MCCall
    Key <- MCKeyOne
    Tag <- MCTagZero
    ZeroHash = zero
    Value <- MCValueOne
    NotFound = NotFound
    Failed = Failed
    Absent = Absent
    Permits = 1
    CompletionDepth = 1
    MaxFlushes = 1
    EpochGuarded = TRUE
    Tagged = TRUE
PROPERTIES EveryRequestAnswered EveryFlushAnswered
CHECK_DEADLOCK FALSE
