SPECIFICATION Spec
CONSTANTS
    c1 = c1
    c2 = c2
    c3 = c3
    k1 = k1
    zero = zero
    tA = tA
    tB = tB
    v1 = v1
    v2 = v2
    Call <- MCCall
    Key <- MCKeyOne
    Tag <- MCTag
    ZeroHash = zero
    Value <- MCValue
    NotFound = NotFound
    Failed = Failed
    Absent = Absent
    Permits = 2
    CompletionDepth = 2
    MaxFlushes = 1
    EpochGuarded = TRUE
    Tagged = TRUE
SYMMETRY Interchangeable
INVARIANTS TypeOK CacheUnderTag HandedUnderTag AnswersOwnRequest InflightExact WaiterHasRequest IInv
PROPERTIES KeepsPromise
CHECK_DEADLOCK FALSE
