SPECIFICATION Spec
CONSTANTS
    r1 = r1
    r2 = r2
    Reader <- MCReader
    MaxSwaps = 3
SYMMETRY Interchangeable
INVARIANTS TypeOK ValidSpansOneSwap Alarmed IInv
PROPERTIES ValidWhenQuiet
