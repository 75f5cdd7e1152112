\* Rounds of two workbooks that share a row number, whose commands may stop between
\* two writes, against their contract.
SPECIFICATION Spec
CONSTANTS
    w1 = w1
    w2 = w2
    NoBook = NoBook
    Books = {w1, w2}
    RowsOf <- MCOverlappingRows
    Spots = {s1, s2}
    Crashes = TRUE
INVARIANT
    OnlySharedRowsCollide
PROPERTIES
    
    CommitsActiveWorkbook
    ImplementsContract
