\* Two workbooks in one spot.
SPECIFICATION Spec
CONSTANTS
    w1 = w1
    w2 = w2
    NoBook = NoBook
    Books = {w1, w2}
    RowsOf <- MCRowsOf
    Spots = {s1, s2}
    Crashes = FALSE
INVARIANT NoDoubleBooking
