\* Operations against other requests, and their answers under a fair worker.
SPECIFICATION Spec
CONSTANTS
    o1 = o1
    o2 = o2
    Nobody = Nobody
    Ops = {o1, o2}
    MaxRecords = 1
    MaxVersion = 2
INVARIANTS
    TypeOK
    ActiveIsListed
PROPERTIES
    SavesOverWhatItRead
    NoSilentDiscard
    AcceptedFinishes
