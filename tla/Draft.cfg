\* Two lessons of one instructor, through history, staging and commit.
SPECIFICATION Spec
CONSTANTS
    l1 = l1
    l2 = l2
    r1 = r1
    r2 = r2
    t1 = t1
    t2 = t2
    NoRoom = NoRoom
    Lessons = {l1, l2}
    Rooms = {r1, r2}
    Times = {t1, t2}
    Retimable = {l1}
    Teacher <- MCTeacher
    Requested <- MCRequested
    Suits <- MCSuits
    LectureSpots <- MCLectureSpots
    MaxHistory = 2
    MaxBlock = 2
INVARIANTS
    TypeOK
    LedgerIntact
    RecordsFindTheirTargets
    DivergenceIsUnsealed
    TimesKept
    CommittedSound
PROPERTIES
    CommitsWhatWasStaged
    ImplementsThreeLayers
