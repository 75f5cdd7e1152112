\* Previews, two-sheet and one-sheet imports, failing writes, an outside writer.
SPECIFICATION Spec
CONSTANTS
    rooms = rooms
    courses = courses
    w1 = w1
    w2 = w2
    s1 = s1
    s2 = s2
    Session = session
    NoSheet = NoSheet
    Missing = Missing
    Masters = {rooms, courses}
    Untracked = {courses}
    Uploads <- MCUploads
    Clashes <- MCClashes
    Shadows = 1
    MaxItems = 2
    MaxPreviews = 3
    MaxOutside = 1
    MaxFaults = 1
INVARIANTS
    TypeOK
    SheetsWereAudited
    FailedLeavesNothing
PROPERTIES
    AppliedIsWhole
    FailedChangedNothing
    OutsideSaveStays
CHECK_DEADLOCK FALSE
