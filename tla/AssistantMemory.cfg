\* A decision, and a second investigation that pushes its plan out.
SPECIFICATION Spec
CONSTANTS
    a = a
    b = b
    r1 = r1
    r2 = r2
    t1 = t1
    t2 = t2
    ann = ann
    bob = bob
    Nowhere = Nowhere
    Withdraw = Withdraw
    NoPackage = NoPackage
    Lessons = {a, b}
    Rooms = {r1, r2}
    Times = {t1, t2}
    Pool = {bob}
    Fixed = {ann}
    Teacher <- MCTeacher
    Requested <- MCRequested
    Suits <- MCSuits
    Packages <- MCPackages
    Tasks <- MCTasks
    Outcomes <- MCOutcomes
    MaxCalls = 3
    MaxPlans = 1
    MaxInv = 2
    MaxTurns = 3
    MaxRuns = 2
PROPERTIES
    DecisionsAreRemembered
CHECK_DEADLOCK FALSE
