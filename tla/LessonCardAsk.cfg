\* An assignment that changes the time without asking.
SPECIFICATION Spec
CONSTANTS
    Days <- MCDays
    Hours <- MCHours
    RequestedDay = "tue"
    RequestedHour = 10
    MaxHistory = 2
PROPERTY AssignAsksTheTeacher
