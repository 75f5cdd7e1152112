\* Pins and confirmations under two undo records.
SPECIFICATION Spec
CONSTANTS
    Days <- MCDays
    Hours <- MCHours
    RequestedDay = "tue"
    RequestedHour = 10
    MaxHistory = 2
INVARIANTS
    OffRequestIsConfirmed
    OffRequestIsPinned
