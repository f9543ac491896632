SPECIFICATION StoreSpec
CONSTANTS
    IDs = {i1, i2, i3}
    Users = {alice, bob}
    Blank = Blank
    MaximumRecords = 2
    Retention = 1
    ClockMaySetBack = TRUE
    MaxClock = 2
    MaxAccepted = 4
SYMMETRY Symmetry
INVARIANTS
    StoreTypeOK
    WindowIsSuffix
    HeldIDsUnique
    ListComplete
    RetentionWhileOrdered
PROPERTIES
    ImplementsAuditLog
