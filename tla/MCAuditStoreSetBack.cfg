SPECIFICATION StoreSpec
CONSTANTS
    IDs = {i1, i2, i3}
    Users = {alice}
    Blank = Blank
    MaximumRecords = 3
    Retention = 1
    ClockMaySetBack = TRUE
    MaxClock = 4
    MaxAccepted = 4
SYMMETRY Symmetry
INVARIANTS
    RetentionHonoured
