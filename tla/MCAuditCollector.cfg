SPECIFICATION Spec
CONSTANTS
    IDs = {i1, i2}
    Users = {alice, bob}
    Blank = Blank
    None = None
    MaximumRecords = 2
    Retention = 1
    ClockMaySetBack = TRUE
    MaxClock = 2
    MaxAccepted = 2
    Peers = {webapp, stranger}
    AllowedSubmitters = {webapp}
    QueryCaller = webapp
    MaxListed = 1
    Posts = {p1, p2}
    Queries = {q1}
    MaxRestarts = 1
VIEW View
SYMMETRY Symmetry
INVARIANTS
    KnownRecordsAreShown
    ShownIsGenuine
    StoredOnce
