SPECIFICATION FairSpec
CONSTANTS
    Fetches = {f1, f2, f3}
    MaxTrail = 2
INVARIANTS
    ListMatchesVersion
    SelectedIsShown
PROPERTIES
    StaysQuiet
    InvokeReenabled
