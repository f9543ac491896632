SPECIFICATION Spec
CONSTANTS
    Fetches = {f1, f2}
    MaxTrail = 1
INVARIANTS
    SignedOutPageIsBlank
