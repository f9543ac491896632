SPECIFICATION FairSpec
CONSTANTS
    t1 = t1
    t2 = t2
    Txns = {t1, t2}
    Calls <- MCCalls
    None = None
INVARIANTS
    TrailsConsistent
    EffectsAudited
    DenialIsFinal
    TokenUnchanged
PROPERTIES
    EventuallySettled
