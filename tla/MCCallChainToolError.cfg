SPECIFICATION Spec
CONSTANTS
    t1 = t1
    t2 = t2
    Txns = {t1}
    Calls <- MCNormalCalls
    None = None
INVARIANTS
    DownstreamRejectionFails
