SPECIFICATION Spec
CONSTANTS
    IDs = {agent, other}
    Expected = agent
    Allowed = {other}
    None = None
    Threads = {t1, t2, t3}
INVARIANTS
    OnlyExpectedIdentity
    NothingLeaks
    CloseMeansClosed
