SPECIFICATION Spec
CONSTANTS
    Requests = {r1}
    w1 = w1
    w2 = w2
    a1 = a1
    a2 = a2
    Workloads = {w1, w2}
    Agents = {a1, a2}
    None = None
    Settings <- MCSettings
    ActorSettings <- MCActorSettings
    MaxLifetime = 2
    MaxActorSkew = 1
    Skew = 1
    Timeout = 1
    Drift = 1
    MaxActorLife = 2
    MaxClock = 7
INVARIANTS
    BoundAndExact
    FreshIssueIsWhole
    AuthorityBounded
