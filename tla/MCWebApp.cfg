SPECIFICATION FairSpec
CONSTANTS
    Handlers = {h1, h2}
    Logins = {l1, l2}
    SessionIDs = {s1, s2}
    Users = {alice, bob}
    None = None
    MaximumSessions = 1
    PreAuthTTL = 1
    SessionTTL = 1
    MaxClock = 2
INVARIANTS
    TypeOK
    LoginExclusive
    ActsForItsUser
PROPERTIES
    NoLiveEviction
    ImplementsLifecycle
    RequestsAnswered
