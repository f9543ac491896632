SPECIFICATION Spec
CONSTANTS
    ClockSkew = 1
    MaximumLifetime = 1
    MaximumExpiresIn = 1
    Drift = 0
    Workloads = {"agent", "other"}
    Requester = "agent"
    Targets = {"demo", "elsewhere"}
    Tools = {"system.whoami", "customer.get"}
    MaxClock = 4
    Calls = {c1}
    MaxTokens = 1
    None = None
INVARIANTS
    TypeOK
    SignedRouteOnly
    LifetimeBounded
    CallerIsRequester
    SuccessIsTrailed
    NoWayAround
