SPECIFICATION Spec
CONSTANTS
    AgentTexts = {agent1, agent2}
    SpiffeTexts = {web, collector}
    Malformed = Malformed
    MaxInt64 = 127
    Second = 10
    Minute = 60
    TTLs = {0, 6, 7, 13}
    MaxWorkloads = 2
    Routes = {route}
    Purposes = {whoami}
    Tools = {readTool, writeTool}
    Scopes = {s1, s2}
    MaxListed = 2
    MaxRules = 2
    Names = {sub, aud}
    MaxDepth = 3
    MaxMembers = 5
    Blank = Blank
CHECK_DEADLOCK FALSE
INVARIANTS
    AcceptedIsSound
    DecisionFollowsRules
    ScanExact
