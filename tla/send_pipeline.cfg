CONSTANTS
    a = a
    b = b
    c = c
    e = e
    f = f
    Senders = {a, c, e, f}
    Procs = {"p1", "p2", "p3"}
    Sentinels = {"home", "home.bonus", "clone.bonus"}
    ProcOf <- MCProcOf
    ScopeOf <- MCScopeOf
    SentinelOf <- MCSentinelOf
    Stored <- MCStored
    Approved = {c}
    Crashable = {"p1"}
    MaxLaunches <- MCLaunches
SPECIFICATION FairSpec
INVARIANT OneEmail
INVARIANT EveryEmailOnRecord
PROPERTY EverySendSettles
