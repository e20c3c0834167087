CONSTANTS
    a = a
    b = b
    c = c
    e = e
    f = f
    Senders = {a, b, c}
    Procs = {a, b, c}
    Sentinels = {"home"}
    ProcOf <- OwnProcess
    ScopeOf <- ReportScope
    SentinelOf <- OneSentinel
    Stored <- SameReport
    Approved = {}
    Crashable = {a}
    MaxLaunches <- OneLaunch
SPECIFICATION Spec
INVARIANT OneEmail
