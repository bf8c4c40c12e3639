\* One call, one drain.
SPECIFICATION Spec
CONSTANTS
    a = a
    b = b
    None = None
    Node = {n1, n2}
    Peer <- MCPeer
    Flaky = {}
    UnhealthyThreshold = 1
    HealthyThreshold = 1
    MaxDisruptions = 1
    Overlap = FALSE
    MaxConcurrentMigrations = 1
    Call = {c}
    Early = {}
    Sid = {s1, s2}
    DrainOp = {d1}
CHECK_DEADLOCK FALSE
INVARIANTS
    DialplanFollows
