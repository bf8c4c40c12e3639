\* A call that dials another; up to three drains, cancellations and failures.
SPECIFICATION Spec
CONSTANTS
    a = a
    b = b
    None = None
    Node = {n1, n2}
    Flaky = {n1, n2}
    UnhealthyThreshold = 2
    HealthyThreshold = 1
    MaxDisruptions = 3
    Peer <- MCPeer
    Overlap = FALSE
    MaxConcurrentMigrations = 1
    Call = {a, b}
    Early = {a, b}
    Sid = {s1, s2, s3, s4}
    DrainOp = {d1, d2}
SYMMETRY Symmetry
CHECK_DEADLOCK FALSE
INVARIANTS
    TypeOK
    CallHeard
    BridgedTogether
    DrainAccounts
    SessionsNamed
    RelayEnds
    DrainRuns
    NodeRecovers
