\* Sessions and bridges: two calls, one session id to spare, two bridges.
SPECIFICATION Spec
CONSTANTS
    MinPort = 3
    MaxPort = 8
    Call = {c1, c2}
    Sid = {s1, s2, s3}
    Bid = {b1, b2}
    Pid = {}
    Remote = {"none", "ok"}
    None = None
SYMMETRY Symmetry
CHECK_DEADLOCK FALSE
INVARIANTS
    TypeOK
    PortAccounting
    PairsDisjoint
    CallIndex
    BridgeIndex
    SocketOwnership
