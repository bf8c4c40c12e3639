\* Sessions and playbacks under fairness: one call, two sessions in a row on
\* the only pair of ports, two playbacks.
SPECIFICATION FairSpec
CONSTANTS
    MinPort = 4
    MaxPort = 5
    Call = {c1}
    Sid = {s1, s2}
    Bid = {}
    Pid = {p1, p2}
    Remote = {"none", "ok"}
    None = None
CHECK_DEADLOCK FALSE
INVARIANTS
    SocketOwnership
    SilentAfterDestroy
    TrackedIsRunning
PROPERTIES
    OneFinalEvent
    DestroyEndsPlayback
