\* One call, two prompts, every route of two files; under fairness.
SPECIFICATION DialplanSpec
CONSTANTS
    MinPort = 4
    MaxPort = 5
    Call = {c1}
    Sid = {s1}
    Bid = {}
    Pid = {p1, p2}
    Remote = {"none", "ok"}
    None = None
    Config <- MCConfig
    Dest <- MCDest
    Target <- MCTarget
    Reg <- MCReg
    Domain = "home"
CHECK_DEADLOCK FALSE
INVARIANTS
    CallTypeOK
    BestRoute
PROPERTIES
    RefusedForCause
    DialsRegistered
    EndedCallUnwinds
    StopCompletes
