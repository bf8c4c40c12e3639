\* A call is cancelled while its media session is created.
SPECIFICATION Spec
CONSTANTS
    c1 = c1
    Inv = {i1}
    Call = {c1}
    CallOf <- OneCall
    Sid = {s1}
    Env = {"early"}
    MaxTasks = 2
    None = None
CHECK_DEADLOCK FALSE
INVARIANTS
    MediaOwned
