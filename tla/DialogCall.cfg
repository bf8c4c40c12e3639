\* One call, ended any number of times and by anyone once it has media.
SPECIFICATION FairSpec
CONSTANTS
    c1 = c1
    Inv = {i1}
    Call = {c1}
    CallOf <- OneCall
    Sid = {s1, s2}
    Env = {"hangup"}
    MaxTasks = 3
    None = None
CHECK_DEADLOCK FALSE
INVARIANTS
    AllRegistered
    MediaOwned
PROPERTIES
    AckDecided
