\* Two INVITEs with one Call-ID, and everything the environment may do.
SPECIFICATION Spec
CONSTANTS
    c1 = c1
    Inv = {i1, i2}
    Call = {c1}
    CallOf <- OneCall
    Sid = {s1, s2}
    Env = {"early", "hangup", "rpc", "long"}
    MaxTasks = 1
    None = None
SYMMETRY Symmetry
CHECK_DEADLOCK FALSE
INVARIANTS
    TypeOK
    EndedIsCancelled
PROPERTIES
    EndIsFinal
