\* The callee hangs up at the moment the call is answered.
SPECIFICATION FairSpec
CONSTANTS
    Env = {"eager"}
CHECK_DEADLOCK FALSE
PROPERTIES
    CalleeHangupEndsCall
