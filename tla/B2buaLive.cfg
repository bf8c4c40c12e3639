\* A dialled call that either party may end at any time, under fairness.
SPECIFICATION FairSpec
CONSTANTS
    Env = {"session", "bridge"}
CHECK_DEADLOCK FALSE
PROPERTIES
    CallerHangupEndsCall
    CalleeHangupEndsCall
