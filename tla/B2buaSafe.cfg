\* A dialled call that either party or a drain may end at any time.
SPECIFICATION Spec
CONSTANTS
    Env = {"B", "session", "bridge"}
CHECK_DEADLOCK FALSE
INVARIANTS
    BridgeWatched
    BMediaOwned
    CalleeReleased
    StoppedIsSilent
