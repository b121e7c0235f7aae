SPECIFICATION StatusSpec
CONSTANTS
    Watchers = {"v2"}
    Pause = 2
    MaxSwitches = 2
    MaxViews = 1
    MaxAttempts = 2
CHECK_DEADLOCK FALSE
INVARIANT PauseEnds
