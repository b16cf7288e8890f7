SPECIFICATION FairSpec
CONSTANTS
    Vcpus = {v1, v2, v3}
    Callers = {c1}
    Reasons = {"suspend", "poweroff", "crash"}
    None = None
INVARIANTS
    NothingInFlight
    PausedOnce
    Finalised
PROPERTY ShutdownCompletes
CHECK_DEADLOCK FALSE
