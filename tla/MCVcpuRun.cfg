SPECIFICATION FairSpec
CONSTANTS
    Sources = {s1}
    Pausers = {p1}
    MaxEvents = 2
    Solo = {"timer", "dpc", "stop"}
INVARIANTS
    PausedMeansStopped
    SleeperIsWoken
    GuestIsInterrupted
    OneRequest
CHECK_DEADLOCK FALSE
PROPERTIES
    InterruptTaken
    RequestFinished
    PauseReturns
    StopReturns
