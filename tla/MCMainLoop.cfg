SPECIFICATION FairLoopSpec
CONSTANTS
    Callback = {fetcher, throbber}
    None = None
    Delays <- Intervals
    TicksPerMs = 2
    MaxPoll = 2
    MaxTime = 4
PROPERTIES OncePerPass LateByCallbacks ImplementsTimers
CHECK_DEADLOCK FALSE
