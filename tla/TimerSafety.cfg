\* Two addresses, three timers, callbacks that end, repeat or lock themselves out.
SPECIFICATION FairSpec
CONSTANTS
    Nodes = {n1, n2}
    Delays = {1, 5}
    Answers = {0, 3}
    Scale = 2
    MaxElapsed = 2
    MaxTimers = 3
    Reentrant = TRUE
    Spurious = TRUE
    TimerThread = th
INVARIANTS TypeOK NeverCallsRemoved NeverOversleeps
PROPERTIES ListedTimerServed QuitEnds
CHECK_DEADLOCK FALSE
