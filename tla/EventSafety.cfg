\* wait() answers true only for a reason, and a timed wait() ends; one thread
\* may be woken for no reason.
SPECIFICATION FairSpec
CONSTANTS
    Threads = {t1, t2, t3}
    Spurious = {t3}
INVARIANT TypeOK
PROPERTIES ImplementsPromise TimedWaitEnds
CHECK_DEADLOCK FALSE
