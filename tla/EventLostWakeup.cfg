\* A set() between the check and the block of a wait() wakes nobody.
SPECIFICATION LatchSpec
CONSTANTS
    Threads = {t1, t2}
    Spurious = {}
PROPERTY SetWakesWaiters
CHECK_DEADLOCK FALSE
