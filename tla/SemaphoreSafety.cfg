\* Three threads and four calls of any kind, from a count of 1.
SPECIFICATION SemFairSpec
CONSTANTS
    Callers = {t1, t2, t3}
    Initial = 1
    Width = 8
    MaxCalls = 4
    SpuriousCallers = {t3}
    NoThread = NoThread
INVARIANTS SemTypeOK Conserved
PROPERTIES CallEnds
CHECK_DEADLOCK FALSE
