\* Order, overruns and wake-ups for three readers, one of them woken at will.
SPECIFICATION FairSpec
CONSTANTS
    Readers = {r1, r2, r3}
    Writers = {w1, w2}
    NoThread = NoThread
    Spurious = {r2}
    MaxWrites = 4
INVARIANTS TypeOK FifoOrder NeverPopsEmpty
PROPERTY ParkedReaderServed
\* A timed read() that succeeds leaves mtx locked: everyone stops.
CHECK_DEADLOCK FALSE
