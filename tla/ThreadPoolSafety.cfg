\* Two clients and resizing: where each task is, order, stopping, deleting,
\* and that an awake worker empties the list.
SPECIFICATION FairSpec
CONSTANTS
    Clients = {c1, c2}
    Owner = c1
    InitialWorkers = 1
    Sizes = {0, 1, 2}
    MaxWorkers = 2
    MaxTasks = 3
    TasksAdd = TRUE
    TasksCount = TRUE
    Spurious = TRUE
    NoThread = NoThread
    NoTask = NoTask
INVARIANTS TypeOK Accounted FifoTasks StopsSoon DeletedOnce NoUseAfterDestroy
PROPERTY AwakeWorkerDrains
\* The pool may be left alone, or be destroyed.
CHECK_DEADLOCK FALSE
