\* The interface is initialised again while the ring is full.
CONSTANTS
    Threads = {"stack"}
    Stack = "stack"
    IrqThreads = {}
    N = 8
    MaxQueue = 4
    StopTries = 2
    Ptp = FALSE
    CanReinit = TRUE
SPECIFICATION Spec
INVARIANT InitRepeatable
\* mx6q_init may wait for the exclusion its own thread holds (EnetTx_stop).
CHECK_DEADLOCK FALSE
