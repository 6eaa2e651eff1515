\* io-pkt with one thread: timestamp interrupts, stop and init.
CONSTANTS
    Threads = {"stack"}
    Stack = "stack"
    IrqThreads = {"stack"}
    N = 8
    MaxQueue = 1
    StopTries = 1
    Ptp = TRUE
    CanReinit = TRUE
SPECIFICATION Spec
INVARIANTS InUseExact SpareDescriptors
\* mx6q_init may wait for the exclusion its own thread holds (EnetTx_stop).
CHECK_DEADLOCK FALSE
