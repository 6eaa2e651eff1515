\* Two threads transmit, or one transmits and handles timestamp interrupts;
\* the ring goes around.
CONSTANTS
    Threads = {"stack", "worker"}
    Stack = "stack"
    IrqThreads = {"stack"}
    N = 16
    MaxQueue = 2
    StopTries = 2
    Ptp = TRUE
    CanReinit = FALSE
    Light = 3
SPECIFICATION MCSpec
INVARIANTS InUseExact BufferAlive
PROPERTIES NotWedged MbufsReturned
