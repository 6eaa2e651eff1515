\* A worker processes the timestamp interrupt while the stack thread transmits:
\* FreedOnce is violated (event.c:135 against transmit.c:400).
CONSTANTS
    Threads = {"stack", "worker"}
    Stack = "stack"
    IrqThreads = {"worker"}
    N = 8
    MaxQueue = 1
    StopTries = 1
    Ptp = TRUE
    CanReinit = FALSE
SPECIFICATION Spec
INVARIANT FreedOnce
