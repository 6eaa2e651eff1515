\* A ring of two, interrupts masked in the kernel, stop and init at any time.
CONSTANTS
    N = 2
    Mbufs = {m1, m2, m3}
    Frames = 3
    Kermask = TRUE
    OneThread = TRUE
SPECIFICATION FairSpec
INVARIANTS NoMbufLost NicHasOwnMbuf InOrder
PROPERTIES FramesTaken ReceptionRestarts
\* The interface may be destroyed.
CHECK_DEADLOCK FALSE
