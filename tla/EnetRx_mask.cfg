\* Interrupts masked in the NIC.
CONSTANTS
    N = 2
    Mbufs = {m1, m2, m3}
    Frames = 4
    Kermask = FALSE
    OneThread = TRUE
SPECIFICATION Spec
INVARIANT MaskedOnList
\* The interface may be destroyed.
CHECK_DEADLOCK FALSE
