\* Accesses to the PHY, which acknowledge the receive cause.
CONSTANTS
    N = 2
    Mbufs = {m1, m2, m3}
    Frames = 3
    Kermask = TRUE
    OneThread = TRUE
SPECIFICATION FairSpec
PROPERTY ReceptionGoesOn
\* The interface may be destroyed.
CHECK_DEADLOCK FALSE
