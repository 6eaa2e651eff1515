SPECIFICATION EcSpec
CONSTANTS
    FifoWords = 2
    Lens = {0, 1, 3, 4, 6, 8, 9, 18, 27}
    Dlens = {1, 2, 3, 4}
    Xfers = 2
INVARIANTS BytesExact QuietWhenDone
CHECK_DEADLOCK FALSE
