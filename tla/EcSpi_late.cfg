SPECIFICATION EcSpec
CONSTANTS
    FifoWords = 2
    Lens = {16}
    Dlens = {1}
    Xfers = 2
INVARIANT WaitsForExchange
CHECK_DEADLOCK FALSE
