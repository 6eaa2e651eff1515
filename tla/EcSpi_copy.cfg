SPECIFICATION EcSpec
CONSTANTS
    FifoWords = 2
    Lens = {3, 6}
    Dlens = {1}
    Xfers = 1
INVARIANT AnswersInPlace
CHECK_DEADLOCK FALSE
