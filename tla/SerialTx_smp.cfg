\* Changing line settings beside the handler on another CPU: UartEnabled is
\* violated.
SPECIFICATION TxSpec
CONSTANTS
    MaxChars = 1
    MaxInject = 0
    MaxStty = 1
    FifoLevel = 1
INVARIANT UartEnabled
