\* Output, line settings and flow control beside the handler on another CPU.
SPECIFICATION MCSpec
CONSTANTS
    MaxChars = 2
    MaxInject = 1
    MaxStty = 1
    FifoLevel = 1
INVARIANT StopObeyed
PROPERTY OutputDrains
