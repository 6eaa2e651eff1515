\* A flow-control character is injected while tto sends another:
\* OverrideForControl is violated.
SPECIFICATION TxSpec
CONSTANTS
    MaxChars = 2
    MaxInject = 1
    MaxStty = 0
    FifoLevel = 1
INVARIANT OverrideForControl
