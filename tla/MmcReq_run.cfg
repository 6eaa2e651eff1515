\* Cards replaced as fast as one likes; all threads in every interleaving.
SPECIFICATION Spec
CONSTANTS
    Single = {}
    Multi = {m}
    UnitRdy = {u}
    None = None
    IdentCmds = 3
    MaxCards = 2
    MaxErrs = 1
    MaxStops = 1
INVARIANTS GoodMeansDone GoodMeansMoved ReadyIsInserted
PROPERTY Answered
