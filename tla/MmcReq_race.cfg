\* The first command of an identification is issued before the state is set.
SPECIFICATION Spec
CONSTANTS
    Single = {s}
    Multi = {m}
    UnitRdy = {u}
    None = None
    IdentCmds = 3
    MaxCards = 1
    MaxErrs = 1
    MaxStops = 1
INVARIANT NoUnexpectedInterrupt
