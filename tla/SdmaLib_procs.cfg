\* Three processes load, initialise, fail, finish and die in every order.
CONSTANTS
    Procs = {p1, p2, p3}
    MaxUsers = 2
    MaxCrashes = 1
    Preloaded = FALSE
    Unlocked = {p1, p2}
SPECIFICATION MCSpec
INVARIANTS CountExact ResetOnlyWhenAlone SharedBlocks AllOrNothing
PROPERTY CallsReturn
\* A process that dies with libinit_mutex stops the others.
CHECK_DEADLOCK FALSE
