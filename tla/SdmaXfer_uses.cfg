\* Every way in which the drivers use a channel, with aborts and restarts.
CONSTANTS
    MaxFrags = 3
    MaxSetups = 2
    MaxPulses = 2
    Options <- Uses
SPECIFICATION XferFairSpec
INVARIANTS NeverTornAtRest CompletionMeansAll WorksOnCurrentSetup
PROPERTY RingNeverStalls
\* The driver stops after MaxSetups set-ups.
CHECK_DEADLOCK FALSE
