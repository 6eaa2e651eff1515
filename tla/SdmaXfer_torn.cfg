\* The callback of the audio driver's aborted ring runs during the next set-up.
CONSTANTS
    MaxFrags = 2
    MaxSetups = 2
    MaxPulses = 2
    Options <- AudioRing
SPECIFICATION XferSpec
INVARIANT NoTornDescriptor
\* The driver stops after MaxSetups set-ups.
CHECK_DEADLOCK FALSE
