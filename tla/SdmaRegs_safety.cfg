\* Two drivers of one process, two channels, two request lines they may share.
CONSTANTS
    c1 = c1
    c2 = c2
    P1 = P1
    Clients = {c1, c2}
    Home <- MCHome
    Channels = {ch1, ch2}
    Events = {0, 33}
SPECIFICATION Spec
INVARIANTS HostovrExact ExclusiveUnlessMisread
\* Drivers whose process died in attach, or that find no free channel, stop.
CHECK_DEADLOCK FALSE
