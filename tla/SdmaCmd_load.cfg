\* Three threads of two processes load contexts; commands time out.
CONSTANTS
    t1 = t1
    t2 = t2
    t3 = t3
    P1 = P1
    P2 = P2
    Procs = {P1, P2}
    Threads = {t1, t2, t3}
    Home <- MCHome
    MaxCalls <- MCCalls
SPECIFICATION FairSpec
INVARIANTS OnlyHolderListens DescriptorOwned LoadedInTime
PROPERTY CallsReturn
\* Every thread stops after MaxCalls calls.
CHECK_DEADLOCK FALSE
