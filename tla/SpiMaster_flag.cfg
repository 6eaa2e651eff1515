SPECIFICATION Spec
CONSTANTS
    Clients = {c1, c2}
    NDev = 2
    Nobody = Nobody
    DefaultMsgs = FALSE
INVARIANT LockedFlagRight
