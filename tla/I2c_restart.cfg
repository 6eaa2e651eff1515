SPECIFICATION Spec
CONSTANTS
    MaxLen = 3
    OtherMaster = TRUE
INVARIANT OwnerForRestart
