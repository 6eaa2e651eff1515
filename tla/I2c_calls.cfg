SPECIFICATION Spec
CONSTANTS
    MaxLen = 3
    OtherMaster = TRUE
INVARIANTS DoneMeansAll LastByteRefused BusGivenUp
