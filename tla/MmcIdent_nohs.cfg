SPECIFICATION IdSpec
CONSTANTS
    Kinds = {"sd1", "sd2", "sdhc", "mmc3", "mmc4", "emmc"}
    Bws = {0, 1}
    NoHs = {TRUE}
    MaxStage = 6
    PwrRetry = 1
    Rounds = 1
CHECK_DEADLOCK FALSE
INVARIANT NoHighSpeed
