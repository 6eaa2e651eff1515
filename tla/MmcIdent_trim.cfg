SPECIFICATION IdSpec
CONSTANTS
    Kinds = {"sd1", "sd2", "sdhc", "mmc3", "mmc4", "emmc"}
    Bws = {0}
    NoHs = {FALSE}
    MaxStage = 6
    PwrRetry = 1
    Rounds = 2
CHECK_DEADLOCK FALSE
INVARIANT TrimRight
