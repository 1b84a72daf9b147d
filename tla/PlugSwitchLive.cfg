SPECIFICATION FairSpec
CONSTANTS
    OverPowerSamples = 2
    QueueDepth = 1
    QueueCanFill = FALSE
    CallsMayFail = FALSE
    UnchangedNotifies = {FALSE}
    Loads = {TRUE}
PROPERTY OverloadOpens
PROPERTY EventuallyAgrees
PROPERTY SettlesDown
