SPECIFICATION Spec
CONSTANTS
    OverPowerSamples = 2
    QueueDepth = 2
    QueueCanFill = TRUE
    CallsMayFail = TRUE
    UnchangedNotifies = {TRUE, FALSE}
    Loads = {TRUE, FALSE}
CHECK_DEADLOCK FALSE
INVARIANT TypeOK
INVARIANT AttributeAgrees
INVARIANT PinAgrees
INVARIANT LedAgrees
INVARIANT BootOrder
PROPERTY EchoesNeedTrips
