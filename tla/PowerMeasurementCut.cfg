SPECIFICATION Spec
CONSTANTS
    Quantity <- Quantities
    Power = "ActivePower"
    Reading <- TwoKilowatts
    Word = 4096
    Deadband <- SmallDeadband
    Gap = {60}
    MwMsPerMwh = 3600
    ReportInterval = 60
    PersistThreshold = 100
    PersistMinInterval = 600
    PersistMaxInterval = 21600
    KvsMayFail = FALSE
    MaxPower = 3680
    MaxUptime = 300
    MaxBoots = 2
CHECK_DEADLOCK FALSE
INVARIANT EnergyMonotonic
