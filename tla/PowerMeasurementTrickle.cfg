SPECIFICATION Spec
CONSTANTS
    Quantity <- Quantities
    Power = "ActivePower"
    Reading <- OneWatt
    Word = 4194304
    Deadband <- SmallDeadband
    Gap = {1000}
    MwMsPerMwh = 3600000
    ReportInterval = 60000
    PersistThreshold = 100000
    PersistMinInterval = 600000
    PersistMaxInterval = 21600000
    KvsMayFail = FALSE
    MaxPower = 3680000
    MaxUptime = 10000
    MaxBoots = 1
CHECK_DEADLOCK FALSE
INVARIANT TotalCorrect
