SPECIFICATION Spec
CONSTANTS
    Quantity <- Quantities
    Power = "ActivePower"
    Reading <- SmallReadings
    Word = 8
    Deadband <- SmallDeadband
    Gap = {1, 2}
    MwMsPerMwh = 4
    ReportInterval = 2
    PersistThreshold = 2
    PersistMinInterval = 2
    PersistMaxInterval = 5
    KvsMayFail = TRUE
    MaxPower = 6
    MaxUptime = 5
    MaxBoots = 2
CHECK_DEADLOCK FALSE
INVARIANT TypeOK
INVARIANT SubscriberNear
INVARIANT ToldMeasured
INVARIANT EnergyAccounted
INVARIANT EnergyPlausible
INVARIANT LossBounded
INVARIANT RefusedStaysDue
INVARIANT ToldBounded
PROPERTY StoreNeverShrinks
PROPERTY CounterImplemented
