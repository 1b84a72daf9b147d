SPECIFICATION Spec
CONSTANT MaxBoots = 2
CHECK_DEADLOCK FALSE
INVARIANTS
    TypeOK
    ReadsAnswered
    AcceptedDispatched
    AnsweredOnce
    AccuracyDeclared
    RelayRestored
    LoadOffUntilStarted
    UpdateReady
    ClosedClean
    BootNotStuck
PROPERTIES BootEnds BootAdvances
