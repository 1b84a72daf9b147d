SPECIFICATION FairSpec
CONSTANTS
    Period = 2
    Backlog = 2
    MaxStall = 3
    CfPulses = {0}
    VoltagePulses = {1}
    CurrentPulses = {0}
    UnitScale = 2
    CountsPerWatt = 1
    CountsPerVolt = 1
    CountsPerAmp = 1
    OverPowerThreshold = 5
    OverPowerSamples = 2
INVARIANT TypeOK
INVARIANT CleanSamples
PROPERTY ReadingClean
PROPERTY BothRefresh
