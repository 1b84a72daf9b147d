SPECIFICATION Spec
CONSTANTS
    Period = 2
    Backlog = 2
    MaxStall = 3
    CfPulses = {1, 2}
    VoltagePulses = {0}
    CurrentPulses = {0}
    UnitScale = 2
    CountsPerWatt = 1
    CountsPerVolt = 1
    CountsPerAmp = 1
    OverPowerThreshold = 5
    OverPowerSamples = 2
INVARIANT SampleHonest
PROPERTY TripSustainedOnTime
