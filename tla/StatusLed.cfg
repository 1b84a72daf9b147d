SPECIFICATION Spec
CONSTANT AppOutranksMatter = TRUE
INVARIANT TypeOK
INVARIANT NetworkLedShown
INVARIANT ColoursGiveWay
CHECK_DEADLOCK FALSE
