SPECIFICATION Spec
CONSTANT AppOutranksMatter = TRUE
INVARIANT GreenShowsRelay
CHECK_DEADLOCK FALSE
