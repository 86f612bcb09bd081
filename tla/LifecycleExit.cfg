CONSTANT MaxCalls = 4
SPECIFICATION Spec
PROPERTY ExitEnds
CHECK_DEADLOCK FALSE
