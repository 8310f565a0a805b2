SPECIFICATION Spec
CHECK_DEADLOCK FALSE
CONSTANTS
    Period = 2
    MaxTime = 4
PROPERTIES
    StopPreventsAdditionalTicks
