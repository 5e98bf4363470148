CONSTANTS
    MaxGets = 3
    Responses <- MCResponses
    Ends <- MCEnds
SPECIFICATION Spec
PROPERTIES EveryGetIsSettled
CHECK_DEADLOCK FALSE
