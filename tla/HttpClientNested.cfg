CONSTANTS
    MaxGets = 3
    Responses <- MCResponses
    Ends <- MCEnds
SPECIFICATION Spec
INVARIANTS TimeoutsAlwaysTrue
CHECK_DEADLOCK FALSE
