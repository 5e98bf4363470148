CONSTANTS
    MaxGets = 3
    Responses <- MCResponses
    Ends <- MCEnds
SPECIFICATION Spec
INVARIANTS TypeOK PendingIsUnanswered TimeoutsAreTrue GivenUpIsTold ResponseIsWhole
PROPERTIES OnlyCurrentSpeaks GetIsSettled
CHECK_DEADLOCK FALSE
