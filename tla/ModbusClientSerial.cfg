CONSTANTS
    MaxRequests = 4
    MaxOutstanding = 1
    TidMod = 3
SPECIFICATION FairSpec
INVARIANTS TypeOK BytesKept OutcomeInOrder NoStaleTransaction
PROPERTIES SilentAfterDisconnect Answered Promised
CHECK_DEADLOCK FALSE
