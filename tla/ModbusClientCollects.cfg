CONSTANTS
    MaxRequests = 2
    MaxOutstanding = 2
    TidMod = 4
SPECIFICATION Spec
INVARIANTS BytesKept
CHECK_DEADLOCK FALSE
