CONSTANTS
    MaxRequests = 3
    MaxOutstanding = 2
    TidMod = 4
SPECIFICATION Spec
INVARIANTS NeverForeignUserData
CHECK_DEADLOCK FALSE
