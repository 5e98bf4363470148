CONSTANTS
    Name <- Service
    Messages <- MCMessages
    MaxQueries = 1
    MaxDatagrams = 1
SPECIFICATION Spec
INVARIANTS TypeOK Understood QueryIsStandard
PROPERTIES PublishedIsTrue OneInstanceIsWhole
CHECK_DEADLOCK FALSE
