CONSTANTS
    Hosts = {h1, h2}
    MaxClients = 3
    EagerHosts = {h1}
SPECIFICATION Spec
INVARIANTS TypeOK OneConnection ListenersOfOwner NoOrphan
PROPERTIES TriedAgain
CHECK_DEADLOCK FALSE
