CONSTANTS
    Hosts = {h1, h2}
    MaxClients = 2
    EagerHosts = {h1}
SPECIFICATION Spec
INVARIANTS OneConnectionAnyUser
CHECK_DEADLOCK FALSE
