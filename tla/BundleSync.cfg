SPECIFICATION FairSpec
CONSTANTS
    Agent <- MCAgent
    Policy <- MCPolicy
    Version <- MCVersion
    Kind = {"memory", "postgres"}
    Faults = {"lost", "list", "apply", "restart"}
    MaxFaults = 1
INVARIANTS
    TypeOK
    SyncCatchesUp
PROPERTIES
    Converges
