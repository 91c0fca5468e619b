SPECIFICATION FairSpec
CONSTANTS
    Instance = {i1, i2}
    Version <- MCVersion
    Stamp <- MCStamp
    Binary <- MCBinary
    Plan <- MCPlan
INVARIANTS
    TypeOK
    OnceEach
    NoConflict
    UpMeansMigrated
PROPERTIES
    ImplementsHistory
    StartsEnd
