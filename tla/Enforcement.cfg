SPECIFICATION Spec
CONSTANTS
    Call = {c1}
    Agent <- MCAgent
    Action <- MCAction
    Lifetime = {1, 2}
    TTL = 2
    Config <- MCConfig
INVARIANTS
    TypeOK
    ForwardedWasAllowed
    ServedAsAuthorized
PROPERTIES
    ImplementsLeasedAccess
