SPECIFICATION Spec
CONSTANTS
    Key <- MCKey
    KeyID <- MCKeyID
    Svid <- MCSvid
    Request = {r1, r2}
    TTL = 2
    Latency = 1
    Setup <- MCSetup
INVARIANTS
    TypeOK
PROPERTIES
    WithdrawnKeyExpires
    PublishedKeyIsAccepted
    Recovers
SYMMETRY
    Symmetry
